SPECIFICATION FairSpec
CONSTANTS
  b1 = b1
  b2 = b2
  Byte = {b1}
  NoByte = NoByte
  Size = 3
  Base = 4
  Calls = {"begin", "read", "peek", "available", "write", "flush", "end"}
  Reopen = FALSE
  PromptIsr = TRUE
  MaxRx = 4
  MaxTx = 4
INVARIANT DropOnlyWhenFull
PROPERTIES StoredIsSeen Drained CallsReturn WrittenIsSent
