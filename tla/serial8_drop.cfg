SPECIFICATION Spec
CONSTANTS
  b1 = b1
  b2 = b2
  Byte = {b1, b2}
  NoByte = NoByte
  Size = 5
  Base = 2
  Calls = {"begin", "read"}
  Reopen = FALSE
  PromptIsr = FALSE
  MaxRx = 6
  MaxTx = 0
INVARIANTS DropOnlyWhenFull
