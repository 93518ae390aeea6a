SPECIFICATION FairTransferSpec
CONSTANTS
  Byte <- MCByte
  ByteXor <- MCXor
  Header1 = 6
  Header2 = 5
  Size = 2
  Capacity = 4
  Structs <- MCStructs
  MaxFaults = 1
  MaxPending = 3
INVARIANTS TransferTypeOK
PROPERTIES SentInOrder KeepsReceiving
