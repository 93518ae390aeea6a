SPECIFICATION TwiSpec
CONSTANTS
  Byte = {"00", "a5"}
  Zero = "00"
  Size = 2
  Values = 8
  ReadLengths = {}
  WriteLengths = {1}
  OtherMaster = TRUE
  BusErrors = FALSE
  Prompt = TRUE
  LongCallback = FALSE
  Roles = {"caller"}
  MaxHeard = 1
  MaxListened = 0
PROPERTY ZeroMeansSent
