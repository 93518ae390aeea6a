SPECIFICATION TwiFair
CONSTANTS
  Byte = {"00", "a5"}
  Zero = "00"
  Size = 2
  Values = 8
  ReadLengths = {1, 2}
  WriteLengths = {0, 2}
  OtherMaster = TRUE
  BusErrors = TRUE
  Prompt = TRUE
  LongCallback = TRUE
  Roles = {"caller", "listener"}
  MaxHeard = 0
  MaxListened = 4
INVARIANTS TwiTypeOK
PROPERTIES CodesAreTrue ReadMeansGot NackOnLast CallbackGetsHeard SentIsAnswer CallsReturn
\* A listener that has stopped answering waits for ever.
CHECK_DEADLOCK FALSE
