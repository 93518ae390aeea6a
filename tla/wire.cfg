SPECIFICATION BusSpec
CONSTANTS
  Byte = {"00", "a5"}
  Zero = "00"
  Size = 2
  QuickReset = TRUE
  MaxWritten = 3
  Values = 8
  Quantities = {1, 2}
  MaxSession = 2
  MaxTransactions = 2
INVARIANT TypeOK
PROPERTIES TransmissionIntact ReadReturnsDue AcrossTheBus
