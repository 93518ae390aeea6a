SPECIFICATION Spec
CONSTANTS
  Top = 4
  TickUs = 1
  MillisInc = 1
  FractInc = 1
  FractMax = 3
  Unit = 1
  Wrap = 16
  Wrap16 = 8
  Base = 4
  MaxDelay = 2
  MaxLag = 4
INVARIANTS TypeOK NoDrift
PROPERTIES ReadingsTrue DelayNotShort CallsReturn
