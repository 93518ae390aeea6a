SPECIFICATION Spec
CONSTANTS
  RawBuf = 6
  Gap = 2
  Wrap = 4
  BitTicks = 1
  CommandBits = 2
  Table = 2
  Mine = {1}
  MaxTicks = 1
  MaxMark = 2
INVARIANTS TypeOK RecordsLine ReadyInTime
PROPERTIES DecodedIsHeard GapFirst OncePerFrame
