\* Files of all kinds over every kind of connection.
SPECIFICATION FairSpec
CONSTANTS
  a = a  b = b  nul = nul
  Block = 2
  Char = {a, b, nul}
  Nul = nul
  Unset = Unset
  None = None
  Modes <- AllModes
  Files <- SomeFiles
  Room = 2
  MaxBack = 1
  IntSize = 2
  Limit = 1
  MaxLength = 1
  MaxTransfers = 2
CHECK_DEADLOCK FALSE
INVARIANTS TypeOK NoOverrun SmallArrive
PROPERTIES AsQueue ReadsEnd
