\* Files beyond one block.
SPECIFICATION Spec
CONSTANTS
  a = a  b = b  nul = nul
  Block = 2
  Char = {a, b, nul}
  Nul = nul
  Unset = Unset
  None = None
  Modes <- FaithfulFetches
  Files <- BigFiles
  Room = 2
  MaxBack = 1
  IntSize = 2
  Limit = 2
  MaxLength = 1
  MaxTransfers = 2
CHECK_DEADLOCK FALSE
INVARIANTS FilesArrive
