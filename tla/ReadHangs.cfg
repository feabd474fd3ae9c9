\* A client on a platform whose sleep(0) keeps errno.
SPECIFICATION FairSpec
CONSTANTS
  a = a  b = b  nul = nul
  Block = 2
  Char = {a, b, nul}
  Nul = nul
  Unset = Unset
  None = None
  Modes <- GlibcClients
  Files <- OneFile
  Room = 2
  MaxBack = 1
  IntSize = 2
  Limit = 1
  MaxLength = 1
  MaxTransfers = 1
CHECK_DEADLOCK FALSE
PROPERTIES AllReadsEnd
