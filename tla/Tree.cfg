\* One client's commands over a project with folders.
SPECIFICATION Spec
CONSTANTS
  a = a  b = b  d = d  proj = proj  x = x  y = y  zero = zero
  None = None  Null = Null  Bad = Bad
  Name = {a, b, d, proj}
  Project = proj
  Hash <- TheirHashes
  MaxDepth = 4
  Path <- Paths
  Code <- Codes
  Size = 20
  Byte = {x, y, zero}
  Zero = zero
  Room = 3
  Contents <- TwoTexts
  Stored <- ShortText
  MaxRuns = 6
  MaxEdits = 1
CHECK_DEADLOCK FALSE
INVARIANTS TypeOK RoundTrip LookupsAgree
PROPERTIES AsIndex UpdateAsFlat CheckoutFetches
