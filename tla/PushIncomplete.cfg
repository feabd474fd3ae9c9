\* A push of a file that was added but not committed.
SPECIFICATION Spec
CONSTANTS
  f1 = f1  f2 = f2  x = x  y = y  zero = zero  k1 = k1  k2 = k2  k3 = k3  c1 = c1  c2 = c2
  None = None  Null = Null  Bad = Bad
  File <- OneFile
  Byte = {x, y, zero}
  Zero = zero
  Conn = {k1, k2}
  Room = 2
  Client = {c1}
  Contents <- Texts
  Heap = {TRUE}
  Commands <- CommandsOf
  Start <- FileStart
  MaxRuns <- RunsOf
  Main = 4
  MainCommands = {"add", "commit", "push", "remove"}
  Others = 4
  OtherCommands = {"add", "commit", "push", "remove"}
  MaxEdits = 1
  MaxFaults = 0
SYMMETRY Symmetry
CHECK_DEADLOCK FALSE
INVARIANTS PublishedStored
