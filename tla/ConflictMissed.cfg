\* Two clients change the same file.
SPECIFICATION Spec
CONSTANTS
  f1 = f1  f2 = f2  x = x  y = y  zero = zero  k1 = k1  k2 = k2  k3 = k3  c1 = c1  c2 = c2
  None = None  Null = Null  Bad = Bad
  File <- OneFile
  Byte = {x, y, zero}
  Zero = zero
  Conn = {k1, k2}
  Room = 2
  Client = {c1, c2}
  Contents <- OtherTexts
  Heap = {TRUE}
  Commands <- CommandsOf
  Start <- FileStart
  MaxRuns <- RunsOf
  Main = 4
  MainCommands = {"remove", "add", "update", "commit", "push"}
  Others = 4
  OtherCommands = {"remove", "add", "update", "commit", "push"}
  MaxEdits = 2
  MaxFaults = 0
SYMMETRY Symmetry
CHECK_DEADLOCK FALSE
PROPERTIES ConflictAsked
