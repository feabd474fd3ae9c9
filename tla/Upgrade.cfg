\* One client changes what it lists, updates and upgrades, while another updates or checks out.
SPECIFICATION Spec
CONSTANTS
  f1 = f1  f2 = f2  x = x  y = y  zero = zero  k1 = k1  k2 = k2  k3 = k3  c1 = c1  c2 = c2
  None = None  Null = Null  Bad = Bad
  File <- TwoFiles
  Byte = {x, y, zero}
  Zero = zero
  Conn = {k1, k2}
  Room = 2
  Client = {c1, c2}
  Contents <- Texts
  Heap = {TRUE}
  Commands <- CommandsOf
  Start <- FileStart
  MaxRuns <- RunsOf
  Main = 6
  MainCommands = {"add", "remove", "update", "commit", "push", "upgrade", "checkout"}
  Others = 1
  OtherCommands = {"add", "remove", "update", "commit", "push", "upgrade", "checkout"}
  MaxEdits = 1
  MaxFaults = 0
SYMMETRY SymmetryConn
CHECK_DEADLOCK FALSE
INVARIANTS TypeOK ServerSnapshot
PROPERTIES OnlyStaleLinesSpoil
