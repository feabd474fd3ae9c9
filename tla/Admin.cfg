\* The commands that are a single request, with every outcome of the uninitialised reads.
SPECIFICATION Spec
CONSTANTS
  f1 = f1  f2 = f2  x = x  y = y  zero = zero  k1 = k1  k2 = k2  k3 = k3  c1 = c1  c2 = c2
  None = None  Null = Null  Bad = Bad
  File <- OneFile
  Byte = {x, y, zero}
  Zero = zero
  Conn = {k1, k2}
  Room = 2
  Client = {c1, c2}
  Contents <- OtherText
  Heap = {TRUE, FALSE}
  Commands <- CommandsOf
  Start <- FileStart
  MaxRuns <- RunsOf
  Main = 3
  MainCommands = {"update", "commit", "push"}
  Others = 2
  OtherCommands = {"create", "rollback", "unknown", "destroy", "currentversion", "history", "testsendfile", "checkout"}
  MaxEdits = 1
  MaxFaults = 1
SYMMETRY SymmetryConn
CHECK_DEADLOCK FALSE
INVARIANTS IInv NoRemains
PROPERTIES AsRepository
