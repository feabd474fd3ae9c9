\* Two clients edit a file of a shared project and push it; programs are killed.
SPECIFICATION Spec
CONSTANTS
  f1 = f1  f2 = f2  x = x  y = y  zero = zero  k1 = k1  k2 = k2  k3 = k3  c1 = c1  c2 = c2
  None = None  Null = Null  Bad = Bad
  File <- OneFile
  Byte = {x, y, zero}
  Zero = zero
  Conn = {k1, k2}
  Room = 2
  Client = {c1, c2}
  Contents <- Texts
  Heap = {TRUE}
  Commands <- CommandsOf
  Start <- FileStart
  MaxRuns <- RunsOf
  Main = 3
  MainCommands = {"update", "commit", "push"}
  Others = 3
  OtherCommands = {"update", "commit", "push"}
  MaxEdits = 2
  MaxFaults = 1
SYMMETRY Symmetry
CHECK_DEADLOCK FALSE
INVARIANTS NoMutualWait ServerVersionFrozen PublishedWhole HistoryStored CompleteWhole SessionInv
PROPERTIES CommittedStored
