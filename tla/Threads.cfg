\* Two connections and two interrupts.
SPECIFICATION FairSpec
CONSTANTS
  k1 = k1  k2 = k2  k3 = k3
  None = None
  Conn = {k1, k2}
  MaxRequests = 2
  MaxSignals = 2
CHECK_DEADLOCK FALSE
INVARIANTS StopsServing NothingCutOff IInv
PROPERTIES ServerStops WaitEnds OneAtATime
