SPECIFICATION Spec
CONSTANTS
  Socket = {s1, s2}
  NoSocket = NoSocket
  Command = {c1, c2}
  MaxBufferSize = 1
  MissLimit = 1
  MayStop = TRUE
  MayReopen = FALSE
  MaxEvents = 0
  MaxQueue = 1
  MaxFaults = 2
SYMMETRY Symmetry
INVARIANTS
  NeverStranded
  SuccessMeansExecuted
PROPERTY
  SettledOnce
CHECK_DEADLOCK FALSE
