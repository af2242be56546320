SPECIFICATION FairSpec
CONSTANTS
  Socket = {s1, s2}
  NoSocket = NoSocket
  Command = {}
  MaxBufferSize = 2
  MissLimit = 1
  MayStop = FALSE
  MayReopen = FALSE
  MaxEvents = 3
  MaxQueue = 2
  MaxFaults = 2
CHECK_DEADLOCK FALSE
INVARIANTS
  IInv
  NothingLost
PROPERTIES
  ImplementsLossyChannel
  DaemonRegistered
  BufferDrains
