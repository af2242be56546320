SPECIFICATION Spec
CHECK_DEADLOCK FALSE
SYMMETRY Symmetry
CONSTANTS
  Msg = {m1, m2, m3}
  Sid = {s1, s2}
  None = none
  MaxRestart = 1
INVARIANTS
  IInv
  StateAgrees
  EndedComesBackOnlyUnderway
  MonitoringHasTask
