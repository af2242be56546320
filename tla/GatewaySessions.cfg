SPECIFICATION FairSpec
CONSTANTS
  Ws = {w1, w2}
  Ip = {remote}
  NoIp = NoIp
  Local = {}
  Limit <- OneEach
  Key = {k1, k2}
  NoKey = NoKey
  Token = {t1}
  NoToken = NoToken
  AdminToken = {t1}
  MaxAuth = 2
  MaxRestarts = 1
INVARIANTS CountsExact LimitHolds PairedOnce
PROPERTIES DeadSessionsReaped StopEnds
CHECK_DEADLOCK FALSE
