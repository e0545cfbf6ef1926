SPECIFICATION FairSpec
CONSTANTS
  k1 = k1
  k2 = k2
  v1 = v1
  v2 = v2
  c1 = c1
  Key = {k1}
  Data = {v1, v2}
  Channel = {c1}
  None = None
  MaxWord = 3
  CloseMs = 2
  NodeBytes = 60
  DataBytes = 5
  DigitWords = {3}
  MaxConns = 2
  SndBuf = 1
  Window = 1
  Split = FALSE
  MAX_CLEANUP = 1
  Requests <- AnsweredRequests
  MaxRequests = 3
  MaxConnects = 3
PROPERTY EveryRequestAnswered
PROPERTY TimedWaitEnds
CHECK_DEADLOCK FALSE
