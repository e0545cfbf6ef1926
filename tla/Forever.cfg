SPECIFICATION Spec
CONSTANTS
  k1 = k1
  k2 = k2
  v1 = v1
  v2 = v2
  c1 = c1
  Key = {k1, k2}
  Data = {v1, v2}
  Channel = {c1}
  None = None
  MaxWord = 3
  CloseMs = 2
  NodeBytes = 60
  DataBytes = 5
  DigitWords = {3}
  MaxConns = 3
  SndBuf = 1
  Window = 1
  Split = FALSE
  MAX_CLEANUP = 1
  Requests <- ForeverRequests
  MaxRequests = 4
  MaxConnects = 3
INVARIANT QueuesExact
PROPERTY WokenOnItsKey
PROPERTY BlpopIsFifo
CHECK_DEADLOCK FALSE
