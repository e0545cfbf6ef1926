SPECIFICATION Spec
CONSTANTS
  k1 = k1
  k2 = k2
  v1 = v1
  v2 = v2
  c1 = c1
  Key = {k1}
  Data = {v1, v2}
  Channel = {c1}
  None = None
  MaxWord = 3
  CloseMs = 2
  NodeBytes = 60
  DataBytes = 5
  DigitWords = {3}
  MaxConns = 3
  SndBuf = 1
  Window = 1
  Split = FALSE
  MAX_CLEANUP = 1
  Requests <- BlockingRequests
  MaxRequests = 3
  MaxConnects = 3
INVARIANT TypeOK
INVARIANT SlabOK
INVARIANT BlockedIsQueued
INVARIANT DeadlineIsScheduled
INVARIANT NoWaiterOnElements
INVARIANT OneReplyEach
INVARIANT ReplyIsScheduled
PROPERTY EndOfWaitAnswers
CHECK_DEADLOCK FALSE
