SPECIFICATION FairSpec
CONSTANTS
  MAX_CLIENTS = 3
  Descriptors = {3, 4, 5, 6}
  Listener = 3
  FreshRevents = {0}
  Conns = {q1, q2, q3}
  NoConn = NoConn
  BACKLOG = 2
  MaxSend = 1
  SndBuf = 1
  BadFormat = {"garbled"}
CHECK_DEADLOCK FALSE
PROPERTY
  ClientServed
