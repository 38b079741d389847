SPECIFICATION Spec
CONSTANTS
  MAX_CLIENTS = 2
  Conns = {a, b}
  Descriptors = {4, 5}
  NoConn = none
  MayInterrupt = TRUE
\* the process ends
CHECK_DEADLOCK FALSE
INVARIANT
  AllThreadsJoined
