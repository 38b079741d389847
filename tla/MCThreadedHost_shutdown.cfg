\* As many clients as there are slots, and a signal at any moment.
SPECIFICATION FairSpec
CONSTANTS
  MAX_CLIENTS = 2
  Conns = {a, b}
  Descriptors = {4, 5}
  NoConn = none
  MayInterrupt = TRUE
\* the process ends
CHECK_DEADLOCK FALSE
INVARIANTS
  JoinsCreatedOnce
  JoinAwaitsCancelled
  NoDescriptorLeak
PROPERTY
  ShutdownEnds
