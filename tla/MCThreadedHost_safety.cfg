\* Three clients for the two slots of the code, descriptors for all of them,
\* and no signal.
SPECIFICATION Spec
CONSTANTS
  MAX_CLIENTS = 2
  Conns = {a, b, e}
  Descriptors = {4, 5, 6}
  NoConn = none
  MayInterrupt = FALSE
SYMMETRY ConnSymmetry
\* the process may be killed
CHECK_DEADLOCK FALSE
INVARIANTS
  ThreadedTypeOK
  CountBounded
  NoDescriptorLeak
