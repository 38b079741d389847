SPECIFICATION Spec
CONSTANTS
  MAX_CLIENTS = 3
  Descriptors = {3, 4, 5, 6}
  Listener = 3
  FreshRevents = {0, 2}
  Conns = {q1, q2, q3}
  NoConn = NoConn
  BACKLOG = 2
  MaxSend = 2
  SndBuf = 1
  BadFormat = {"crash", "garbled"}
SYMMETRY ConnSymmetry
CHECK_DEADLOCK FALSE
INVARIANTS
  HostTypeOK
  HostInv
  DescriptorsAccounted
  RecvOnlyOpen
  NoHoleInBroadcast
  BroadcastPrefix
  RelayInOrder
  BlocksInTwoPlaces
PROPERTIES
  ImplementsRoom
  SlotsStay
