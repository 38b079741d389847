SPECIFICATION MCSpec
CONSTANTS
  c1 = c1
  c2 = c2
  Clients = {c1, c2}
  Nobody = Nobody
  TableSlots = 2
  Fits = 2
  RcvRoom = 2
  MaxLines <- MCLines
  Seconds = 2
  MaxRuns = 2
  Addresses = 3
  SocketFds = {3, 4}
  MAX_CLIENTS = 4
  Descriptors = {0, 4, 5}
  FreshRevents = {0, 2}
  SIZE = 3
  MAX_LINE = 2
  MaxQueue = 2
  RcvBuf = 1
  Percent = TRUE
CHECK_DEADLOCK FALSE
INVARIANT
  ProgramsTypeOK
  NobodyWaitsInVain
  SavesStay
  OneDescriptor
  PoolTypeOK
  PoolInv
  HolesAreQuiet
  NcursesTypeOK
  TextTerminated
  BoxesDeleted
PROPERTY
  AnswersCome
  HostGetsOn
  CloseSeen
