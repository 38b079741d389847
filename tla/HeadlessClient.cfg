SPECIFICATION FairSpec
CONSTANTS
  MAX_LINE = 2
  STDIO = 3
  SndBuf = 2
  MaxTyped = 4
  MaxNuls = 1
  MaxPosted = 3
CHECK_DEADLOCK FALSE
INVARIANT
  HeadlessTypeOK
  SentInOrder
  NoLossWithinBuffer
  LostIsTail
PROPERTY
  LinesLeave
  HostCloseSeen
  InputEndSeen
