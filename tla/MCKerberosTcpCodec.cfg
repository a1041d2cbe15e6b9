SPECIFICATION Spec
CHECK_DEADLOCK FALSE
CONSTANTS
  mSmall = mSmall
  mExact = mExact
  mSplit = mSplit
  Size <- MCSize
  BufSz = 2
  MaxSize = 8
  Boundary = 2
  HighBit = 1024
  Msgs = {mSmall, mExact, mSplit}
  Drivers <- MCDrivers
  PeerReader = "rfc1831"
  NumSends = 3
INVARIANTS TypeOK
PROPERTIES ChannelRefinement
