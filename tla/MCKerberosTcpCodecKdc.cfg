SPECIFICATION Spec
CHECK_DEADLOCK FALSE
CONSTANTS
  mSmall = mSmall
  mExact = mExact
  mSplit = mSplit
  Size <- MCSize
  BufSz = 2
  MaxSize = 8
  Boundary = 2
  HighBit = 1024
  Msgs = {mSmall, mSplit}
  Drivers <- MCReleaseOnly
  PeerReader = "rfc4120"
  NumSends = 2
PROPERTY EveryRequestDelivered
