\* A debug build whose application feeds two requests without waiting for
\* a flush in between.
SPECIFICATION Spec
CHECK_DEADLOCK FALSE
CONSTANTS
  mSmall = mSmall
  mExact = mExact
  mSplit = mSplit
  Size <- MCSize
  BufSz = 2
  MaxSize = 8
  Boundary = 2
  HighBit = 1024
  Msgs = {mSmall, mSplit}
  Drivers <- MCDebugFeed
  PeerReader = "rfc1831"
  NumSends = 2
INVARIANT NoEncodeAssertFailure
