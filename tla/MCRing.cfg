SPECIFICATION FairSpec
CONSTANTS
  N = 4
  Wrap = 8
  IsReference = FALSE
  MayFail = TRUE
  MaxBlocks = 13
  MaxPhantom = 2
INVARIANT Accounting
INVARIANT StartupSkew
INVARIANT RingContents
INVARIANT CleanRead
INVARIANT NoOrphanWait
PROPERTY ShutdownFreesReader
