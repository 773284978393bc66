SPECIFICATION FairSpec
CONSTANTS
  NumSignals = 1
  N = 2
  Wrap = 4
  MayStop = TRUE
  MaxBlocks = 3
  MaxPhantom = 1
PROPERTY RingsImplemented
PROPERTY ShutdownCompletes
