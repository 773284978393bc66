SPECIFICATION Spec
CONSTANTS
  NumSignals = 2
  N = 2
  Wrap = 4
  MayStop = FALSE
  MaxBlocks = 6
  MaxPhantom = 0
INVARIANT PassesAgree
INVARIANT ColumnsInOrder
INVARIANT OffsetIsSkew
INVARIANT ColumnsStay
