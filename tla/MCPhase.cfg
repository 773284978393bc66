SPECIFICATION Spec
CONSTANTS
  NumSignals = 2
  N = 2
  MaxPasses = 3
  MaxCommands = 2
INVARIANT SentCorrected
INVARIANT EstimateAligned
INVARIANT LateEstimates
INVARIANT CoefficientsFinite
