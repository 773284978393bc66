SPECIFICATION FairSpec
CONSTANTS
  NumDevs = 1
  nfft = 2
  MaxLevel = 1
  Commands = {"lag", "sync", "samplerate"}
  MaxCommands = 2
  MayStop = TRUE
INVARIANT NoStrayCorrection
PROPERTY OnlyLagHoldsUp
