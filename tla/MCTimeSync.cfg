SPECIFICATION FairSpec
CONSTANTS
  NumDevs = 2
  nfft = 2
  MaxLevel = 2
  Commands = {"sync"}
  MaxCommands = 1
  MayStop = FALSE
INVARIANT TypeOK
INVARIANT SyncedMeansAligned
PROPERTY StandingRequestServed
PROPERTY Converges
