SPECIFICATION FairSpec
CONSTANTS
  MaxPasses = 5
PROPERTY ClientPromise
INVARIANT PromptPacket
INVARIANT CopyIntact
INVARIANT NothingLeft
PROPERTY NotificationServed
PROPERTY LastPassSent
PROPERTY InterruptServed
