SPECIFICATION Spec
CONSTANTS
  NumDevs = 1
  nfft = 2
  MaxLevel = 1
  Commands = {}
  MaxCommands = 0
  MayStop = FALSE
INVARIANT NoLostRequest
