SPECIFICATION FairSpec
CONSTANTS
  MaxLines = 1
  MaxRemote = 0
  Input = {"other"}
PROPERTY PromptReturns
