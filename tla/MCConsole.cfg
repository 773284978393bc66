SPECIFICATION FairSpec
CONSTANTS
  MaxLines = 2
  MaxRemote = 2
  Input = {"quit", "lag", "other"}
INVARIANT JoinedBeforeDelete
INVARIANT ExitSeen
PROPERTY ExitCompletes
PROPERTY QuitEnds
PROPERTY QuitServed
