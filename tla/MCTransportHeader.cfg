SPECIFICATION Spec
CONSTANTS
  MaxPasses = 3
INVARIANT HeaderValid
