SPECIFICATION FairSpec
CONSTANT NumSignals = 2
INVARIANT StartTogether
INVARIANT NobodySleepsOn
INVARIANT StartIsOver
INVARIANT LateCalls
PROPERTY AllStart
PROPERTY ShutdownCompletes
