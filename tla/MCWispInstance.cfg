SPECIFICATION FairSpec
CONSTANTS
  Grants = {g1, g2}
  HostCalls = 2
  MaxRuns = 2
INVARIANTS
  CallLimit
  LateCallsAreAborted
  OneUnfinishedStack
  AuthorityConfined
PROPERTIES
  RevocationIsFinal
  CancellationIsFinal
  ImplementsContract
  EveryRunSettles
\* A retired instance accepts nothing: the system may stop.
CHECK_DEADLOCK FALSE
