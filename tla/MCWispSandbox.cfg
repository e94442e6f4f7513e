SPECIFICATION SFairSpec
CONSTANTS
  Grants = {g1}
  HostCalls = 2
  MaxRuns = 2
  MaxRequests = 2
INVARIANTS
  AnswersAreAwaited
  OpsBelongToRequest
  LateResultsDropped
  ResourcesHonoured
PROPERTIES
  SandboxImplementsContract
  RequestsSettle
\* A closed sandbox accepts nothing: the system may stop.
CHECK_DEADLOCK FALSE
