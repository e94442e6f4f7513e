SPECIFICATION Spec
CONSTANTS
    Goldens <- MCGoldens
    Named <- MCNamed
    None = None
    Deeper = Deeper
INVARIANTS NeverGuessed KeyIsShallowest RecordedOrDropped
CHECK_DEADLOCK FALSE
