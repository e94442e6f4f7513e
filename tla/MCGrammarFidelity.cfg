SPECIFICATION Spec
CONSTANTS
    Written <- MCWritten
    Headers <- MCHeaders
    RENAMES <- MCRenames
    OUR_HELPERS <- MCHelpers
    EXPECTED_COUNT_DIFFS <- MCDiffs
INVARIANTS ReadAsWritten CleanIsCorresponding
CHECK_DEADLOCK FALSE
