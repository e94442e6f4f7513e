SPECIFICATION Spec
CONSTANTS
    None = None
    HasWasmTools = TRUE
    NON_IDEMPOTENT_UPSTREAM = {}
    SyntaxMessages <- MCSyntax
    Invalid = {}
    CustomOnly = {}
    Seeds <- MCSeeds
    Tokens <- MCTokens
    Texts <- MCReached
    Ref <- MCRef
    Ports <- MCPorts
    Quotes <- MCQuotes
    Routes <- MCBoth
    Count = 2
    Edits = 2
    Budget = 7
INVARIANTS FindIsMinimal
PROPERTIES VerdictIsTrue SessionEnds
CHECK_DEADLOCK FALSE
