SPECIFICATION Spec
CONSTANTS
    None = None
    HasWasmTools = TRUE
    NON_IDEMPOTENT_UPSTREAM <- MCUnstable
    SyntaxMessages <- MCSyntax
    Invalid = {}
    CustomOnly <- MCCustomOnly
    Files <- MCFiles
    Worlds <- MCWorlds
    Corpora <- MCCorpora
    Jobs = 2
    Invocations <- MCInvocations
    SPAN_EXEMPT <- MCExempt
INVARIANTS  ResultIsSequential GreenIsParity SelfTestIsGreen
