SPECIFICATION Spec
CONSTANTS
    Sources <- MCSources
    Checkouts <- MCCheckouts
    PerWast = 1
    OnlyLists <- MCOnly
    Finds <- MCFinds
    None = None
    Cut = Cut
INVARIANTS FullCollectIsExact FullCollectBlockers
PROPERTY OthersAreLeftAlone
