SPECIFICATION Spec
CONSTANTS
    Trees <- MCTrees
    Moves <- MCMoves
    Ext <- MCExt
    Slashed <- MCSlashed
    None = None
INVARIANTS NothingIsLost SelectedIsImplemented
