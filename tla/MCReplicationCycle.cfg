SPECIFICATION Spec
CONSTANTS
    Objects = {1, 2, 3, 4}
    Root = 1
    Owner = 1
    Tree <- LongTree
    Edits = {"reparent"}
    MaxEdits = 2
    MaxMoves = 1
    InitialFocus = {3}
    PeerQuantum = 4
    ReadLimit = 3
    Allowances = {1, 4}
    MayDefer = FALSE
    MaySlice = FALSE
INVARIANT FramesAccepted
