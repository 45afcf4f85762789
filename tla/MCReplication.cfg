SPECIFICATION Spec
CONSTANTS
    Objects = {1, 2, 3}
    Root = 1
    Owner = 2
    Tree <- ChainTree
    Edits = {"create", "destroy", "reparent", "reference", "tag", "name"}
    MaxEdits = 2
    MaxMoves = 1
    InitialFocus = {2}
    PeerQuantum = 4
    ReadLimit = 3
    Allowances = {1, 4}
    MayDefer = TRUE
    MaySlice = TRUE
INVARIANTS FramesAccepted AcceptedIsReplica QuiescentAgrees
