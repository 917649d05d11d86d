CONSTANTS
    BlockData <- TransitionData
    Tx = {"t", "u", "v", "w"}
    TX_UNCONFIRMED = 99
    Peers = {p1, p2}
    Announced = {4, 5}
    NoBlock = NoBlock
    NoPeer = NoPeer
    Checkpoints = {"g"}
    StartBlock = "g"
    BLOCK_DIFFICULTY_INTERVAL = 2
    DGW_START_BLOCK = 99
    FarBehind = 99
    MaxPongs = 1
    Resets = TRUE
    Recent = 2
    Rescans = FALSE
    Restarts = FALSE
SPECIFICATION Spec
SYMMETRY PeerSymmetry
INVARIANTS ConfirmedOnMainChain WalksFindBlocks
CHECK_DEADLOCK FALSE
