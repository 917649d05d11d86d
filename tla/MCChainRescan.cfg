CONSTANTS
    BlockData <- CheckpointData
    Tx = {"t", "u", "v"}
    TX_UNCONFIRMED = 99
    Peers = {p1, p2}
    Announced = {4}
    NoBlock = NoBlock
    NoPeer = NoPeer
    Checkpoints = {"g", "a2"}
    StartBlock = "g"
    BLOCK_DIFFICULTY_INTERVAL = 2
    DGW_START_BLOCK = 0
    FarBehind = 99
    MaxPongs = 2
    Resets = FALSE
    Recent = 4
    Rescans = TRUE
    Restarts = FALSE
SPECIFICATION Spec
SYMMETRY PeerSymmetry
INVARIANTS TypeOK SyncedConfirmed
