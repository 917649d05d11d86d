CONSTANTS
    BlockData <- TransitionData
    Tx = {"t", "u", "v", "w"}
    TX_UNCONFIRMED = 99
    Peers = {p1, p2}
    Announced = {3, 4}
    NoBlock = NoBlock
    NoPeer = NoPeer
    Checkpoints = {"g"}
    StartBlock = "g"
    BLOCK_DIFFICULTY_INTERVAL = 2
    DGW_START_BLOCK = 99
    FarBehind = 99
    MaxPongs = 2
    Resets = FALSE
    Recent = 2
    Rescans = FALSE
    Restarts = TRUE
SPECIFICATION Spec
SYMMETRY PeerSymmetry
INVARIANTS SyncedConfirmed TransitionHeld
