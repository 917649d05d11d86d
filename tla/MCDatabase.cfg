CONSTANTS
    BlockData <- ForkData
    Tx = {"t", "u", "v"}
    TX_UNCONFIRMED = 99
    Peers = {p1, p2}
    NoBlock = NoBlock
    NoJob = NoJob
    Genesis = "g"
    BLOCK_DIFFICULTY_INTERVAL = 2
    MaxQueue = 3
    Removals = TRUE
    DbFails = TRUE
SPECIFICATION Spec
SYMMETRY PeerSymmetry
INVARIANTS TypeOK SavedChainHasTx  
