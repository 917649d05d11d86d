CONSTANTS
    TxData <- DoubleSpendTx
    TX_UNCONFIRMED = 9
    GapLimit <- OneAddressGaps
    Stamps = {0}
    Gaps = {}
    MaxAddrs = 4
    MaxHeight = 1
    MaxClock = 0
    MaxBatch = 1
SPECIFICATION Spec
INVARIANTS OneSpenderValid CoinsNotSpentTwice
PROPERTIES NoDependentLeftBehind
