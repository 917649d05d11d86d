CONSTANTS
    TxData <- TimeLockedTx
    TX_UNCONFIRMED = 9
    GapLimit <- OneAddressGaps
    Stamps = {0, 1}
    Gaps = {}
    MaxAddrs = 4
    MaxHeight = 1
    MaxClock = 1
    MaxBatch = 1
SPECIFICATION FairSpec
PROPERTIES OperationsReturn
