CONSTANTS
    TxData <- ReplaceableTx
    TX_UNCONFIRMED = 9
    GapLimit <- OneAddressGaps
    Stamps = {0}
    Gaps = {1}
    MaxAddrs = 4
    MaxHeight = 2
    MaxClock = 1
    MaxBatch = 2
SPECIFICATION Spec
INVARIANTS TypeOK HeightSorted ListedOnceAndHeld UnconfirmedBeforeComplete BalanceIsUtxos
