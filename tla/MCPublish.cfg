CONSTANTS
    Peers = {p1, p2}
    NoPeer = NoPeer
    Tx = {"t"}
    Inputs <- NoInputs
    Calls = {"c1", "c2"}
    TxOf <- RetryOf
    KeepsTransaction = FALSE
    OneAtATime = TRUE
    NoCall = NoCall
    Relayed = Relayed
    Foreign = {}
    MAX_CONNECT_FAILURES = 2
    maxConnectCount = 2
    MaxEvents = 2
    MaxPongs = 1
SPECIFICATION Spec
SYMMETRY PeerSymmetry
INVARIANTS TypeOK FreedNotUsed RelaysAreConnected ToldOkIsKnown 
PROPERTIES ImplementsPublication
CHECK_DEADLOCK FALSE
