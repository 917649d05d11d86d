CONSTANTS
    Peers = {p1, p2, p3}
    NoPeer = NoPeer
    Workers = {w1}
    App = App
    maxConnectCount = 2
    MAX_CONNECT_FAILURES = 2
    DnsThreads = 1
    MaxDns = 1
    MaxHeight = 1
    MaxLag = 0
    ThreadsFail = FALSE
SPECIFICATION Spec
SYMMETRY Symmetric
VIEW Unreported
INVARIANTS TypeOK ConnectionsBounded DownloadPeerAlive AtRestNotSyncing
CHECK_DEADLOCK FALSE
