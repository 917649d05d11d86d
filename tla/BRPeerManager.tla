--------------------------- MODULE BRPeerManager ---------------------------
(***************************************************************************)
(* Connections and the state of a sync (Modules/core/BRPeerManager.c,      *)
(* Modules/core/BRPeer.c): connecting to up to maxConnectCount peers,      *)
(* choosing the one to download the chain from, giving up after            *)
(* MAX_CONNECT_FAILURES failures, the app's BRPeerManagerConnect,          *)
(* BRPeerManagerDisconnect and BRPeerManagerRescan, and what WalletManager *)
(* and the user are told of it.                                            *)
(*                                                                         *)
(* A step is what a thread does while it holds manager->lock, or one thing *)
(* it does without it: calling syncStarted or syncStopped, opening a       *)
(* socket, leaving its loop.  The app's calls are made one at a time, on   *)
(* DispatchQueue.walletQueue; a peer's thread that reconnects after        *)
(* _peerDisconnected has freed its peer goes on as one of Workers.         *)
(* Blocks, forks and filters are BRBlockChain's and publishing is          *)
(* BRPublishedTx's: of the chain only its height matters here.             *)
(***************************************************************************)
EXTENDS Integers, FiniteSets

CONSTANTS
    Peers,                \* the addresses that exist
    NoPeer,
    Workers,              \* bound: threads that may be reconnecting at a time
    App,                  \* the thread of walletQueue
    maxConnectCount,      \* PEER_MAX_CONNECTIONS
    MAX_CONNECT_FAILURES, \* 20
    DnsThreads,           \* DNS_SEEDS_COUNT - 1
    MaxDns,               \* bound: dnsThreadCount
    MaxHeight,            \* bound: of a peer's lastblock
    MaxLag,               \* 10: how far behind us a peer may be
    ThreadsFail           \* may pthread_create fail?

Threads == Workers \cup {App}

ASSUME ManagerAssumption ==
    /\ IsFiniteSet(Peers) /\ NoPeer \notin Peers /\ App \notin Workers
    /\ maxConnectCount \in Nat \ {0} /\ MAX_CONNECT_FAILURES \in Nat \ {0}
    /\ DnsThreads \in Nat /\ MaxDns \in Nat /\ DnsThreads <= MaxDns
    /\ MaxHeight \in Nat /\ MaxLag \in Nat
    /\ ThreadsFail \in BOOLEAN

VARIABLES
    peer,         \* each address's BRPeerContext, see NotConnected
    manager,      \* the rest of BRPeerManager
    thread,       \* where each thread is in BRPeerManagerConnect or BRPeerManagerDisconnect
    syncState     \* what the user sees, set by WalletManager.syncStarted and syncStopped

vars == <<peer, manager, thread, syncState>>

-----------------------------------------------------------------------------

(***************************************************************************)
(* "none": not in connectedPeers.  "waiting": ctx->waitingForNetwork, and  *)
(* no thread.  "failed": its thread could not be created.  "starting": it  *)
(* has a thread and no socket yet.  "opening": it has a socket and is      *)
(* connecting or shaking hands.  "cut" and "closed": BRPeerDisconnect has  *)
(* closed the socket of an opening or a connected peer, whose thread will  *)
(* find out.  "ended": its thread has left its loop with ctx error.        *)
(***************************************************************************)
Status == {"none", "waiting", "failed", "starting", "opening", "connected", "cut", "closed", "ended"}

NotConnected ==
    [status |-> "none",
     lastblock |-> 0,
     timer |-> FALSE,          \* disconnectTime is not DBL_MAX, once connected
     awaiting |-> {},          \* pings to answer: "filter" (_loadBloomFilterDone), "mempool" (_mempoolDone)
     reporting |-> FALSE,      \* its thread is to call syncStopped(info, 0)
     error |-> "OK"]           \* "OK", "EPROTO", or any other as "ECONN"

New(s) == [NotConnected EXCEPT !.status = s]

In(ps) == {p \in Peers : ps[p].status # "none"}

connectedPeers == In(peer)

\* BRPeerConnectStatus(p) == BRPeerStatusConnected
IsConnected(p) == peer[p].status \in {"connected", "closed"}

\* The thread of p can take the next message.
Running(p) == IsConnected(p) /\ ~peer[p].reporting

\* BRPeerConnect, for a new peer or one that waits: it waits if networkIsReachable says so.
Outcome == {"waiting", "starting"} \cup (IF ThreadsFail THEN {"failed"} ELSE {})

\* BRPeerDisconnect does nothing to a peer that has no socket.
Disconnected(c) ==
    [c EXCEPT !.status = CASE @ = "opening" -> "cut"
                           [] @ = "connected" -> "closed"
                           [] OTHER -> @]

\* _BRPeerManagerSyncStopped: the contexts after it, publications aside.
SyncStopped(ps) ==
    [p \in Peers |-> IF p = manager.downloadPeer THEN [ps[p] EXCEPT !.timer = FALSE] ELSE ps[p]]

-----------------------------------------------------------------------------
(* BRPeerManagerConnect. *)

\* The calls that threads make: the app's, and that of a thread that has lost its peer.
AppConnect ==
    /\ thread[App] = "idle"
    /\ thread' = [thread EXCEPT ![App] = "connect"]
    /\ manager' = [manager EXCEPT !.wanted = TRUE]
    /\ UNCHANGED <<peer, syncState>>

\* "this is a manual retry"
Retried == IF manager.failures >= MAX_CONNECT_FAILURES THEN 0 ELSE manager.failures

StartsSync ==
    (manager.downloadPeer = NoPeer \/ manager.height < manager.estimated) /\ ~manager.syncing

\* A sync starts: the lock is released to say so.
ConnectStarts(t) ==
    /\ thread[t] = "connect"
    /\ StartsSync
    /\ thread' = [thread EXCEPT ![t] = "started"]
    /\ manager' = [manager EXCEPT !.failures = Retried, !.syncing = TRUE]
    /\ UNCHANGED <<peer, syncState>>

ReportStarted(t) ==
    /\ thread[t] = "started"
    /\ thread' = [thread EXCEPT ![t] = "resume"]
    /\ syncState' = "syncing"
    /\ UNCHANGED <<peer, manager>>

\* Mutant: the room is what there was before _BRPeerManagerFindPeers released the lock.
ChosenBeforeWait(ps) == {N \in SUBSET (Peers \ In(ps)) : Cardinality(N) <= maxConnectCount}

\* The peers that BRPeerManagerConnect may add to the contexts ps: as many as there is room for
\* when it holds the lock, of the addresses that manager->peers happens to hold.
Chosen(ps) ==
    {N \in SUBSET (Peers \ In(ps)) : Cardinality(N) + Cardinality(In(ps)) <= maxConnectCount}

\* The end of BRPeerManagerConnect: with nothing to connect to the sync has failed.
Fill(t, ps, failures) ==
    \E N \in Chosen(ps), s \in Outcome :
        LET filled == [p \in Peers |-> IF p \in N THEN New(s) ELSE ps[p]]
            none   == In(filled) = {}
        IN  /\ peer' = filled
            /\ manager' = [manager EXCEPT !.failures = failures, !.syncing = @ /\ ~none]
            /\ thread' = [thread EXCEPT ![t] = IF none THEN "unreachable" ELSE "idle"]

\* Peers that wait for the network are tried again.
Woken(s) ==
    [p \in Peers |-> IF peer[p].status = "waiting" THEN New(s) ELSE peer[p]]

\* BRPeerManagerConnect, from its first lock if no sync starts and else from its second: with few
\* or old addresses _BRPeerManagerFindPeers starts the DNS threads and releases the lock.
ConnectGoesOn(t) ==
    /\ \/ thread[t] = "resume"
       \/ thread[t] = "connect" /\ ~StartsSync
    /\ \E s \in Outcome :
          LET ps       == Woken(s)
              failures == IF thread[t] = "connect" THEN Retried ELSE manager.failures
          IN  \/ /\ Cardinality(In(ps)) < maxConnectCount   \* DNS peer discovery
                 /\ manager.dns + DnsThreads <= MaxDns
                 /\ peer' = ps
                 /\ manager' = [manager EXCEPT !.failures = failures, !.dns = @ + DnsThreads]
                 /\ thread' = [thread EXCEPT ![t] = "finding"]
              \/ Fill(t, ps, failures)
    /\ UNCHANGED syncState

\* _BRPeerManagerFindPeers has what it waited for.
ConnectFound(t) ==
    /\ thread[t] = "finding"
    /\ Fill(t, peer, manager.failures)
    /\ UNCHANGED syncState

\* Mutant: dnsThreadCount also goes down for a thread that was never counted.
FindPeersThreadUncounted ==
    /\ manager' = [manager EXCEPT !.dns = @ - 1]
    /\ UNCHANGED <<peer, thread, syncState>>

\* _findPeersThreadRoutine, the end of a lookup.
FindPeersThread ==
    /\ manager.dns > 0
    /\ manager' = [manager EXCEPT !.dns = @ - 1]
    /\ UNCHANGED <<peer, thread, syncState>>

\* WalletManager.syncStopped; "unreachable" and "failed" are calls with an error.
ReportStopped(t) ==
    /\ thread[t] \in {"unreachable", "failed", "ended"}
    /\ thread' = [thread EXCEPT ![t] = "idle"]
    /\ syncState' = IF thread[t] = "ended" THEN "success" ELSE "connecting"
    /\ UNCHANGED <<peer, manager>>

\* The same call by the thread of a peer, in _mempoolDone or _loadBloomFilterDone.
ReportDone(p) ==
    /\ peer[p].reporting
    /\ peer' = [peer EXCEPT ![p].reporting = FALSE]
    /\ syncState' = "success"
    /\ UNCHANGED <<manager, thread>>

-----------------------------------------------------------------------------
(* BRPeerManagerDisconnect and BRPeerManagerRescan, called by the app. *)

Disconnect ==
    /\ thread[App] = "idle"
    /\ thread' = [thread EXCEPT ![App] = "disconnecting"]
    /\ manager' = [manager EXCEPT
           !.failures = IF connectedPeers = {} THEN @ ELSE MAX_CONNECT_FAILURES,
           !.wanted = FALSE]
    /\ peer' = [p \in Peers |-> Disconnected(peer[p])]
    /\ UNCHANGED syncState

\* It returns when it finds all peers and all DNS threads gone.
DisconnectReturn ==
    /\ thread[App] = "disconnecting"
    /\ connectedPeers = {} /\ manager.dns = 0
    /\ thread' = [thread EXCEPT ![App] = "idle"]
    /\ UNCHANGED <<peer, manager, syncState>>

\* Back to a checkpoint, here height 0, with another download peer.
Rescan ==
    LET dp == manager.downloadPeer
    IN  /\ thread[App] = "idle"
        /\ dp # NoPeer
        /\ peer' = [peer EXCEPT ![dp] = Disconnected(@)]
        /\ manager' = [manager EXCEPT !.height = 0, !.syncing = FALSE]
        /\ thread' = [thread EXCEPT ![App] = "connect"]
        /\ UNCHANGED syncState

-----------------------------------------------------------------------------
(* The thread of a peer. *)

\* _BRPeerOpenSocket: from here on BRPeerDisconnect finds a socket to close.
OpenSocket(p) ==
    /\ peer[p].status = "starting"
    /\ peer' = [peer EXCEPT ![p].status = "opening"]
    /\ UNCHANGED <<manager, thread, syncState>>

\* _BRPeerManagerLoadMempools, of the peers whose status is connected in ps, for the download peer dp.
LoadMempools(ps, dp) ==
    {[p \in Peers |->
        IF ps[p].status \notin {"connected", "closed"} THEN ps[p]
        ELSE [ps[p] EXCEPT !.awaiting =
                @ \cup {IF p # dp \/ highFp THEN "filter" ELSE "mempool"}]] : highFp \in BOOLEAN}

\* The handshake is over, also when the last message was read just before the socket was closed.
DidConnect(p, height) ==
    [peer EXCEPT ![p] = [New(IF @.status = "cut" THEN "closed" ELSE "connected")
                            EXCEPT !.lastblock = height]]

Shaking(p) == peer[p].status \in {"opening", "cut"}

\* _peerConnected: not a full node, one without bloom filters, or one that is too far behind.
PeerConnectedUnfit(p, height) ==
    /\ Shaking(p)
    /\ peer' = [DidConnect(p, height) EXCEPT ![p] = Disconnected(@)]
    /\ UNCHANGED <<manager, thread, syncState>>

KeepsDownloadPeer(height) ==
    /\ manager.downloadPeer # NoPeer
    /\ peer[manager.downloadPeer].lastblock >= height \/ manager.height >= height

\* _peerConnected: the download peer stays.  The new one is sent a filter if we are not behind it.
PeerConnectedOther(p, height) ==
    LET synced == manager.height >= height
    IN  /\ Shaking(p)
        /\ height + MaxLag >= manager.height
        /\ KeepsDownloadPeer(height)
        /\ manager' = [manager EXCEPT !.failures = IF synced THEN 0 ELSE @]
        /\ peer' = [DidConnect(p, height) EXCEPT ![p].awaiting = IF synced THEN {"filter"} ELSE {}]
        /\ UNCHANGED <<thread, syncState>>

\* _peerConnected: of the peers with the highest last block, the one with the lowest ping time
\* becomes the download peer.
PeerConnectedDownload(p, height, q) ==
    LET ps  == DidConnect(p, height)
        old == manager.downloadPeer
        up  == {r \in Peers : ps[r].status \in {"connected", "closed"}}
        qs  == [r \in Peers |-> IF r = old THEN Disconnected(ps[r]) ELSE ps[r]]
    IN  /\ Shaking(p)
        /\ height + MaxLag >= manager.height
        /\ ~KeepsDownloadPeer(height)
        /\ q \in up /\ \A r \in up : ps[q].lastblock >= ps[r].lastblock
        /\ IF manager.height < ps[q].lastblock
              THEN /\ manager' = [manager EXCEPT !.downloadPeer = q, !.estimated = ps[q].lastblock]
                   /\ peer' = [qs EXCEPT ![q].timer = TRUE]
              ELSE /\ manager' = [manager EXCEPT !.downloadPeer = q, !.estimated = ps[q].lastblock,
                                                 !.failures = 0]
                   /\ peer' \in LoadMempools(qs, q)
        /\ UNCHANGED <<thread, syncState>>

\* _peerRelayedBlock, a block that extends the main chain.
RelayedBlock(p) ==
    LET height == manager.height + 1
        behind == height < manager.estimated /\ p = manager.downloadPeer
    IN  /\ Running(p)
        /\ height <= peer[p].lastblock
        /\ manager' = [manager EXCEPT !.height = height,
                                      !.failures = IF behind THEN 0 ELSE @,
                                      !.estimated = IF @ < height THEN height ELSE @]
        /\ IF height = manager.estimated
              THEN peer' \in LoadMempools(peer, manager.downloadPeer)
              ELSE peer' = [peer EXCEPT ![p].timer = @ \/ behind]
        /\ UNCHANGED <<thread, syncState>>

\* _loadBloomFilterDone, the pong of a filterload.
FilterPong(p) ==
    /\ Running(p)
    /\ "filter" \in peer[p].awaiting
    /\ peer' = [peer EXCEPT ![p].awaiting = (@ \ {"filter"}) \cup {"mempool"}]
    /\ UNCHANGED <<manager, thread, syncState>>

\* _mempoolDone: whichever peer it is, the sync has succeeded.
MempoolPong(p) ==
    LET ps == [peer EXCEPT ![p].awaiting = @ \ {"mempool"}, ![p].reporting = manager.syncing]
    IN  /\ Running(p)
        /\ "mempool" \in peer[p].awaiting
        /\ peer' = IF manager.syncing THEN SyncStopped(ps) ELSE ps
        /\ manager' = [manager EXCEPT !.syncing = FALSE]
        /\ UNCHANGED <<thread, syncState>>

\* _peerThreadRoutine leaves its loop, or _BRPeerOpenSocket fails.  A socket that BRPeerDisconnect
\* closed may show as an error or as none, but never in the thread that closed it.
ThreadEnds(p, error) ==
    /\ peer[p].status \in {"starting", "opening", "cut"} \/ Running(p)
    /\ \/ error = "ECONN"
       \/ error = "OK" /\ peer[p].status \in {"cut", "closed"}
       \/ error = "EPROTO" /\ peer[p].status \in {"opening", "connected"}
    /\ peer' = [peer EXCEPT ![p].status = "ended", ![p].error = error, ![p].timer = FALSE,
                              ![p].lastblock = IF p = manager.downloadPeer THEN @ ELSE 0]
    /\ UNCHANGED <<manager, thread, syncState>>

\* The pong callbacks that are left are called with success = 0.  Then _loadBloomFilterDone stops
\* the sync of the download peer.
PongsFail(p) ==
    LET stops == "filter" \in peer[p].awaiting /\ p = manager.downloadPeer
    IN  /\ peer[p].status = "ended"
        /\ peer[p].awaiting # {}
        /\ peer' = [peer EXCEPT ![p].awaiting = {}, ![p].reporting = stops]
        /\ manager' = [manager EXCEPT !.syncing = @ /\ ~stops]
        /\ UNCHANGED <<thread, syncState>>

\* connectFailureCount++; beyond the limit all counts are alike.
Counted(n) == IF n <= MAX_CONNECT_FAILURES THEN n + 1 ELSE n

\* Mutant: the count of a lost download peer is left as it is.
CappedNever(p, n) == n

\* The count when p is gone: the download peer's end brings it back to the limit.
Capped(p, n) ==
    IF p = manager.downloadPeer /\ n > MAX_CONNECT_FAILURES THEN MAX_CONNECT_FAILURES ELSE n

\* Mutant: the download peer is forgotten only if it was syncing.
DownloadPeerKept(p) ==
    IF p = manager.downloadPeer /\ manager.syncing THEN NoPeer ELSE manager.downloadPeer

DownloadPeerWithout(p) == IF p = manager.downloadPeer THEN NoPeer ELSE manager.downloadPeer

\* _peerDisconnected.  Its thread goes on as w.
PeerDisconnected(p, w) ==
    LET error    == peer[p].error
        counted  == IF error = "ECONN" THEN Counted(manager.failures) ELSE manager.failures
        failures == Capped(p, counted)
        dp       == DownloadPeerWithout(p)
        failed   == dp = NoPeer /\ failures = MAX_CONNECT_FAILURES
    IN  /\ peer[p].status = "ended"
        /\ peer[p].awaiting = {} /\ ~peer[p].reporting
        /\ thread[w] = "idle"
        /\ peer' = [peer EXCEPT ![p] = NotConnected]
        /\ manager' = [manager EXCEPT !.downloadPeer = dp, !.failures = failures,
                                      !.syncing = @ /\ ~failed]
        /\ thread' = [thread EXCEPT ![w] =
               CASE failed -> IF error = "OK" THEN "ended" ELSE "failed"
                 [] ~failed /\ failures < MAX_CONNECT_FAILURES -> "connect"
                 [] OTHER -> "idle"]
        /\ UNCHANGED syncState

-----------------------------------------------------------------------------

Init ==
    /\ peer = [p \in Peers |-> NotConnected]
    /\ manager = [downloadPeer |-> NoPeer, syncing |-> FALSE, failures |-> 0, height |-> 0,
                  estimated |-> 0, dns |-> 0,
                  wanted |-> FALSE]    \* whether the app's last call was to connect
    /\ thread = [t \in Threads |-> "idle"]
    /\ syncState = "connecting"

ConnectStep(t) == ConnectStarts(t) \/ ReportStarted(t) \/ ConnectGoesOn(t) \/ ConnectFound(t) \/ ReportStopped(t)

Connected(p) ==
    \E height \in 0..MaxHeight :
        \/ PeerConnectedUnfit(p, height)
        \/ PeerConnectedOther(p, height)
        \/ \E q \in Peers : PeerConnectedDownload(p, height, q)

Next ==
    \/ AppConnect \/ Disconnect \/ DisconnectReturn \/ Rescan
    \/ \E t \in Threads : ConnectStep(t)
    \/ FindPeersThread
    \/ \E p \in Peers : \/ OpenSocket(p)
                        \/ Connected(p)
                        \/ RelayedBlock(p) \/ FilterPong(p) \/ MempoolPong(p)
                        \/ ReportDone(p)
                        \/ \E e \in {"OK", "ECONN", "EPROTO"} : ThreadEnds(p, e)
                        \/ PongsFail(p)
                        \/ \E w \in Workers : PeerDisconnected(p, w)

Spec == Init /\ [][Next]_vars

(***************************************************************************)
(* Threads run, and a peer that is connecting, whose socket is closed or   *)
(* that has a timeout goes on or ends.  A connected peer without a timeout *)
(* may be silent for ever.                                                 *)
(***************************************************************************)
MustEnd(p) == peer[p].status \in {"starting", "opening", "cut", "closed"} \/ peer[p].timer

PeerStep(p) ==
    \/ OpenSocket(p) \/ Connected(p) \/ ReportDone(p) \/ PongsFail(p)
    \/ MustEnd(p) /\ \E e \in {"OK", "ECONN", "EPROTO"} : ThreadEnds(p, e)
    \/ \E w \in Workers : PeerDisconnected(p, w)

FairSpec ==
    /\ Spec
    /\ \A t \in Threads : WF_vars(ConnectStep(t))
    /\ WF_vars(FindPeersThread)
    /\ WF_vars(DisconnectReturn)
    /\ \A p \in Peers : WF_vars(PeerStep(p))

-----------------------------------------------------------------------------

TypeOK ==
    /\ peer \in [Peers -> [status : Status, lastblock : 0..MaxHeight, timer : BOOLEAN,
                           awaiting : SUBSET {"filter", "mempool"}, reporting : BOOLEAN,
                           error : {"OK", "ECONN", "EPROTO"}]]
    /\ manager \in [downloadPeer : Peers \cup {NoPeer}, syncing : BOOLEAN, wanted : BOOLEAN,
                    height : 0..MaxHeight, estimated : 0..MaxHeight, dns : 0..MaxDns,
                    failures : 0..(MAX_CONNECT_FAILURES + 1)]
    /\ thread \in [Threads -> {"idle", "connect", "started", "resume", "finding", "unreachable",
                               "failed", "ended", "disconnecting"}]
    /\ syncState \in {"connecting", "syncing", "success"}

\* BRPeerManagerConnect is called by the app and by any thread that has lost its peer, and releases
\* the lock twice on the way: together they never connect to more than maxConnectCount peers.
ConnectionsBounded == Cardinality(connectedPeers) <= maxConnectCount

\* manager->downloadPeer is in connectedPeers, and past its handshake: _peerDisconnected frees no
\* peer that the manager goes on to use as the download peer.
DownloadPeerAlive ==
    manager.downloadPeer # NoPeer => peer[manager.downloadPeer].status \in {"connected", "closed", "ended"}

AtRest ==
    /\ connectedPeers = {}
    /\ \A t \in Threads : thread[t] = "idle"

(***************************************************************************)
(* Unless the app has asked to disconnect, the manager does not stop while *)
(* syncing: when the last peer is gone and no thread is about to connect,  *)
(* syncStartHeight is 0, so that the next BRPeerManagerConnect starts a    *)
(* sync and says so.  (The limit is tested with ==, and the failures of    *)
(* other peers take the count past it while the download peer is there.)   *)
(***************************************************************************)
AtRestNotSyncing == AtRest /\ manager.wanted => ~manager.syncing

(***************************************************************************)
(* "notify user of network problems after this many connect failures in a  *)
(* row": an attempt to sync finds a download peer or is given up, unless   *)
(* it waits for the network.  A peer that is refused or breaks the         *)
(* protocol counts as an answer: such peers do not count as failures.      *)
(***************************************************************************)
ConnectionResolves ==
    (manager.wanted /\ manager.syncing) ~>
        \/ ~manager.syncing \/ ~manager.wanted
        \/ manager.downloadPeer # NoPeer
        \/ \E p \in Peers : \/ peer[p].status = "waiting"
                            \/ peer[p].status = "ended" /\ peer[p].error # "ECONN"

-----------------------------------------------------------------------------
(* What comments of the code say, and the code does not do. *)

\* "disconnect from bitcoin peer-to-peer network": BRPeerManagerDisconnect returns.
DisconnectReturns == thread[App] = "disconnecting" ~> thread[App] # "disconnecting"

\* "prevent futher automatic reconnect attempts": a thread that has lost its peer connects to
\* another only if the app's last call was not to disconnect.
NoReconnect ==
    [][\A w \in Workers : thread[w] = "connect" /\ thread'[w] # "connect" => manager.wanted]_vars

\* "sync succeeded": the user is told so when the chain of the download peer has been followed.
SuccessMeansSynced ==
    [][syncState' = "success" /\ syncState # "success" => manager.height >= manager.estimated]_vars

\* "schedule sync timeout": while a chain is being downloaded from a peer, that peer has a timeout.
DownloadTimesOut ==
    LET dp == manager.downloadPeer
    IN  (dp # NoPeer /\ manager.syncing /\ manager.height < manager.estimated) =>
            (peer[dp].status = "connected" => peer[dp].timer)
=============================================================================
