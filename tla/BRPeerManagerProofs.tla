------------------------ MODULE BRPeerManagerProofs ------------------------
(***************************************************************************)
(* The manager of BRPeerManager.tla never has more connections than it may *)
(* have, never keeps a freed peer as its download peer, and never comes to *)
(* rest in the middle of a sync, for any peers, threads and limits.        *)
(***************************************************************************)
EXTENDS BRPeerManager, FiniteSetTheorems, TLAPS

Context ==
    [status : Status, lastblock : 0..MaxHeight, timer : BOOLEAN,
     awaiting : SUBSET {"filter", "mempool"}, reporting : BOOLEAN, error : {"OK", "ECONN", "EPROTO"}]

Manager ==
    [downloadPeer : Peers \cup {NoPeer}, syncing : BOOLEAN, wanted : BOOLEAN,
     height : 0..MaxHeight, estimated : 0..MaxHeight, dns : 0..MaxDns,
     failures : 0..(MAX_CONNECT_FAILURES + 1)]

ThreadState ==
    {"idle", "connect", "started", "resume", "finding", "unreachable", "failed", "ended", "disconnecting"}

SyncState == {"connecting", "syncing", "success"}

\* The statuses a download peer may have.
Alive == {"connected", "closed", "ended"}

-----------------------------------------------------------------------------
(* The inductive invariant. *)

Connecting == {t \in Threads : thread[t] \in {"connect", "started", "resume", "finding"}}

\* While the app wants a sync that has started, there is a peer to end it or a thread to connect one.
SyncHasThread ==
    manager.wanted /\ manager.syncing => connectedPeers # {} \/ Connecting # {}

\* Such a sync outlives the limit of failures only with a download peer, whose end brings the count
\* back to the limit, or until the app's call of BRPeerManagerConnect has reset the count.
RetryPending ==
    (/\ manager.wanted /\ manager.syncing
     /\ manager.downloadPeer = NoPeer
     /\ manager.failures >= MAX_CONNECT_FAILURES) => thread[App] = "connect"

IInv ==
    /\ TypeOK
    /\ ConnectionsBounded
    /\ DownloadPeerAlive
    /\ SyncHasThread
    /\ RetryPending

\* The parts of the type invariant.
LEMMA TypeParts ==
    TypeOK <=> /\ peer \in [Peers -> Context]
               /\ manager \in Manager
               /\ thread \in [Threads -> ThreadState]
               /\ syncState \in SyncState
  BY DEF TypeOK, Context, Manager, ThreadState, SyncState

\* The same of the next state.
LEMMA TypePartsNext ==
    TypeOK' <=> /\ peer' \in [Peers -> Context]
                /\ manager' \in Manager
                /\ thread' \in [Threads -> ThreadState]
                /\ syncState' \in SyncState
  BY DEF TypeOK, Context, Manager, ThreadState, SyncState

-----------------------------------------------------------------------------
(* Contexts. *)

\* What BRPeerDisconnect makes of a context.
LEMMA DisconnectedContext ==
    ASSUME NEW c \in Context
    PROVE  /\ Disconnected(c) \in Context
           /\ Disconnected(c).status = "none" <=> c.status = "none"
           /\ c.status \in Alive => Disconnected(c).status \in Alive
  BY DEF Context, Disconnected, Status, Alive

\* A new context.
LEMMA NewContext ==
    ASSUME NEW s \in Status
    PROVE  New(s) \in Context /\ New(s).status = s
<1>1. NotConnected \in Context
  BY ManagerAssumption DEF NotConnected, Context, Status
<1> QED
  BY <1>1 DEF New, Context

\* The contexts qs after ps: the same addresses are connected, and a peer past its handshake stays
\* past it.
Follows(ps, qs) ==
    /\ qs \in [Peers -> Context]
    /\ \A q \in Peers : qs[q].status = "none" <=> ps[q].status = "none"
    /\ \A q \in Peers : ps[q].status \in Alive => qs[q].status \in Alive

SameConnections == Follows(peer, peer')

\* Then the number of connections is the same.
LEMMA SameBounded ==
    ASSUME ConnectionsBounded, SameConnections
    PROVE  connectedPeers' = connectedPeers /\ ConnectionsBounded'
<1>1. connectedPeers' = connectedPeers
  BY DEF SameConnections, Follows, connectedPeers, In
<1> QED
  BY <1>1 DEF ConnectionsBounded

(***************************************************************************)
(* A step of a peer or of a lookup: no thread moves, no sync starts and    *)
(* the failures do not reach the limit.                                    *)
(***************************************************************************)
Steady ==
    /\ SameConnections
    /\ manager' \in Manager
    /\ manager'.wanted = manager.wanted
    /\ manager'.syncing => manager.syncing
    /\ \/ manager'.downloadPeer = manager.downloadPeer
       \/ /\ manager'.downloadPeer \in Peers
          /\ peer'[manager'.downloadPeer].status \in Alive
    /\ manager'.failures >= MAX_CONNECT_FAILURES => manager.failures >= MAX_CONNECT_FAILURES
    /\ thread' = thread
    /\ syncState' \in SyncState

\* Such a step keeps the invariant.
LEMMA SteadyStep ==
    ASSUME IInv, Steady
    PROVE  IInv'
<1>1. TypeOK'
  BY TypeParts, TypePartsNext DEF IInv, Steady, SameConnections, Follows
<1>2. connectedPeers' = connectedPeers /\ ConnectionsBounded'
  BY SameBounded DEF IInv, Steady
<1>3. DownloadPeerAlive'
  BY TypeParts DEF IInv, Steady, SameConnections, Follows, DownloadPeerAlive, Alive, Manager
<1>4. SyncHasThread'
  BY <1>2 DEF IInv, Steady, SyncHasThread, Connecting
<1>5. RetryPending'
  BY ManagerAssumption DEF IInv, Steady, RetryPending
<1> QED
  BY <1>1, <1>2, <1>3, <1>4, <1>5 DEF IInv

-----------------------------------------------------------------------------
(* The helpers of the actions, on contexts. *)

\* One context is replaced by another that is as connected as it was.
LEMMA ReplaceFollows ==
    ASSUME NEW ps \in [Peers -> Context], NEW p \in Peers, NEW c \in Context,
           c.status = "none" <=> ps[p].status = "none",
           ps[p].status \in Alive => c.status \in Alive
    PROVE  Follows(ps, [ps EXCEPT ![p] = c])
  BY DEF Follows

\* Closing a socket.
LEMMA DisconnectedFollows ==
    ASSUME NEW ps \in [Peers -> Context], NEW p \in Peers
    PROVE  Follows(ps, [ps EXCEPT ![p] = Disconnected(@)])
<1>1. ps[p] \in Context
  OBVIOUS
<1> QED
  BY <1>1, DisconnectedContext DEF Follows

\* Mempool requests change no status.
LEMMA LoadMempoolsFollows ==
    ASSUME NEW ps \in [Peers -> Context], NEW dp, NEW qs \in LoadMempools(ps, dp)
    PROVE  Follows(ps, qs) /\ \A q \in Peers : qs[q].status = ps[q].status
<1> DEFINE More(highFp) == [p \in Peers |->
               IF ps[p].status \notin {"connected", "closed"} THEN ps[p]
               ELSE [ps[p] EXCEPT !.awaiting = @ \cup {IF p # dp \/ highFp THEN "filter" ELSE "mempool"}]]
<1>1. PICK highFp \in BOOLEAN : qs = More(highFp)
  BY DEF LoadMempools
<1>2. \A q \in Peers : qs[q] \in Context /\ qs[q].status = ps[q].status
  <2> TAKE q \in Peers
  <2>1. ps[q] \in Context
    OBVIOUS
  <2>2. \A x \in {"filter", "mempool"} :
            /\ [ps[q] EXCEPT !.awaiting = @ \cup {x}] \in Context
            /\ [ps[q] EXCEPT !.awaiting = @ \cup {x}].status = ps[q].status
    BY <2>1 DEF Context
  <2> QED
    BY <1>1, <2>1, <2>2
<1>3. qs \in [Peers -> Context]
  BY <1>1, <1>2
<1> QED
  BY <1>2, <1>3 DEF Follows

\* Nor does the end of a sync.
LEMMA SyncStoppedFollows ==
    ASSUME NEW ps \in [Peers -> Context]
    PROVE  Follows(ps, SyncStopped(ps))
<1>1. \A q \in Peers : /\ SyncStopped(ps)[q] \in Context
                       /\ SyncStopped(ps)[q].status = ps[q].status
  <2> TAKE q \in Peers
  <2>1. ps[q] \in Context
    OBVIOUS
  <2> QED
    BY <2>1 DEF SyncStopped, Context
<1>2. SyncStopped(ps) \in [Peers -> Context]
  BY <1>1 DEF SyncStopped
<1> QED
  BY <1>1, <1>2 DEF Follows

\* A peer is past its handshake.
LEMMA DidConnectFollows ==
    ASSUME peer \in [Peers -> Context], NEW p \in Peers, Shaking(p), NEW height \in 0..MaxHeight
    PROVE  /\ Follows(peer, DidConnect(p, height))
           /\ DidConnect(p, height)[p].status \in {"connected", "closed"}
<1> DEFINE s == IF peer[p].status = "cut" THEN "closed" ELSE "connected"
           c == [New(s) EXCEPT !.lastblock = height]
<1>1. New(s) \in Context /\ New(s).status = s
  BY NewContext DEF Status
<1>2. c \in Context /\ c.status = s
  BY <1>1 DEF Context
<1>3. DidConnect(p, height) = [peer EXCEPT ![p] = c]
  BY DEF DidConnect
<1>4. peer[p].status # "none" /\ peer[p].status \notin Alive
  BY DEF Shaking, Alive
<1> HIDE DEF c
<1>5. s # "none"
  OBVIOUS
<1>6. Follows(peer, DidConnect(p, height))
  BY <1>2, <1>3, <1>4, <1>5, ReplaceFollows
<1>7. DidConnect(p, height)[p] = c
  BY <1>3
<1> QED
  BY <1>2, <1>6, <1>7

\* Two changes in a row.
LEMMA FollowsTwice ==
    ASSUME NEW ps, NEW qs, NEW rs, Follows(ps, qs), Follows(qs, rs)
    PROVE  Follows(ps, rs)
  BY DEF Follows

-----------------------------------------------------------------------------
(* The steps of a peer's thread, and of a lookup. *)

\* An action that leaves the manager and the threads alone.
LEMMA PeerOnly ==
    ASSUME IInv, SameConnections, UNCHANGED <<manager, thread>>, syncState' \in SyncState
    PROVE  IInv'
<1>1. Steady
  BY TypeParts DEF IInv, Steady
<1> QED
  BY <1>1, SteadyStep

\* A starting peer gets its socket and stays short of its handshake.
LEMMA OpenSocketStep ==
    ASSUME IInv, NEW p \in Peers, OpenSocket(p)
    PROVE  IInv'
<1>1. peer \in [Peers -> Context]
  BY TypeParts DEF IInv
<1>2. SameConnections
  BY <1>1 DEF OpenSocket, SameConnections, Follows, Context, Status, Alive
<1> QED
  BY <1>2, PeerOnly, TypeParts DEF OpenSocket, IInv

\* Reporting the end of a sync changes what the user sees, and no connection.
LEMMA ReportDoneStep ==
    ASSUME IInv, NEW p \in Peers, ReportDone(p)
    PROVE  IInv'
<1>1. peer \in [Peers -> Context]
  BY TypeParts DEF IInv
<1>2. SameConnections
  BY <1>1 DEF ReportDone, SameConnections, Follows, Context
<1> QED
  BY <1>2, PeerOnly DEF ReportDone, SyncState

\* A filter's pong only puts the mempool request in line.
LEMMA FilterPongStep ==
    ASSUME IInv, NEW p \in Peers, FilterPong(p)
    PROVE  IInv'
<1>1. peer \in [Peers -> Context] /\ syncState \in SyncState
  BY TypeParts DEF IInv
<1>2. peer[p] \in Context
  BY <1>1
<1>3. [peer[p] EXCEPT !.awaiting = (@ \ {"filter"}) \cup {"mempool"}] \in Context
  BY <1>2 DEF Context
<1>4. SameConnections
  BY <1>1, <1>2, <1>3 DEF FilterPong, SameConnections, Follows, Context
<1> QED
  BY <1>1, <1>4, PeerOnly DEF FilterPong

\* A thread that leaves its loop keeps its peer among the connected ones.
LEMMA ThreadEndsStep ==
    ASSUME IInv, NEW p \in Peers, NEW e \in {"OK", "ECONN", "EPROTO"}, ThreadEnds(p, e)
    PROVE  IInv'
<1>1. peer \in [Peers -> Context] /\ syncState \in SyncState
  BY TypeParts DEF IInv
<1>2. 0 \in 0..MaxHeight
  BY ManagerAssumption
<1>3. peer[p].status # "none"
  BY DEF ThreadEnds, Running, IsConnected
<1> DEFINE n == IF p = manager.downloadPeer THEN peer[p].lastblock ELSE 0
           c == [peer[p] EXCEPT !.status = "ended", !.error = e, !.timer = FALSE, !.lastblock = n]
<1>4. peer' = [peer EXCEPT ![p] = c]
  BY <1>1 DEF ThreadEnds
<1>5. c \in Context /\ c.status = "ended"
  BY <1>1, <1>2 DEF Context, Status
<1> HIDE DEF c
<1>6. SameConnections
  BY <1>1, <1>3, <1>4, <1>5, ReplaceFollows DEF SameConnections, Alive
<1> QED
  BY <1>1, <1>6, PeerOnly DEF ThreadEnds

\* A peer that is refused stays connected until its thread has ended.
LEMMA PeerConnectedUnfitStep ==
    ASSUME IInv, NEW p \in Peers, NEW h \in 0..MaxHeight, PeerConnectedUnfit(p, h)
    PROVE  IInv'
<1>1. peer \in [Peers -> Context] /\ syncState \in SyncState
  BY TypeParts DEF IInv
<1>2. Follows(peer, DidConnect(p, h))
  BY <1>1, DidConnectFollows DEF PeerConnectedUnfit
<1>3. Follows(DidConnect(p, h), peer')
  <2>1. DidConnect(p, h) \in [Peers -> Context]
    BY <1>2 DEF Follows
  <2> QED
    BY <2>1, DisconnectedFollows DEF PeerConnectedUnfit
<1>4. SameConnections
  BY <1>2, <1>3, FollowsTwice DEF SameConnections
<1> QED
  BY <1>1, <1>4, PeerOnly DEF PeerConnectedUnfit

\* A second peer may reset the failures, and nothing else of the manager.
LEMMA PeerConnectedOtherStep ==
    ASSUME IInv, NEW p \in Peers, NEW h \in 0..MaxHeight, PeerConnectedOther(p, h)
    PROVE  IInv'
<1> DEFINE ps == DidConnect(p, h)
<1>1. peer \in [Peers -> Context] /\ manager \in Manager /\ syncState \in SyncState
  BY TypeParts DEF IInv
<1>2. Follows(peer, ps)
  BY <1>1, DidConnectFollows DEF PeerConnectedOther
<1>3. PICK A \in SUBSET {"filter", "mempool"} : peer' = [ps EXCEPT ![p].awaiting = A]
  BY DEF PeerConnectedOther
<1> HIDE DEF ps
<1>4. Follows(ps, peer')
  <2>1. ps \in [Peers -> Context]
    BY <1>2 DEF Follows
  <2>2. ps[p] \in Context
    BY <2>1
  <2>3. [ps[p] EXCEPT !.awaiting = A] \in Context /\ [ps[p] EXCEPT !.awaiting = A].status = ps[p].status
    BY <2>2 DEF Context
  <2> QED
    BY <1>3, <2>1, <2>3, ReplaceFollows
<1>5. SameConnections
  BY <1>2, <1>4, FollowsTwice DEF SameConnections
<1>6. /\ manager' \in Manager
      /\ manager'.wanted = manager.wanted /\ manager'.syncing = manager.syncing
      /\ manager'.downloadPeer = manager.downloadPeer
      /\ manager'.failures \in {0, manager.failures}
  BY <1>1, ManagerAssumption DEF PeerConnectedOther, Manager
<1>7. Steady
  BY <1>1, <1>5, <1>6, ManagerAssumption DEF Steady, PeerConnectedOther, Manager
<1> QED
  BY <1>7, SteadyStep

\* A lookup that ends was counted.
LEMMA FindPeersThreadStep ==
    ASSUME IInv, FindPeersThread
    PROVE  IInv'
<1>1. peer \in [Peers -> Context] /\ manager \in Manager /\ syncState \in SyncState
  BY TypeParts DEF IInv
<1>2. SameConnections
  BY <1>1 DEF FindPeersThread, SameConnections, Follows
<1>3. manager' \in Manager
  BY <1>1, ManagerAssumption DEF FindPeersThread, Manager
<1>4. Steady
  BY <1>1, <1>2, <1>3, ManagerAssumption DEF FindPeersThread, Steady, Manager
<1> QED
  BY <1>4, SteadyStep

\* The pong of a mempool request may end the sync.
LEMMA MempoolPongStep ==
    ASSUME IInv, NEW p \in Peers, MempoolPong(p)
    PROVE  IInv'
<1>1. peer \in [Peers -> Context] /\ manager \in Manager /\ syncState \in SyncState
  BY TypeParts DEF IInv
<1> DEFINE ps == [peer EXCEPT ![p].awaiting = @ \ {"mempool"}, ![p].reporting = manager.syncing]
           c  == [peer[p] EXCEPT !.awaiting = @ \ {"mempool"}, !.reporting = manager.syncing]
<1>2. ps = [peer EXCEPT ![p] = c]
  BY <1>1
<1>3. c \in Context /\ c.status = peer[p].status
  BY <1>1 DEF Context, Manager
<1>4. peer' = IF manager.syncing THEN SyncStopped(ps) ELSE ps
  BY DEF MempoolPong
<1> HIDE DEF ps, c
<1>5. Follows(peer, ps)
  BY <1>1, <1>2, <1>3, ReplaceFollows
<1>6. SameConnections
  <2>1. ps \in [Peers -> Context]
    BY <1>5 DEF Follows
  <2>2. Follows(ps, SyncStopped(ps))
    BY <2>1, SyncStoppedFollows
  <2>3. Follows(peer, SyncStopped(ps))
    BY <1>5, <2>2, FollowsTwice
  <2> QED
    BY <1>4, <1>5, <2>3 DEF SameConnections
<1>7. manager' = [manager EXCEPT !.syncing = FALSE] /\ UNCHANGED <<thread, syncState>>
  BY DEF MempoolPong
<1>8. Steady
  BY <1>1, <1>6, <1>7 DEF Steady, Manager
<1> QED
  BY <1>8, SteadyStep

\* So may the pong callbacks of a thread that has ended.
LEMMA PongsFailStep ==
    ASSUME IInv, NEW p \in Peers, PongsFail(p)
    PROVE  IInv'
<1>1. peer \in [Peers -> Context] /\ manager \in Manager /\ syncState \in SyncState
  BY TypeParts DEF IInv
<1> DEFINE stops == "filter" \in peer[p].awaiting /\ p = manager.downloadPeer
           c     == [peer[p] EXCEPT !.awaiting = {}, !.reporting = stops]
<1>2. /\ peer' = [peer EXCEPT ![p] = c]
      /\ manager' = [manager EXCEPT !.syncing = @ /\ ~stops]
      /\ UNCHANGED <<thread, syncState>>
  BY <1>1 DEF PongsFail
<1>3. stops \in BOOLEAN
  OBVIOUS
<1> HIDE DEF stops
<1>4. c \in Context /\ c.status = peer[p].status
  BY <1>1, <1>3 DEF Context
<1> HIDE DEF c
<1>5. SameConnections
  BY <1>1, <1>2, <1>4, ReplaceFollows DEF SameConnections
<1>6. /\ manager' \in Manager
      /\ manager'.wanted = manager.wanted
      /\ manager'.syncing => manager.syncing
      /\ manager'.downloadPeer = manager.downloadPeer
      /\ manager'.failures = manager.failures
  BY <1>1, <1>2, <1>3 DEF Manager
<1>7. Steady
  BY <1>1, <1>2, <1>5, <1>6 DEF Steady
<1> QED
  BY <1>7, SteadyStep

\* A block takes the chain no higher than the peer's last block.
LEMMA RelayedBlockStep ==
    ASSUME IInv, NEW p \in Peers, RelayedBlock(p)
    PROVE  IInv'
<1>1. peer \in [Peers -> Context] /\ manager \in Manager /\ syncState \in SyncState
  BY TypeParts DEF IInv
<1> DEFINE height == manager.height + 1
           behind == height < manager.estimated /\ p = manager.downloadPeer
<1>2. height \in 0..MaxHeight
  <2>1. peer[p].lastblock \in 0..MaxHeight /\ manager.height \in 0..MaxHeight
    BY <1>1 DEF Context, Manager
  <2>2. height <= peer[p].lastblock
    BY DEF RelayedBlock
  <2> QED
    BY <2>1, <2>2, ManagerAssumption
<1>3. SameConnections
  <2>1. CASE peer' \in LoadMempools(peer, manager.downloadPeer)
    BY <1>1, <2>1, LoadMempoolsFollows DEF SameConnections
  <2>2. CASE peer' = [peer EXCEPT ![p].timer = @ \/ behind]
    <3> DEFINE c == [peer[p] EXCEPT !.timer = @ \/ behind]
    <3>1. c \in Context /\ c.status = peer[p].status
      BY <1>1 DEF Context
    <3>2. peer' = [peer EXCEPT ![p] = c]
      BY <2>2
    <3> HIDE DEF c
    <3> QED
      BY <1>1, <3>1, <3>2, ReplaceFollows DEF SameConnections
  <2> QED
    BY <2>1, <2>2 DEF RelayedBlock
<1> DEFINE n == IF behind THEN 0 ELSE manager.failures
           e == IF manager.estimated < height THEN height ELSE manager.estimated
<1>4. manager' = [manager EXCEPT !.height = height, !.failures = n, !.estimated = e]
  BY DEF RelayedBlock
<1>5. /\ n \in 0..(MAX_CONNECT_FAILURES + 1) /\ n \in {0, manager.failures}
      /\ e \in 0..MaxHeight
  BY <1>1, <1>2, ManagerAssumption DEF Manager
<1> HIDE DEF n, e, height
<1>7. /\ manager' \in Manager
      /\ manager'.wanted = manager.wanted /\ manager'.syncing = manager.syncing
      /\ manager'.downloadPeer = manager.downloadPeer
      /\ manager'.failures \in {0, manager.failures}
  BY <1>1, <1>2, <1>4, <1>5 DEF Manager
<1>6. Steady
  BY <1>1, <1>3, <1>7, ManagerAssumption DEF Steady, RelayedBlock
<1> QED
  BY <1>6, SteadyStep

\* The new download peer is past its handshake.
LEMMA PeerConnectedDownloadStep ==
    ASSUME IInv, NEW p \in Peers, NEW h \in 0..MaxHeight, NEW q \in Peers, PeerConnectedDownload(p, h, q)
    PROVE  IInv'
<1> DEFINE ps  == DidConnect(p, h)
           old == manager.downloadPeer
           qs  == [r \in Peers |-> IF r = old THEN Disconnected(ps[r]) ELSE ps[r]]
<1>1. peer \in [Peers -> Context] /\ manager \in Manager /\ syncState \in SyncState
  BY TypeParts DEF IInv
<1>2. Follows(peer, ps)
  BY <1>1, DidConnectFollows DEF PeerConnectedDownload
<1>3. /\ ps[q].status \in Alive
      /\ \/ /\ manager' = [manager EXCEPT !.downloadPeer = q, !.estimated = ps[q].lastblock]
            /\ peer' = [qs EXCEPT ![q].timer = TRUE]
         \/ /\ manager' = [manager EXCEPT !.downloadPeer = q, !.estimated = ps[q].lastblock,
                                             !.failures = 0]
            /\ peer' \in LoadMempools(qs, q)
  BY DEF PeerConnectedDownload, Alive
<1> HIDE DEF ps
<1>4. ps \in [Peers -> Context]
  BY <1>2 DEF Follows
<1>5. Follows(ps, qs)
  <2>1. \A r \in Peers : ps[r] \in Context
    BY <1>4
  <2> QED
    BY <2>1, DisconnectedContext DEF Follows
<1> HIDE DEF qs
<1>6. Follows(qs, peer')
  <2>1. qs \in [Peers -> Context]
    BY <1>5 DEF Follows
  <2>2. CASE peer' \in LoadMempools(qs, q)
    BY <2>1, <2>2, LoadMempoolsFollows
  <2>3. CASE peer' = [qs EXCEPT ![q].timer = TRUE]
    <3>1. qs[q] \in Context
      BY <2>1
    <3>2. [qs[q] EXCEPT !.timer = TRUE] \in Context /\ [qs[q] EXCEPT !.timer = TRUE].status = qs[q].status
      BY <3>1 DEF Context
    <3> QED
      BY <2>1, <2>3, <3>2, ReplaceFollows
  <2> QED
    BY <1>3, <2>2, <2>3
<1>7. Follows(ps, peer')
  BY <1>5, <1>6, FollowsTwice
<1>8. SameConnections
  BY <1>2, <1>7, FollowsTwice DEF SameConnections
<1>9. ps[q].lastblock \in 0..MaxHeight
  BY <1>4 DEF Context
<1>10. /\ manager' \in Manager
       /\ manager'.wanted = manager.wanted /\ manager'.syncing = manager.syncing
       /\ manager'.downloadPeer = q
       /\ manager'.failures \in {0, manager.failures}
  <2>1. 0 \in 0..(MAX_CONNECT_FAILURES + 1)
    BY ManagerAssumption
  <2>2. CASE manager' = [manager EXCEPT !.downloadPeer = q, !.estimated = ps[q].lastblock]
    BY <1>1, <1>9, <2>2 DEF Manager
  <2>3. CASE manager' = [manager EXCEPT !.downloadPeer = q, !.estimated = ps[q].lastblock, !.failures = 0]
    BY <1>1, <1>9, <2>1, <2>3 DEF Manager
  <2> QED
    BY <1>3, <2>2, <2>3
<1>11. peer'[q].status \in Alive
  BY <1>3, <1>7 DEF Follows
<1>12. Steady
  BY <1>1, <1>8, <1>10, <1>11, ManagerAssumption DEF Steady, PeerConnectedDownload
<1> QED
  BY <1>12, SteadyStep

-----------------------------------------------------------------------------
(* The steps of the app, and of a thread in BRPeerManagerConnect. *)

\* One thread moves, and the download peer stays.
LEMMA MovedStep ==
    ASSUME IInv, SameConnections, manager' \in Manager,
           manager'.downloadPeer = manager.downloadPeer,
           NEW t \in Threads, NEW s \in ThreadState, thread' = [thread EXCEPT ![t] = s],
           syncState' \in SyncState,
           SyncHasThread', RetryPending'
    PROVE  IInv'
<1>1. TypeOK'
  BY TypeParts, TypePartsNext DEF IInv, SameConnections, Follows
<1>2. ConnectionsBounded'
  BY SameBounded DEF IInv
<1>3. DownloadPeerAlive'
  BY TypeParts DEF IInv, SameConnections, Follows, DownloadPeerAlive, Alive, Manager
<1> QED
  BY <1>1, <1>2, <1>3 DEF IInv

\* A thread that is to connect makes SyncHasThread true.
LEMMA ConnectingThread ==
    ASSUME thread \in [Threads -> ThreadState],
           NEW t \in Threads, NEW s \in {"connect", "started", "resume", "finding"},
           thread' = [thread EXCEPT ![t] = s]
    PROVE  SyncHasThread'
<1>1. t \in Connecting'
  BY DEF Connecting
<1> QED
  BY <1>1 DEF SyncHasThread

\* A thread that was not connecting leaves the others as they were.
LEMMA OtherThread ==
    ASSUME IInv, SameConnections,
           manager'.wanted = manager.wanted, manager'.syncing = manager.syncing,
           NEW t \in Threads, NEW s,
           thread[t] \notin {"connect", "started", "resume", "finding"},
           thread' = [thread EXCEPT ![t] = s]
    PROVE  SyncHasThread'
<1>1. connectedPeers' = connectedPeers
  BY SameBounded DEF IInv
<1>2. thread \in [Threads -> ThreadState]
  BY TypeParts DEF IInv
<1>3. Connecting \subseteq Connecting'
  BY <1>2 DEF Connecting
<1> QED
  BY <1>1, <1>3 DEF IInv, SyncHasThread

\* Nothing happens to the peers.
LEMMA NoPeerChanges ==
    ASSUME IInv, UNCHANGED peer
    PROVE  SameConnections
  BY TypeParts DEF IInv, SameConnections, Follows

\* The app's thread is a thread.
LEMMA AppThread == App \in Threads
  BY DEF Threads

\* The app's call of BRPeerManagerConnect is what RetryPending waits for.
LEMMA AppConnectStep ==
    ASSUME IInv, AppConnect
    PROVE  IInv'
<1>1. manager \in Manager /\ thread \in [Threads -> ThreadState] /\ syncState \in SyncState
  BY TypeParts DEF IInv
<1>2. /\ SameConnections
      /\ manager' = [manager EXCEPT !.wanted = TRUE]
      /\ thread' = [thread EXCEPT ![App] = "connect"] /\ syncState' \in SyncState
  BY <1>1, NoPeerChanges DEF AppConnect
<1>3. manager' \in Manager /\ manager'.downloadPeer = manager.downloadPeer
  BY <1>1, <1>2 DEF Manager
<1>4. SyncHasThread'
  BY <1>1, <1>2, AppThread, ConnectingThread
<1>5. RetryPending'
  BY <1>1, <1>2, AppThread DEF RetryPending
<1> QED
  BY <1>2, <1>3, <1>4, <1>5, AppThread, MovedStep DEF ThreadState

\* A manual retry has no failures to its account yet.
LEMMA RetriedBelow ==
    ASSUME manager \in Manager
    PROVE  Retried \in 0..(MAX_CONNECT_FAILURES + 1) /\ Retried < MAX_CONNECT_FAILURES
  BY ManagerAssumption DEF Retried, Manager

\* A sync starts with the failures below the limit and a thread on its way.
LEMMA ConnectStartsStep ==
    ASSUME IInv, NEW t \in Threads, ConnectStarts(t)
    PROVE  IInv'
<1>1. manager \in Manager /\ thread \in [Threads -> ThreadState] /\ syncState \in SyncState
  BY TypeParts DEF IInv
<1>2. /\ SameConnections
      /\ manager' = [manager EXCEPT !.failures = Retried, !.syncing = TRUE]
      /\ thread' = [thread EXCEPT ![t] = "started"] /\ syncState' \in SyncState
  BY <1>1, NoPeerChanges DEF ConnectStarts
<1>3. Retried \in 0..(MAX_CONNECT_FAILURES + 1) /\ Retried < MAX_CONNECT_FAILURES
  BY <1>1, RetriedBelow
<1>4. /\ manager' \in Manager /\ manager'.downloadPeer = manager.downloadPeer
      /\ manager'.failures = Retried
  BY <1>1, <1>2, <1>3 DEF Manager
<1>5. SyncHasThread'
  BY <1>1, <1>2, ConnectingThread
<1>6. RetryPending'
  BY <1>3, <1>4, ManagerAssumption DEF RetryPending
<1> QED
  BY <1>2, <1>4, <1>5, <1>6, MovedStep DEF ThreadState

\* The thread that reports the start is still on its way to connect.
LEMMA ReportStartedStep ==
    ASSUME IInv, NEW t \in Threads, ReportStarted(t)
    PROVE  IInv'
<1>1. manager \in Manager /\ thread \in [Threads -> ThreadState] /\ syncState \in SyncState
  BY TypeParts DEF IInv
<1>2. /\ SameConnections /\ manager' = manager
      /\ thread[t] = "started" /\ thread' = [thread EXCEPT ![t] = "resume"]
      /\ syncState' \in SyncState
  BY <1>1, NoPeerChanges DEF ReportStarted, SyncState
<1>3. SyncHasThread'
  BY <1>1, <1>2, ConnectingThread
<1>4. RetryPending'
  BY <1>1, <1>2, AppThread DEF IInv, RetryPending
<1> QED
  BY <1>1, <1>2, <1>3, <1>4, MovedStep DEF ThreadState

\* A thread that reports the end of a sync was not connecting.
LEMMA ReportStoppedStep ==
    ASSUME IInv, NEW t \in Threads, ReportStopped(t)
    PROVE  IInv'
<1>1. manager \in Manager /\ thread \in [Threads -> ThreadState] /\ syncState \in SyncState
  BY TypeParts DEF IInv
<1>2. /\ SameConnections /\ manager' = manager
      /\ thread[t] \in {"unreachable", "failed", "ended"} /\ thread' = [thread EXCEPT ![t] = "idle"]
      /\ syncState' \in SyncState
  BY <1>1, NoPeerChanges DEF ReportStopped, SyncState
<1>3. SyncHasThread'
  BY <1>1, <1>2, OtherThread
<1>4. RetryPending'
  BY <1>1, <1>2, AppThread DEF IInv, RetryPending
<1> QED
  BY <1>1, <1>2, <1>3, <1>4, MovedStep DEF ThreadState

\* Nor was the app when BRPeerManagerDisconnect returns.
LEMMA DisconnectReturnStep ==
    ASSUME IInv, DisconnectReturn
    PROVE  IInv'
<1>1. manager \in Manager /\ thread \in [Threads -> ThreadState] /\ syncState \in SyncState
  BY TypeParts DEF IInv
<1>2. /\ SameConnections /\ manager' = manager
      /\ thread[App] = "disconnecting" /\ thread' = [thread EXCEPT ![App] = "idle"]
      /\ syncState' \in SyncState
  BY <1>1, NoPeerChanges DEF DisconnectReturn
<1>3. SyncHasThread'
  BY <1>1, <1>2, AppThread, OtherThread
<1>4. RetryPending'
  BY <1>1, <1>2, AppThread DEF IInv, RetryPending
<1> QED
  BY <1>1, <1>2, <1>3, <1>4, AppThread, MovedStep DEF ThreadState

\* After BRPeerManagerDisconnect the app wants no sync.
LEMMA DisconnectStep ==
    ASSUME IInv, Disconnect
    PROVE  IInv'
<1>1. /\ peer \in [Peers -> Context] /\ manager \in Manager
      /\ thread \in [Threads -> ThreadState] /\ syncState \in SyncState
  BY TypeParts DEF IInv
<1>2. SameConnections
  <2>1. \A p \in Peers : peer[p] \in Context
    BY <1>1
  <2> QED
    BY <2>1, DisconnectedContext DEF Disconnect, SameConnections, Follows
<1> DEFINE n == IF connectedPeers = {} THEN manager.failures ELSE MAX_CONNECT_FAILURES
<1>3. n \in 0..(MAX_CONNECT_FAILURES + 1)
  BY <1>1, ManagerAssumption DEF Manager
<1>4. /\ manager' = [manager EXCEPT !.failures = n, !.wanted = FALSE]
      /\ thread' = [thread EXCEPT ![App] = "disconnecting"] /\ syncState' \in SyncState
  BY <1>1 DEF Disconnect
<1> HIDE DEF n
<1>5. /\ manager' \in Manager /\ manager'.downloadPeer = manager.downloadPeer
      /\ manager'.wanted = FALSE
  BY <1>1, <1>3, <1>4 DEF Manager
<1>6. SyncHasThread' /\ RetryPending'
  BY <1>5 DEF SyncHasThread, RetryPending
<1> QED
  BY <1>2, <1>4, <1>5, <1>6, AppThread, MovedStep DEF ThreadState

\* BRPeerManagerRescan ends the sync before it starts another.
LEMMA RescanStep ==
    ASSUME IInv, Rescan
    PROVE  IInv'
<1>1. /\ peer \in [Peers -> Context] /\ manager \in Manager
      /\ thread \in [Threads -> ThreadState] /\ syncState \in SyncState
  BY TypeParts DEF IInv
<1> DEFINE dp == manager.downloadPeer
<1>2. dp \in Peers
  BY <1>1 DEF Rescan, Manager
<1>3. /\ peer' = [peer EXCEPT ![dp] = Disconnected(@)]
      /\ manager' = [manager EXCEPT !.height = 0, !.syncing = FALSE]
      /\ thread' = [thread EXCEPT ![App] = "connect"] /\ syncState' \in SyncState
  BY <1>1 DEF Rescan
<1>4. SameConnections
  BY <1>1, <1>2, <1>3, DisconnectedFollows DEF SameConnections
<1>5. 0 \in 0..MaxHeight
  BY ManagerAssumption
<1>6. /\ manager' \in Manager /\ manager'.downloadPeer = manager.downloadPeer
      /\ manager'.syncing = FALSE
  BY <1>1, <1>3, <1>5 DEF Manager
<1>7. SyncHasThread' /\ RetryPending'
  BY <1>6 DEF SyncHasThread, RetryPending
<1> QED
  BY <1>3, <1>4, <1>6, <1>7, AppThread, MovedStep DEF ThreadState

\* Peers that wait for the network are tried again.
LEMMA WokenFollows ==
    ASSUME peer \in [Peers -> Context], NEW s \in Outcome
    PROVE  Follows(peer, Woken(s))
<1>1. s \in Status /\ s # "none"
  BY DEF Outcome, Status
<1>2. New(s) \in Context /\ New(s).status = s
  BY <1>1, NewContext
<1>3. \A p \in Peers : Woken(s)[p] = IF peer[p].status = "waiting" THEN New(s) ELSE peer[p]
  BY DEF Woken
<1>4. Woken(s) \in [Peers -> Context]
  BY <1>2 DEF Woken
<1> QED
  BY <1>1, <1>2, <1>3, <1>4 DEF Follows, Alive

(***************************************************************************)
(* The end of BRPeerManagerConnect, from contexts ps in which as many      *)
(* peers are connected as now: whatever other threads have done while this *)
(* one was without the lock, it counts the peers once more.                *)
(***************************************************************************)
LEMMA FillStep ==
    ASSUME IInv, NEW t \in Threads, NEW ps, Follows(peer, ps),
           NEW n \in 0..(MAX_CONNECT_FAILURES + 1),
           n >= MAX_CONNECT_FAILURES => n = manager.failures /\ thread[t] # "connect",
           Fill(t, ps, n), UNCHANGED syncState
    PROVE  IInv'
<1>1. /\ peer \in [Peers -> Context] /\ manager \in Manager
      /\ thread \in [Threads -> ThreadState] /\ syncState \in SyncState
  BY TypeParts DEF IInv
<1>2. PICK N \in Chosen(ps), s \in Outcome :
        /\ peer' = [p \in Peers |-> IF p \in N THEN New(s) ELSE ps[p]]
        /\ manager' = [manager EXCEPT !.failures = n, !.syncing = @ /\ ~(In(peer') = {})]
        /\ thread' = [thread EXCEPT ![t] = IF In(peer') = {} THEN "unreachable" ELSE "idle"]
  BY DEF Fill
<1>3. s \in Status /\ s # "none"
  BY DEF Outcome, Status
<1>4. New(s) \in Context /\ New(s).status = s
  BY <1>3, NewContext
<1>5. ps \in [Peers -> Context]
  BY DEF Follows
<1>6. peer' \in [Peers -> Context]
  BY <1>2, <1>4, <1>5
<1>7. /\ N \subseteq Peers /\ N \cap In(ps) = {}
      /\ Cardinality(N) + Cardinality(In(ps)) <= maxConnectCount
  BY DEF Chosen
<1>8. In(peer') = N \cup In(ps)
  BY <1>2, <1>3, <1>4, <1>7 DEF In
<1>9. ConnectionsBounded'
  <2>1. IsFiniteSet(N) /\ IsFiniteSet(In(ps))
    <3>1. In(ps) \subseteq Peers
      BY DEF In
    <3> QED
      BY <1>7, <3>1, FS_Subset, ManagerAssumption
  <2>2. /\ Cardinality(N) \in Nat /\ Cardinality(In(ps)) \in Nat
        /\ Cardinality(N \cap In(ps)) = 0
    BY <1>7, <2>1, FS_CardinalityType, FS_EmptySet
  <2>3. Cardinality(N \cup In(ps)) = Cardinality(N) + Cardinality(In(ps))
    <3>1. Cardinality(N \cup In(ps)) = Cardinality(N) + Cardinality(In(ps)) - Cardinality(N \cap In(ps))
      BY <2>1, FS_Union, Zenon
    <3> QED
      BY <2>2, <3>1
  <2> QED
    BY <1>7, <1>8, <2>3 DEF ConnectionsBounded, connectedPeers
<1>10. /\ manager' \in Manager
       /\ manager'.downloadPeer = manager.downloadPeer
       /\ manager'.wanted = manager.wanted
       /\ manager'.syncing => manager.syncing /\ In(peer') # {}
       /\ manager'.failures = n
  <2> DEFINE b == manager.syncing /\ ~(In(peer') = {})
  <2>1. b \in BOOLEAN /\ (b => manager.syncing /\ In(peer') # {})
    OBVIOUS
  <2>2. manager' = [manager EXCEPT !.failures = n, !.syncing = b]
    BY <1>2
  <2> HIDE DEF b
  <2> QED
    BY <1>1, <2>1, <2>2 DEF Manager
<1>11. TypeOK'
  <2>1. thread' \in [Threads -> ThreadState]
    BY <1>1, <1>2 DEF ThreadState
  <2> QED
    BY <1>1, <1>6, <1>10, <2>1, TypePartsNext
<1>12. DownloadPeerAlive'
  <2>1. SUFFICES ASSUME manager.downloadPeer # NoPeer
                 PROVE  peer'[manager.downloadPeer].status \in Alive
    BY <1>10 DEF DownloadPeerAlive, Alive
  <2> DEFINE dp == manager.downloadPeer
  <2>2. dp \in Peers /\ peer[dp].status \in Alive
    BY <1>1, <2>1 DEF IInv, DownloadPeerAlive, Alive, Manager
  <2>3. ps[dp].status \in Alive
    BY <2>2 DEF Follows
  <2>4. dp \notin N
    BY <1>7, <2>2, <2>3 DEF In, Alive
  <2> QED
    BY <1>2, <2>2, <2>3, <2>4
<1>13. SyncHasThread'
  BY <1>10 DEF SyncHasThread, connectedPeers
<1>14. RetryPending'
  <2>1. SUFFICES ASSUME manager'.wanted, manager'.syncing, manager'.downloadPeer = NoPeer,
                        manager'.failures >= MAX_CONNECT_FAILURES
                 PROVE  thread'[App] = "connect"
    BY DEF RetryPending
  <2>2. thread[App] = "connect" /\ thread[t] # "connect"
    BY <1>10, <2>1 DEF IInv, RetryPending
  <2> QED
    BY <1>1, <1>2, <2>2, AppThread
<1> QED
  BY <1>9, <1>11, <1>12, <1>13, <1>14 DEF IInv

\* BRPeerManagerConnect after _BRPeerManagerFindPeers has released the lock.
LEMMA ConnectFoundStep ==
    ASSUME IInv, NEW t \in Threads, ConnectFound(t)
    PROVE  IInv'
<1>1. peer \in [Peers -> Context] /\ manager.failures \in 0..(MAX_CONNECT_FAILURES + 1)
  BY TypeParts DEF IInv, Manager
<1>2. Follows(peer, peer)
  BY <1>1 DEF Follows
<1> QED
  BY <1>1, <1>2, FillStep DEF ConnectFound

\* BRPeerManagerConnect from its first or second lock: to the lookup, or to its end.
LEMMA ConnectGoesOnStep ==
    ASSUME IInv, NEW t \in Threads, ConnectGoesOn(t)
    PROVE  IInv'
<1>1. /\ peer \in [Peers -> Context] /\ manager \in Manager
      /\ thread \in [Threads -> ThreadState] /\ syncState \in SyncState
  BY TypeParts DEF IInv
<1> DEFINE n == IF thread[t] = "connect" THEN Retried ELSE manager.failures
<1>2. PICK s \in Outcome :
        \/ /\ manager.dns + DnsThreads <= MaxDns
           /\ peer' = Woken(s)
           /\ manager' = [manager EXCEPT !.failures = n, !.dns = @ + DnsThreads]
           /\ thread' = [thread EXCEPT ![t] = "finding"]
        \/ Fill(t, Woken(s), n)
  BY DEF ConnectGoesOn
<1>3. /\ n \in 0..(MAX_CONNECT_FAILURES + 1)
      /\ n >= MAX_CONNECT_FAILURES => n = manager.failures /\ thread[t] # "connect"
  BY <1>1, RetriedBelow, ManagerAssumption DEF Manager
<1>4. Follows(peer, Woken(s)) /\ UNCHANGED syncState
  BY <1>1, WokenFollows DEF ConnectGoesOn
<1> HIDE DEF n
<1>5. CASE Fill(t, Woken(s), n)
  BY <1>3, <1>4, <1>5, FillStep
<1>6. CASE /\ manager.dns + DnsThreads <= MaxDns
           /\ peer' = Woken(s)
           /\ manager' = [manager EXCEPT !.failures = n, !.dns = @ + DnsThreads]
           /\ thread' = [thread EXCEPT ![t] = "finding"]
  <2>1. manager.dns + DnsThreads \in 0..MaxDns
    BY <1>1, <1>6, ManagerAssumption DEF Manager
  <2>2. /\ manager' \in Manager /\ manager'.downloadPeer = manager.downloadPeer
        /\ manager'.wanted = manager.wanted /\ manager'.syncing = manager.syncing
        /\ manager'.failures = n
    BY <1>1, <1>3, <1>6, <2>1 DEF Manager
  <2>3. SameConnections
    BY <1>4, <1>6 DEF SameConnections
  <2>4. SyncHasThread'
    BY <1>1, <1>6, ConnectingThread
  <2>5. RetryPending'
    BY <1>1, <1>3, <1>6, <2>2, AppThread DEF IInv, RetryPending
  <2> QED
    BY <1>1, <1>4, <1>6, <2>2, <2>3, <2>4, <2>5, MovedStep DEF ThreadState
<1> QED
  BY <1>2, <1>5, <1>6

(***************************************************************************)
(* _peerDisconnected.  If the peer was the last one, the sync ends or its  *)
(* thread connects again: the count can be past the limit only if there    *)
(* was a download peer, and then it was this one and has been capped.      *)
(***************************************************************************)
LEMMA PeerDisconnectedStep ==
    ASSUME IInv, NEW p \in Peers, NEW w \in Workers, PeerDisconnected(p, w)
    PROVE  IInv'
<1>1. /\ peer \in [Peers -> Context] /\ manager \in Manager
      /\ thread \in [Threads -> ThreadState] /\ syncState \in SyncState
  BY TypeParts DEF IInv
<1> DEFINE counted  == IF peer[p].error = "ECONN" THEN Counted(manager.failures) ELSE manager.failures
           failures == Capped(p, counted)
           dp       == DownloadPeerWithout(p)
           failed   == dp = NoPeer /\ failures = MAX_CONNECT_FAILURES
           next     == CASE failed -> IF peer[p].error = "OK" THEN "ended" ELSE "failed"
                         [] ~failed /\ failures < MAX_CONNECT_FAILURES -> "connect"
                         [] OTHER -> "idle"
           goesOn   == manager.syncing /\ ~failed
<1>2. /\ peer' = [peer EXCEPT ![p] = NotConnected]
      /\ manager' = [manager EXCEPT !.downloadPeer = dp, !.failures = failures, !.syncing = goesOn]
      /\ thread[w] = "idle" /\ thread' = [thread EXCEPT ![w] = next]
      /\ UNCHANGED syncState
  BY DEF PeerDisconnected
<1>3. w \in Threads /\ w # App
  BY ManagerAssumption DEF Threads
<1>4. /\ counted \in 0..(MAX_CONNECT_FAILURES + 1) /\ failures \in 0..(MAX_CONNECT_FAILURES + 1)
      /\ counted > MAX_CONNECT_FAILURES => manager.failures >= MAX_CONNECT_FAILURES
      /\ failures > MAX_CONNECT_FAILURES =>
            p # manager.downloadPeer /\ counted > MAX_CONNECT_FAILURES
  BY <1>1, ManagerAssumption DEF Manager, Counted, Capped
<1>5. dp \in Peers \cup {NoPeer} /\ dp \in {manager.downloadPeer, NoPeer} /\ dp # p
      /\ (p # manager.downloadPeer => dp = manager.downloadPeer)
  BY <1>1, ManagerAssumption DEF DownloadPeerWithout, Manager
<1>6. goesOn \in BOOLEAN /\ (goesOn => manager.syncing /\ ~failed) /\ next \in ThreadState
  BY DEF ThreadState
<1>7. failures < MAX_CONNECT_FAILURES => next = "connect"
  BY <1>4, ManagerAssumption
<1>8. failed <=> dp = NoPeer /\ failures = MAX_CONNECT_FAILURES
  OBVIOUS
<1> HIDE DEF counted, failures, dp, failed, next, goesOn
<1>9. /\ manager' \in Manager
      /\ manager'.downloadPeer = dp /\ manager'.failures = failures
      /\ manager'.wanted = manager.wanted
      /\ manager'.syncing => manager.syncing /\ ~failed
  BY <1>1, <1>2, <1>4, <1>5, <1>6 DEF Manager
<1>10. NotConnected \in Context /\ NotConnected.status = "none"
  BY ManagerAssumption DEF NotConnected, Context, Status
<1>11. peer' \in [Peers -> Context] /\ thread' \in [Threads -> ThreadState]
  BY <1>1, <1>2, <1>6, <1>10
<1>12. TypeOK'
  BY <1>1, <1>2, <1>9, <1>11, TypePartsNext
<1>13. connectedPeers' = connectedPeers \ {p}
  BY <1>1, <1>2, <1>10 DEF connectedPeers, In
<1>14. ConnectionsBounded'
  <2>1. IsFiniteSet(connectedPeers)
    <3>1. connectedPeers \subseteq Peers
      BY DEF connectedPeers, In
    <3> QED
      BY <3>1, FS_Subset, ManagerAssumption
  <2>2. /\ Cardinality(connectedPeers \ {p}) <= Cardinality(connectedPeers)
        /\ IsFiniteSet(connectedPeers \ {p})
    BY <2>1, FS_Subset
  <2>3. Cardinality(connectedPeers) \in Nat /\ Cardinality(connectedPeers \ {p}) \in Nat
    BY <2>1, <2>2, FS_CardinalityType
  <2> QED
    BY <1>13, <2>2, <2>3, ManagerAssumption DEF IInv, ConnectionsBounded
<1>15. dp # NoPeer => dp \in connectedPeers' /\ peer'[dp].status \in Alive
  <2>1. SUFFICES ASSUME dp # NoPeer
                 PROVE  dp \in connectedPeers' /\ peer'[dp].status \in Alive
    OBVIOUS
  <2>2. dp \in Peers /\ dp = manager.downloadPeer
    BY <1>5, <2>1
  <2>3. peer[dp].status \in Alive
    BY <2>1, <2>2 DEF IInv, DownloadPeerAlive, Alive
  <2>4. peer'[dp] = peer[dp]
    BY <1>1, <1>2, <1>5, <2>2
  <2> QED
    BY <2>2, <2>3, <2>4 DEF connectedPeers, In, Alive
<1>16. DownloadPeerAlive'
  BY <1>9, <1>15 DEF DownloadPeerAlive, Alive
<1>17. ASSUME manager'.wanted, manager'.syncing, dp = NoPeer, failures >= MAX_CONNECT_FAILURES
       PROVE  thread'[App] = "connect"
  <2>1. failures > MAX_CONNECT_FAILURES
    BY <1>4, <1>8, <1>9, <1>17, ManagerAssumption
  <2>2. manager.downloadPeer = NoPeer /\ manager.failures >= MAX_CONNECT_FAILURES
    BY <1>4, <1>5, <1>17, <2>1
  <2>3. thread[App] = "connect"
    BY <1>9, <1>17, <2>2 DEF IInv, RetryPending
  <2> QED
    BY <1>1, <1>2, <1>3, <2>3
<1>18. RetryPending'
  BY <1>9, <1>17 DEF RetryPending
<1>19. SyncHasThread'
  <2>1. SUFFICES ASSUME manager'.wanted, manager'.syncing, connectedPeers' = {}
                 PROVE  Connecting' # {}
    BY DEF SyncHasThread
  <2>2. dp = NoPeer
    BY <1>15, <2>1
  <2>3. CASE failures < MAX_CONNECT_FAILURES
    <3>1. thread'[w] = "connect"
      BY <1>1, <1>2, <1>3, <1>7, <2>3
    <3> QED
      BY <1>3, <3>1 DEF Connecting
  <2>4. CASE failures >= MAX_CONNECT_FAILURES
    <3>1. thread'[App] = "connect"
      BY <1>17, <2>1, <2>2, <2>4
    <3> QED
      BY <3>1, AppThread DEF Connecting
  <2> QED
    BY <1>4, <2>3, <2>4, ManagerAssumption
<1> QED
  BY <1>12, <1>14, <1>16, <1>18, <1>19 DEF IInv

-----------------------------------------------------------------------------
(* The theorems. *)

\* The invariant holds of a new manager ...
LEMMA InitIInv == Init => IInv
<1> SUFFICES ASSUME Init PROVE IInv
  OBVIOUS
<1>1. NotConnected \in Context /\ NotConnected.status = "none"
  BY ManagerAssumption DEF NotConnected, Context, Status
<1>2. TypeOK
  <2>1. peer \in [Peers -> Context]
    BY <1>1 DEF Init
  <2>2. manager \in Manager
    BY ManagerAssumption DEF Init, Manager
  <2>3. thread \in [Threads -> ThreadState] /\ syncState \in SyncState
    BY DEF Init, ThreadState, SyncState
  <2> QED
    BY <2>1, <2>2, <2>3, TypeParts
<1>3. connectedPeers = {}
  BY <1>1 DEF Init, connectedPeers, In
<1>4. ConnectionsBounded
  BY <1>3, FS_EmptySet, ManagerAssumption DEF ConnectionsBounded
<1>5. DownloadPeerAlive /\ SyncHasThread /\ RetryPending
  BY DEF Init, DownloadPeerAlive, SyncHasThread, RetryPending
<1> QED
  BY <1>2, <1>4, <1>5 DEF IInv

\* ... every step keeps it ...
LEMMA NextIInv == IInv /\ [Next]_vars => IInv'
<1> SUFFICES ASSUME IInv, [Next]_vars PROVE IInv'
  OBVIOUS
<1>1. CASE UNCHANGED vars
  BY <1>1 DEF vars, IInv, TypeOK, ConnectionsBounded, DownloadPeerAlive, SyncHasThread, RetryPending,
              connectedPeers, In, Connecting
<1>2. CASE AppConnect \/ Disconnect \/ DisconnectReturn \/ Rescan \/ FindPeersThread
  BY <1>2, AppConnectStep, DisconnectStep, DisconnectReturnStep, RescanStep, FindPeersThreadStep
<1>3. ASSUME NEW t \in Threads, ConnectStep(t)
      PROVE  IInv'
  BY <1>3, ConnectStartsStep, ReportStartedStep, ConnectGoesOnStep, ConnectFoundStep, ReportStoppedStep
     DEF ConnectStep
<1>4. ASSUME NEW p \in Peers, Connected(p)
      PROVE  IInv'
  BY <1>4, PeerConnectedUnfitStep, PeerConnectedOtherStep, PeerConnectedDownloadStep DEF Connected
<1>5. ASSUME NEW p \in Peers,
             \/ OpenSocket(p) \/ RelayedBlock(p) \/ FilterPong(p) \/ MempoolPong(p) \/ ReportDone(p)
             \/ PongsFail(p)
      PROVE  IInv'
  BY <1>5, OpenSocketStep, RelayedBlockStep, FilterPongStep, MempoolPongStep, ReportDoneStep, PongsFailStep
<1>6. ASSUME NEW p \in Peers, NEW e \in {"OK", "ECONN", "EPROTO"}, ThreadEnds(p, e)
      PROVE  IInv'
  BY <1>6, ThreadEndsStep
<1>7. ASSUME NEW p \in Peers, NEW w \in Workers, PeerDisconnected(p, w)
      PROVE  IInv'
  BY <1>7, PeerDisconnectedStep
<1> QED
  BY <1>1, <1>2, <1>3, <1>4, <1>5, <1>6, <1>7 DEF Next

\* ... and so it holds always.
LEMMA Invariance == Spec => []IInv
  BY InitIInv, NextIInv, PTL DEF Spec

\* Every reachable state of the manager is well typed, whatever peers and threads do.
THEOREM TypeCorrect == Spec => []TypeOK
<1>1. IInv => TypeOK
  BY DEF IInv
<1> QED
  BY <1>1, Invariance, PTL

\* However many threads are in BRPeerManagerConnect at a time, which releases its lock twice, they
\* connect to no more than maxConnectCount peers.
THEOREM BoundKept == Spec => []ConnectionsBounded
<1>1. IInv => ConnectionsBounded
  BY DEF IInv
<1> QED
  BY <1>1, Invariance, PTL

\* _peerDisconnected frees no peer that stays the download peer.
THEOREM DownloadPeerLives == Spec => []DownloadPeerAlive
<1>1. IInv => DownloadPeerAlive
  BY DEF IInv
<1> QED
  BY <1>1, Invariance, PTL

\* The manager does not come to rest in the middle of a sync that the app wants, for any limit of
\* failures: the count passes the limit, but not where the code tests for equality.
THEOREM RestNotSyncing == Spec => []AtRestNotSyncing
<1>1. IInv => AtRestNotSyncing
  BY DEF IInv, AtRestNotSyncing, AtRest, SyncHasThread, Connecting
<1> QED
  BY <1>1, Invariance, PTL
=============================================================================
