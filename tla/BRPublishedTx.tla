--------------------------- MODULE BRPublishedTx ---------------------------
(***************************************************************************)
(* Publishing transactions (Modules/core/BRPeerManager.c): the publish     *)
(* list, which peers have or were asked for a transaction, the publish     *)
(* timeout, the mempool requests after a sync, and the removal of          *)
(* unconfirmed transactions that no connected peer has.                    *)
(*                                                                         *)
(* Every handler runs under manager->lock and is one step here, but what a *)
(* thread does after it has unlocked is a step of its own: calling the     *)
(* publisher's callback, serialising the transaction that                  *)
(* _peerRequestedTx returned, and publishing after the test of             *)
(* manager->isConnected.  Peers and their threads come and go at any time. *)
(* Every transaction here is one that spends the wallet's coins, so        *)
(* BRWalletContainsTransaction and BRWalletAmountSentByTx > 0 hold for it. *)
(* The chain itself is BRBlockChain's, tx->timestamp is BRWallet's, and    *)
(* what decides when to connect and disconnect is BRPeerManager's.         *)
(***************************************************************************)
EXTENDS Integers, FiniteSets, Sequences

CONSTANTS
    Peers,                \* the addresses that may be connected to
    NoPeer,
    Tx,                   \* transaction hashes
    Inputs,               \* [Tx -> SUBSET Tx], the transactions a transaction spends
    Calls,                \* calls of BRPeerManagerPublishTx; also names the copies made for them
    TxOf,                 \* [Calls -> Tx], the transaction a copy made for a call holds
    KeepsTransaction,     \* may a send screen publish again what it has published?
    OneAtATime,           \* does the user wait for an answer before sending again?
    NoCall,               \* the NULL callback
    Relayed,              \* a copy that was parsed from a tx message
    Foreign,              \* transactions another device with the same seed has published
    MAX_CONNECT_FAILURES, \* 20
    maxConnectCount,      \* PEER_MAX_CONNECTIONS
    MaxEvents,            \* bound: connections made and chain downloads finished
    MaxPongs              \* bound: pings a peer has to answer when another is started

ASSUME PublishAssumption ==
    /\ NoPeer \notin Peers
    /\ NoCall \notin Calls
    /\ Relayed \notin Calls
    /\ NoCall # Relayed
    /\ Inputs \in [Tx -> SUBSET Tx]
    /\ TxOf \in [Calls -> Tx]
    /\ Foreign \subseteq Tx
    /\ KeepsTransaction \in BOOLEAN /\ OneAtATime \in BOOLEAN
    /\ MAX_CONNECT_FAILURES \in Nat \ {0}
    /\ maxConnectCount \in Nat \ {0}
    /\ MaxEvents \in Nat /\ MaxPongs \in Nat

VARIABLES
    published,     \* manager->publishedTx: for each listed hash its copy and callback
    txRelays,      \* manager->txRelays: the peers that have or relay a transaction
    txRequests,    \* manager->txRequests: the peers it was asked of
    wallet,        \* what the wallet says of each transaction, see WalletState
    copy,          \* the copy of it that wallet->allTx holds
    invalid,       \* transactions BRWalletTransactionIsValid refuses
    manager,       \* downloadPeer, syncing (syncStartHeight > 0), connectFailureCount
    status,        \* of each peer, see PeerStatus
    peer,          \* the rest of a peer's context, see Fresh
    held,          \* Sender.transaction, where it may be published again
    using,         \* the copy each call was given
    call,          \* where each call of BRPeerManagerPublishTx stands
    ringing,       \* callbacks that a thread has yet to call
    told,          \* the errors each publisher was called back with, in order
    freed,         \* the copies passed to BRTransactionFree
    sent,          \* the copies written to an open socket
    network,       \* transactions that other nodes have
    events         \* how many of the bounded events have happened

mgrVars == <<published, txRelays, txRequests, manager>>
walletVars == <<wallet, copy, invalid>>
callVars == <<held, using, call, ringing, told, freed>>
netVars == <<sent, network>>
vars == <<mgrVars, walletVars, callVars, netVars, status, peer, events>>

-----------------------------------------------------------------------------

(***************************************************************************)
(* "closed" is a peer whose socket BRPeerDisconnect has closed while its   *)
(* thread goes on: its connect status still reads connected.  "ended" is a *)
(* peer whose thread has left its loop with an error of its own and has    *)
(* not reported yet, "shut" one whose socket had been closed.              *)
(***************************************************************************)
PeerStatus == {"off", "connecting", "connected", "closed", "ended", "shut"}

\* "removed" is out of wallet->transactions but, as in the code, still in wallet->allTx.
WalletState == {"absent", "unconfirmed", "confirmed", "removed"}

Errors == {"OK", "EINVAL", "ENOTCONN", "ETIMEDOUT", "ECONNRESET", "EPROTO"}

\* A new BRPeer: nothing known, and the timeout of the connection.
Fresh ==
    [timer |-> TRUE,             \* disconnectTime is not DBL_MAX
     known |-> {},               \* knownTxHashes
     synced |-> FALSE,           \* PEER_FLAG_SYNCED
     sentMempool |-> FALSE,
     pongs |-> <<>>,             \* pongCallback, oldest first
     sending |-> NoCall]         \* what _peerRequestedTx returned to its thread

Listed == DOMAIN published

Pending(pub) == {t \in DOMAIN pub : pub[t].callback # NoCall}

connectedPeers == {p \in Peers : status[p] # "off"}

\* BRPeerConnectStatus(p) == BRPeerStatusConnected
IsConnected(p) == status[p] \in {"connected", "closed"}

\* The thread of p can take the next message.
Running(p) == IsConnected(p) /\ peer[p].sending = NoCall

InAllTx(t) == wallet[t] # "absent"

Unconfirmed == {t \in Tx : wallet[t] = "unconfirmed"}

Without(f, S) == [x \in DOMAIN f \ S |-> f[x]]

-----------------------------------------------------------------------------
(* Steps of a peer's context, as functions of it. *)

SendPing(c, callback) == [c EXCEPT !.pongs = Append(@, callback)]

\* BRPeerSendFilterload
LoadFilter(c) == [c EXCEPT !.sentMempool = FALSE]

\* BRPeerSendInv only mentions what the peer is not known to have.
SendInv(c, hashes) == [c EXCEPT !.known = @ \cup hashes]

\* BRPeerSendMempool, unless it was sent already.  The ping that its answer, or a wait of ten
\* seconds, makes the peer's thread send is put in line at once.
SendMempool(c, hashes) ==
    IF c.sentMempool THEN c
    ELSE SendPing([c EXCEPT !.sentMempool = TRUE, !.known = @ \cup hashes], "mempoolDone")

\* BRPeerScheduleDisconnect, if there is a reason to.
KeepTimer(c, reason) == [c EXCEPT !.timer = @ \/ reason]

\* _BRPeerManagerPublishPendingTx
PublishPending(pub, c) == SendInv(KeepTimer(c, Pending(pub) # {}), DOMAIN pub)

-----------------------------------------------------------------------------
(* The publish list. *)

\* The transactions _BRPeerManagerAddTxToPublishList adds: t, and from there the inputs that are
\* unconfirmed and not listed yet, which is the least set closed under these inputs.
Added(t) ==
    {u \in Tx : \A S \in SUBSET Tx :
        t \in S /\ (\A v \in S : Inputs[v] \cap (Unconfirmed \ Listed) \subseteq S) => u \in S}

\* Mutant: the list takes the wallet's transaction of that hash, also for the one to publish.
AddTxToPublishListByHash(t, c, callback) ==
    IF t \in Listed THEN published
    ELSE [u \in Listed \cup Added(t) |->
            IF u \in Listed THEN published[u]
            ELSE [copy |-> copy[u], callback |-> IF u = t THEN callback ELSE NoCall]]

\* _BRPeerManagerAddTxToPublishList: nothing happens, to the callback either, when t is listed.
AddTxToPublishList(t, c, callback) ==
    IF t \in Listed THEN published
    ELSE [u \in Listed \cup Added(t) |->
            IF u \in Listed THEN published[u]
            ELSE IF u = t THEN [copy |-> c, callback |-> callback]
            ELSE [copy |-> copy[u], callback |-> NoCall]]

\* Mutant: the callback stays in the list.
TakeCallbackKept(pub, t) == pub

\* The publish list when a peer has, relays or asks for t: its callback is taken out, to be called.
TakeCallback(pub, t) ==
    IF t \in DOMAIN pub THEN [pub EXCEPT ![t].callback = NoCall] ELSE pub

Taken(t, error) ==
    IF t \in Pending(published) THEN {[call |-> published[t].callback, error |-> error]} ELSE {}

\* "cancel tx publish timeout if no publish callbacks are pending, and syncing is done or this is
\* not downloadPeer", of _peerHasTx, _peerRelayedTx and _peerRequestedTx.
CancelTimer(p, t, c) ==
    [c EXCEPT !.timer =
        @ /\ (Pending(published) \ {t} # {} \/ (manager.syncing /\ p = manager.downloadPeer))]

\* Mutant: a transaction that leaves the list is freed, whatever the wallet has.
FreeListed(t) == IF t \in Listed THEN freed \cup {published[t].copy} ELSE freed

\* What becomes of a listed transaction that is taken off the list: freed unless the wallet has it.
FreeUnlessKnown(t) ==
    IF t \in Listed /\ ~InAllTx(t) THEN freed \cup {published[t].copy} ELSE freed

\* Mutant: a transaction is registered only when a peer relays it, not when one asks for it.
RegisterRelayed(t, c) ==
    /\ wallet' = [wallet EXCEPT ![t] = IF @ = "absent" /\ c = Relayed THEN "unconfirmed" ELSE @]
    /\ copy' = [copy EXCEPT ![t] = IF wallet[t] = "absent" /\ c = Relayed THEN c ELSE @]

\* BRWalletRegisterTransaction of a copy c: a transaction the wallet knows is left alone.
Register(t, c) ==
    /\ wallet' = [wallet EXCEPT ![t] = IF @ = "absent" THEN "unconfirmed" ELSE @]
    /\ copy' = [copy EXCEPT ![t] = IF wallet[t] = "absent" THEN c ELSE @]

AddPeer(lists, t, p) == [lists EXCEPT ![t] = @ \cup {p}]

RemovePeer(lists, t, p) == [lists EXCEPT ![t] = @ \ {p}]

-----------------------------------------------------------------------------
(* BRPeerManagerPublishTx. *)

(***************************************************************************)
(* SendViewController.sendTapped: a transaction is created from outputs    *)
(* that, for the wallet, nothing spends, unless Sender still has one.  It  *)
(* does when the attempt before failed or has not been answered, and the   *)
(* user has not cancelled the confirmation.                                *)
(***************************************************************************)
SendTapped(c, k) ==
    /\ call[c] = "idle"
    /\ OneAtATime => \A d \in Calls : call[d] = "idle" \/ told[d] # <<>>
    /\ \/ /\ k = c
          /\ wallet[TxOf[c]] \in {"absent", "removed"}
          /\ TxOf[c] \notin invalid
          /\ \A u \in Inputs[TxOf[c]] : wallet[u] \in {"unconfirmed", "confirmed"}
       \/ k = held
    /\ k # NoCall
    /\ using' = [using EXCEPT ![c] = k]
    /\ held' = IF KeepsTransaction THEN k ELSE NoCall

(***************************************************************************)
(* The end of BRPeerManagerPublishTx: the list gets the transaction, and   *)
(* every peer whose status is connected is told of it and pinged, except   *)
(* the download peer when there are others.                                *)
(***************************************************************************)
DoPublish(c, k) ==
    LET pub == AddTxToPublishList(TxOf[k], k, c)
        to  == {p \in Peers : IsConnected(p) /\ (\/ p # manager.downloadPeer
                                                \/ Cardinality({q \in Peers : IsConnected(q)}) = 1)}
    IN  /\ \A p \in to : Len(peer[p].pongs) < MaxPongs
        /\ published' = pub
        /\ peer' = [p \in Peers |-> IF p \in to THEN SendPing(PublishPending(pub, peer[p]), "invDone")
                                    ELSE peer[p]]
        /\ call' = [call EXCEPT ![c] = "published"]
        /\ UNCHANGED <<txRelays, txRequests, manager, walletVars, ringing, told, freed, netVars,
                       status, events>>

\* The call when the manager is connected to a download peer.
PublishTx(c, k) ==
    /\ manager.downloadPeer # NoPeer
    /\ SendTapped(c, k)
    /\ DoPublish(c, k)

\* Not connected, and no hope of it: connectFailureCount is at its limit, or there is no network.
PublishTxNotConnected(c, k) ==
    /\ manager.downloadPeer = NoPeer
    /\ SendTapped(c, k)
    /\ call' = [call EXCEPT ![c] = "published"]
    /\ told' = [told EXCEPT ![c] = Append(@, "ENOTCONN")]
    /\ freed' = freed \cup {k}
    /\ UNCHANGED <<mgrVars, walletVars, ringing, netVars, status, peer, events>>

\* Not connected, but it may be soon: the lock is released, the network asked about, and ...
PublishTxCheck(c, k) ==
    /\ manager.downloadPeer = NoPeer
    /\ manager.connectFailureCount < MAX_CONNECT_FAILURES
    /\ SendTapped(c, k)
    /\ call' = [call EXCEPT ![c] = "checked"]
    /\ UNCHANGED <<mgrVars, walletVars, ringing, told, freed, netVars, status, peer, events>>

\* ... the transaction published, whatever has happened since.
PublishTxChecked(c) ==
    /\ call[c] = "checked"
    /\ DoPublish(c, using[c])
    /\ UNCHANGED <<held, using>>

\* A thread that has released the lock calls a publisher back; on success the send screen goes.
TxCallback(r) ==
    /\ r \in ringing
    /\ ringing' = ringing \ {r}
    /\ told' = [told EXCEPT ![r.call] = Append(@, r.error)]
    /\ held' = IF r.error = "OK" THEN NoCall ELSE held
    /\ UNCHANGED <<mgrVars, walletVars, using, call, freed, netVars, status, peer, events>>

-----------------------------------------------------------------------------
(* What a peer's thread does with the messages it reads. *)

\* _peerHasTx, for an inv that names a transaction the peer was told of or mentioned before.
HasTx(p, t) ==
    LET found == InAllTx(t) \/ t \in Listed
    IN  /\ Running(p)
        /\ t \in network /\ t \in peer[p].known
        /\ published' = TakeCallback(published, t)
        /\ ringing' = ringing \cup Taken(t, "OK")
        /\ peer' = [peer EXCEPT ![p] =
                       KeepTimer(CancelTimer(p, t, @), found /\ manager.syncing /\ p = manager.downloadPeer)]
        /\ txRelays' = IF t \in Listed \/ (found /\ ~manager.syncing) THEN AddPeer(txRelays, t, p)
                       ELSE txRelays
        /\ txRequests' = IF found THEN RemovePeer(txRequests, t, p) ELSE txRequests
        /\ IF found THEN Register(t, IF t \in Listed THEN published[t].copy ELSE Relayed)
           ELSE UNCHANGED <<wallet, copy>>
        /\ UNCHANGED <<manager, invalid, held, using, call, told, freed, netVars, status, events>>

\* An inv that names another transaction: it is asked for (BRPeerSendGetdata) and known from now on.
InvTx(p, t) ==
    /\ Running(p)
    /\ t \in network \ peer[p].known
    /\ peer' = [peer EXCEPT ![p].known = @ \cup {t}]
    /\ UNCHANGED <<mgrVars, walletVars, callVars, netVars, status, events>>

\* _peerRelayedTx: the wallet keeps the relayed copy unless it knows the transaction, and a valid one
\* is listed for the peers to come.
RelayedTx(p, t) ==
    /\ Running(p)
    /\ t \in network
    /\ published' = IF t \in Listed THEN TakeCallback(published, t)
                    ELSE IF t \in invalid THEN published
                    ELSE AddTxToPublishList(t, IF InAllTx(t) THEN copy[t] ELSE Relayed, NoCall)
    /\ ringing' = ringing \cup Taken(t, "OK")
    /\ Register(t, Relayed)
    /\ peer' = [peer EXCEPT ![p] =
                   KeepTimer(CancelTimer(p, t, @), manager.syncing /\ p = manager.downloadPeer)]
    /\ txRelays' = IF t \in Listed \/ ~manager.syncing THEN AddPeer(txRelays, t, p) ELSE txRelays
    /\ txRequests' = RemovePeer(txRequests, t, p)
    /\ UNCHANGED <<manager, invalid, held, using, call, told, freed, netVars, status, events>>

(***************************************************************************)
(* _peerRequestedTx, for a getdata: the transaction to send is returned to *)
(* the peer's thread.  One that is no longer valid is taken off the list,  *)
(* and freed unless the wallet knows it (then it is sent all the same).    *)
(***************************************************************************)
RequestedTx(p, t) ==
    /\ Running(p)
    /\ t \in peer[p].known
    /\ IF t \in Listed /\ t \notin invalid
           THEN /\ published' = TakeCallback(published, t)
                /\ ringing' = ringing \cup Taken(t, "OK")
                /\ freed' = freed
                /\ txRelays' = AddPeer(txRelays, t, p)
                /\ Register(t, published[t].copy)
           ELSE /\ published' = Without(published, {t})
                /\ ringing' = ringing \cup Taken(t, "EINVAL")
                /\ freed' = FreeUnlessKnown(t)
                /\ UNCHANGED <<txRelays, wallet, copy>>
    /\ peer' = [peer EXCEPT ![p] =
                   [CancelTimer(p, t, @) EXCEPT !.sending =
                       IF t \in Listed /\ (t \notin invalid \/ InAllTx(t)) THEN published[t].copy
                       ELSE NoCall]]
    /\ UNCHANGED <<txRequests, manager, invalid, held, using, call, told, netVars, status, events>>

\* The thread, back from _peerRequestedTx and its callback, writes the transaction to its socket.
SendTx(p) ==
    LET c == peer[p].sending
    IN  /\ IsConnected(p)
        /\ c # NoCall
        /\ \A r \in ringing : r.call # c
        /\ peer' = [peer EXCEPT ![p].sending = NoCall]
        /\ IF status[p] = "connected"
              THEN /\ sent' = sent \cup {c}
                   /\ network' = IF c \in Calls THEN network \cup {TxOf[c]} ELSE network
              ELSE UNCHANGED netVars
        /\ UNCHANGED <<mgrVars, walletVars, callVars, status, events>>

\* _peerDataNotfound
DataNotfound(p, t) ==
    /\ Running(p)
    /\ txRelays' = RemovePeer(txRelays, t, p)
    /\ txRequests' = RemovePeer(txRequests, t, p)
    /\ UNCHANGED <<published, manager, walletVars, callVars, netVars, status, peer, events>>

-----------------------------------------------------------------------------
(* What happens when a peer answers a ping, or when its thread has ended: then it is the same *)
(* callbacks with success = 0.                                                               *)

\* _BRPeerManagerSyncStopped, the peers' contexts after it.
SyncStopped(ctx) ==
    IF manager.downloadPeer = NoPeer \/ Pending(published) # {} THEN ctx
    ELSE [ctx EXCEPT ![manager.downloadPeer].timer = FALSE]

\* _BRPeerManagerRequestUnrelayedTx
Unrelayed(p) == {t \in Unconfirmed : p \notin txRelays[t] /\ p \notin txRequests[t]}

RequestUnrelayedTx(p, ctx) ==
    /\ txRequests' = [t \in Tx |-> txRequests[t] \cup (IF t \in Unrelayed(p) THEN {p} ELSE {})]
    /\ peer' = [ctx EXCEPT ![p] =
                   IF Unrelayed(p) = {} THEN [@ EXCEPT !.synced = TRUE]
                   ELSE IF @.synced THEN @
                   ELSE SendPing(@, "getdataDone")]

\* _publishTxInvDone, with success or not.
PublishTxInvDone(p, ctx) ==
    /\ RequestUnrelayedTx(p, ctx)
    /\ UNCHANGED <<published, txRelays, manager, wallet>>

\* BRWalletRemoveTransaction also removes what depends on a transaction: the least set that has D
\* and with a transaction all that spend it.
WithDependents(D) ==
    {u \in Tx : \A S \in SUBSET Tx :
        D \subseteq S /\ (\A v \in Unconfirmed : Inputs[v] \cap S # {} => v \in S) => u \in S}

\* What _requestUnrelayedTxGetdataDone removes once all peers have answered.
Dropped == {t \in Unconfirmed \ Pending(published) : txRelays[t] = {} /\ txRequests[t] = {}}

AllSynced(ctx) ==
    /\ \A q \in connectedPeers : ctx[q].synced
    /\ Cardinality({q \in Peers : IsConnected(q)}) >= maxConnectCount

RequestUnrelayedTxGetdataDone(p, success, ctx) ==
    LET c == [ctx EXCEPT ![p].synced = @ \/ success]
    IN  /\ peer' = c
        /\ wallet' = IF AllSynced(c)
                        THEN [t \in Tx |-> IF t \in WithDependents(Dropped) THEN "removed" ELSE wallet[t]]
                        ELSE wallet
        /\ UNCHANGED mgrVars

\* _mempoolDone; with failure it does nothing.
MempoolDone(p, success, ctx) ==
    IF success
        THEN /\ manager' = [manager EXCEPT !.syncing = FALSE]
             /\ RequestUnrelayedTx(p, IF manager.syncing THEN SyncStopped(ctx) ELSE ctx)
             /\ UNCHANGED <<published, txRelays, wallet>>
        ELSE peer' = ctx /\ UNCHANGED <<mgrVars, wallet>>

\* _loadBloomFilterDone
LoadBloomFilterDone(p, success, ctx) ==
    /\ IF success
          THEN /\ peer' = [ctx EXCEPT ![p] = SendMempool(@, Listed)]
               /\ UNCHANGED manager
          ELSE /\ manager' = IF p = manager.downloadPeer THEN [manager EXCEPT !.syncing = FALSE] ELSE manager
               /\ peer' = IF p = manager.downloadPeer THEN SyncStopped(ctx) ELSE ctx
    /\ UNCHANGED <<published, txRelays, txRequests, wallet>>

\* The oldest pong callback of p is called.
CallPong(p, success) ==
    LET ctx == [peer EXCEPT ![p].pongs = Tail(@)]
    IN  /\ peer[p].pongs # <<>>
        /\ CASE Head(peer[p].pongs) = "invDone" -> PublishTxInvDone(p, ctx)
             [] Head(peer[p].pongs) = "getdataDone" -> RequestUnrelayedTxGetdataDone(p, success, ctx)
             [] Head(peer[p].pongs) = "mempoolDone" -> MempoolDone(p, success, ctx)
             [] Head(peer[p].pongs) = "filterDone" -> LoadBloomFilterDone(p, success, ctx)
        /\ UNCHANGED <<copy, invalid, callVars, netVars, status, events>>

Pong(p) == Running(p) /\ CallPong(p, TRUE)

-----------------------------------------------------------------------------
(* Connections. *)

\* BRPeerManagerConnect (the app's, or after a disconnection) adds p to connectedPeers.
Connect(p) ==
    /\ status[p] = "off"
    /\ Cardinality(connectedPeers) < maxConnectCount
    /\ events < MaxEvents
    /\ events' = events + 1
    /\ status' = [status EXCEPT ![p] = "connecting"]
    /\ peer' = [peer EXCEPT ![p] = Fresh]
    /\ \E behind \in BOOLEAN :
          manager' = [manager EXCEPT
              !.connectFailureCount = IF @ >= MAX_CONNECT_FAILURES THEN 0 ELSE @,
              !.syncing = @ \/ manager.downloadPeer = NoPeer \/ behind]
    /\ UNCHANGED <<published, txRelays, txRequests, walletVars, callVars, netVars>>

\* _BRPeerManagerLoadMempools; highFp is the test of fpRate for the download peer dp.
LoadMempools(ctx, connected, dp, highFp) ==
    [q \in Peers |->
        IF q \notin connected THEN ctx[q]
        ELSE IF q # dp \/ highFp THEN SendPing(PublishPending(published, LoadFilter(ctx[q])), "filterDone")
        ELSE SendMempool(ctx[q], Listed)]

PeerConnectedVars == <<published, txRelays, txRequests, walletVars, callVars, netVars, events>>

\* _BRPeerDidConnect, the handshake over: no timeout, and _peerConnected is called.
DidConnect(p) ==
    /\ status[p] = "connecting"
    /\ status' = [status EXCEPT ![p] = "connected"]

Greeted(p) == [peer EXCEPT ![p].timer = FALSE]

\* _peerConnected: the node has no full blocks, isn't synced or has no bloom filters.
PeerConnectedUnfit(p) ==
    /\ status[p] = "connecting"
    /\ status' = [status EXCEPT ![p] = "closed"]
    /\ peer' = Greeted(p)
    /\ UNCHANGED <<PeerConnectedVars, manager>>

\* _peerConnected: we stick with the download peer, and load the filter if we are done syncing.
PeerConnectedOther(p) ==
    /\ DidConnect(p)
    /\ manager.downloadPeer # NoPeer
    /\ \/ /\ manager' = [manager EXCEPT !.connectFailureCount = 0]
          /\ peer' = [Greeted(p) EXCEPT ![p] =
                         SendPing(PublishPending(published, LoadFilter(@)), "filterDone")]
       \/ /\ peer' = Greeted(p)
          /\ UNCHANGED manager
    /\ UNCHANGED PeerConnectedVars

\* _peerConnected: p, or a better connected peer q, becomes the download peer.
PeerConnectedDownload(p, q) ==
    LET old == manager.downloadPeer
        ctx == [Greeted(p) EXCEPT ![q] = PublishPending(published, LoadFilter(@))]
    IN  /\ status[p] = "connecting"
        /\ q = p \/ (IsConnected(q) /\ q # old)
        /\ status' = [r \in Peers |-> CASE r = p -> "connected"
                                        [] r = old /\ IsConnected(r) -> "closed"
                                        [] OTHER -> status[r]]
        /\ \/ /\ manager' = [manager EXCEPT !.downloadPeer = q]   \* start blockchain sync
              /\ peer' = [ctx EXCEPT ![q].timer = TRUE]
           \/ \E highFp \in BOOLEAN :                            \* we're already synced
                 /\ manager' = [manager EXCEPT !.downloadPeer = q, !.connectFailureCount = 0]
                 /\ peer' = LoadMempools(ctx, {r \in Peers : r = p \/ IsConnected(r)}, q, highFp)
        /\ UNCHANGED PeerConnectedVars

\* _peerRelayedBlock, when the download peer's chain has been followed to its end.  A block before
\* the last one, if there was any, has reset connectFailureCount.
ChainDownloaded(p) ==
    /\ Running(p)
    /\ p = manager.downloadPeer
    /\ manager.syncing
    /\ peer[p].timer
    /\ events < MaxEvents
    /\ events' = events + 1
    /\ \E highFp \in BOOLEAN :
          peer' = LoadMempools(peer, {q \in Peers : IsConnected(q)}, p, highFp)
    /\ \E n \in {0, manager.connectFailureCount} : manager' = [manager EXCEPT !.connectFailureCount = n]
    /\ UNCHANGED <<published, txRelays, txRequests, walletVars, callVars, netVars, status>>

\* _BRPeerManagerUpdateTx with a block height, called by _peerRelayedBlock: a block holds t, which
\* the peer has sent (then the wallet has it) or is known to have.  No callback is called.
BlockConfirms(p, t) ==
    /\ Running(p)
    /\ t \in network
    /\ t \in peer[p].known \/ InAllTx(t)
    /\ published' = Without(published, {t})
    /\ freed' = FreeUnlessKnown(t)
    /\ txRelays' = [txRelays EXCEPT ![t] = {}]
    /\ wallet' = [wallet EXCEPT ![t] = IF @ = "unconfirmed" THEN "confirmed" ELSE @]
    /\ invalid' = invalid \ {t}
    /\ UNCHANGED <<txRequests, manager, copy, held, using, call, ringing, told, netVars, status, peer,
                   events>>

\* The wallet learns of another transaction that spends the same coins (BRWalletRegisterTransaction).
Conflict(t) ==
    /\ t \notin invalid
    /\ wallet[t] # "confirmed"
    /\ invalid' = invalid \cup {t}
    /\ UNCHANGED <<mgrVars, wallet, copy, callVars, netVars, status, peer, events>>

\* The loop of _peerThreadRoutine ends.  Of the context only what other threads read matters now.
ThreadEnds(p) ==
    /\ status[p] = "connecting" \/ Running(p)
    /\ status' = [status EXCEPT ![p] = IF @ = "closed" THEN "shut" ELSE "ended"]
    /\ peer' = [peer EXCEPT ![p] = [Fresh EXCEPT !.pongs = peer[p].pongs, !.synced = peer[p].synced]]
    /\ UNCHANGED <<mgrVars, walletVars, callVars, netVars, events>>

Ended(p) == status[p] \in {"ended", "shut"}

EndPong(p) == Ended(p) /\ CallPong(p, FALSE)

\* Mutant: the relays of a transaction that is still listed are left alone.
ForgetRelaysUnlisted(p) == [t \in Tx |-> IF t \in Listed THEN txRelays[t] ELSE txRelays[t] \ {p}]

\* _peerDisconnected takes the peer out of every list of manager->txRelays.
ForgetRelays(p) == [t \in Tx |-> txRelays[t] \ {p}]

\* Mutant: only a timeout is reported to the publishers.
CancelledTimeout(txs, error) ==
    IF error = "ETIMEDOUT" THEN {[call |-> published[t].callback, error |-> error] : t \in txs} ELSE {}

\* The callbacks of the publications it cancels.
Cancelled(txs, error) == {[call |-> published[t].callback, error |-> error] : t \in txs}

(***************************************************************************)
(* _peerDisconnected, once the pong callbacks are drained.  A timeout, or  *)
(* the last connection failure allowed, cancels every pending publication: *)
(* the transaction is freed and its callback will be called.  Nothing      *)
(* takes the peer out of txRequests.                                       *)
(***************************************************************************)
PeerDisconnected(p, error) ==
    LET lost     == p = manager.downloadPeer
        counted  == manager.connectFailureCount + (IF error \in {"OK", "EPROTO"} THEN 0 ELSE 1)
        failures == IF lost /\ counted > MAX_CONNECT_FAILURES THEN MAX_CONNECT_FAILURES ELSE counted
        dp       == IF lost THEN NoPeer ELSE manager.downloadPeer
        failed   == dp = NoPeer /\ failures = MAX_CONNECT_FAILURES
        timeout  == error = "ETIMEDOUT" /\ (~lost \/ ~manager.syncing \/ connectedPeers = {p})
        txError  == IF failed THEN "ENOTCONN" ELSE IF timeout THEN "ETIMEDOUT" ELSE "OK"
        cancel   == IF txError = "OK" THEN {} ELSE Pending(published)
    IN  /\ Ended(p)
        /\ error \in IF status[p] = "shut" THEN {"OK", "ECONNRESET"}
                     ELSE {"ETIMEDOUT", "ECONNRESET", "EPROTO"}
        /\ peer[p].pongs = <<>>
        /\ status' = [status EXCEPT ![p] = "off"]
        /\ peer' = [peer EXCEPT ![p] = Fresh]
        /\ manager' = [downloadPeer |-> dp, connectFailureCount |-> failures,
                       syncing |-> manager.syncing /\ ~failed]
        /\ txRelays' = ForgetRelays(p)
        /\ published' = Without(published, cancel)
        /\ freed' = freed \cup {published[t].copy : t \in cancel}
        /\ ringing' = ringing \cup Cancelled(cancel, txError)
        /\ UNCHANGED <<txRequests, walletVars, held, using, call, told, netVars, events>>

-----------------------------------------------------------------------------

Init ==
    /\ published = [t \in {} |-> NoCall]
    /\ txRelays = [t \in Tx |-> {}]
    /\ txRequests = [t \in Tx |-> {}]
    /\ wallet = [t \in Tx |-> "absent"]
    /\ copy = [t \in Tx |-> NoCall]
    /\ invalid = {}
    /\ manager = [downloadPeer |-> NoPeer, syncing |-> FALSE, connectFailureCount |-> 0]
    /\ status = [p \in Peers |-> "off"]
    /\ peer = [p \in Peers |-> Fresh]
    /\ held = NoCall
    /\ using = [c \in Calls |-> NoCall]
    /\ call = [c \in Calls |-> "idle"]
    /\ ringing = {}
    /\ told = [c \in Calls |-> <<>>]
    /\ freed = {}
    /\ sent = {}
    /\ network = Foreign
    /\ events = 0

Next ==
    \/ \E c, k \in Calls : \/ PublishTx(c, k)
                           \/ PublishTxNotConnected(c, k)
                           \/ PublishTxCheck(c, k)
    \/ \E c \in Calls : PublishTxChecked(c)
    \/ \E r \in ringing : TxCallback(r)
    \/ \E p \in Peers, t \in Tx : \/ HasTx(p, t)
                                 \/ InvTx(p, t)
                                 \/ RelayedTx(p, t)
                                 \/ RequestedTx(p, t)
                                 \/ DataNotfound(p, t)
                                 \/ BlockConfirms(p, t)
    \/ \E p \in Peers : \/ SendTx(p)
                        \/ Pong(p)
                        \/ Connect(p)
                        \/ PeerConnectedUnfit(p)
                        \/ PeerConnectedOther(p)
                        \/ \E q \in Peers : PeerConnectedDownload(p, q)
                        \/ ChainDownloaded(p)
                        \/ ThreadEnds(p)
                        \/ EndPong(p)
                        \/ \E e \in Errors : PeerDisconnected(p, e)
    \/ \E t \in Tx : Conflict(t)

Spec == Init /\ [][Next]_vars

-----------------------------------------------------------------------------

Entries == [copy : Calls \cup {Relayed}, callback : Calls \cup {NoCall}]

Managers == [downloadPeer : Peers \cup {NoPeer}, syncing : BOOLEAN, connectFailureCount : Nat]

Pongs == {"invDone", "getdataDone", "mempoolDone", "filterDone"}

Contexts ==
    [timer : BOOLEAN, known : SUBSET Tx, synced : BOOLEAN, sentMempool : BOOLEAN,
     pongs : Seq(Pongs), sending : Calls \cup {Relayed, NoCall}]

TypeOK ==
    /\ Listed \subseteq Tx
    /\ published \in [Listed -> Entries]
    /\ txRelays \in [Tx -> SUBSET Peers]
    /\ txRequests \in [Tx -> SUBSET Peers]
    /\ wallet \in [Tx -> WalletState]
    /\ copy \in [Tx -> Calls \cup {Relayed, NoCall}]
    /\ invalid \subseteq Tx
    /\ manager \in Managers
    /\ status \in [Peers -> PeerStatus]
    /\ peer \in [Peers -> Contexts]
    /\ held \in Calls \cup {NoCall}
    /\ using \in [Calls -> Calls \cup {NoCall}]
    /\ call \in [Calls -> {"idle", "checked", "published"}]
    /\ ringing \subseteq [call : Calls, error : Errors]
    /\ told \in [Calls -> Seq(Errors)]
    /\ freed \subseteq Calls \cup {Relayed}
    /\ sent \subseteq Calls \cup {Relayed}
    /\ network \subseteq Tx
    /\ events \in Nat

(***************************************************************************)
(* BRPeerManagerPublishTx implements Publication: a publisher is called    *)
(* back at most once, and not with an error for a transaction that some    *)
(* peer's thread has sent or will send.                                    *)
(***************************************************************************)
Outcome(c) ==
    CASE call[c] = "idle" -> "idle"
      [] call[c] # "idle" /\ told[c] = <<>> -> "pending"
      [] Len(told[c]) = 1 /\ told[c][1] = "OK" -> "ok"
      [] Len(told[c]) = 1 /\ told[c][1] # "OK" -> "failed"
      [] OTHER -> "twice"

Abstract == INSTANCE Publication
    WITH outcome <- [c \in Calls |-> Outcome(c)], sent <- {TxOf[c] : c \in sent \cap Calls}

ImplementsPublication == Abstract!Spec

(***************************************************************************)
(* A transaction passed to BRTransactionFree is not listed, is not the     *)
(* wallet's, and no peer's thread that got it from _peerRequestedTx, and   *)
(* serialises it without the lock, still has it.  Neither is it one that   *)
(* Sender.setMetaData reads because it was told of success.                *)
(***************************************************************************)
FreedNotUsed ==
    \A c \in freed : /\ \A t \in Listed : published[t].copy # c
                     /\ \A t \in Tx : copy[t] # c
                     /\ \A p \in Peers : peer[p].sending # c
                     /\ \A d \in Calls : using[d] = c /\ told[d] # <<>> => told[d][1] # "OK"

\* BRPeerManagerRelayCount: "number of connected peers that have relayed the given unconfirmed
\* transaction": a peer that is gone does not count, even if it comes back.
RelaysAreConnected ==
    \A t \in Tx : \A p \in txRelays[t] : status[p] # "off"

\* A publisher that has been told of success finds its transaction in the wallet.
ToldOkIsKnown ==
    \A c \in Calls : told[c] # <<>> /\ told[c][1] = "OK" => InAllTx(TxOf[c])

\* A call whose callback no part of the manager has any more: _BRPeerManagerAddTxToPublishList
\* returned early, or a block confirmed the transaction.
Silent(c) ==
    /\ call[c] = "published" /\ told[c] = <<>>
    /\ \A r \in ringing : r.call # c
    /\ \A t \in Listed : published[t].callback # c

(***************************************************************************)
(* A publisher that will never be called back, because its transaction was *)
(* listed already or was confirmed first, at least finds it in the wallet: *)
(* it does not wait for a payment that nobody will make.                   *)
(***************************************************************************)
SilentIsKnown == \A c \in Calls : Silent(c) => InAllTx(TxOf[c])

(***************************************************************************)
(* "unconfirmed transactions that aren't in the mempools of any of         *)
(* connected peers have likely dropped off the network": when the last of  *)
(* maxConnectCount connected peers has finished relaying its mempool,      *)
(* _requestUnrelayedTxGetdataDone leaves the wallet only unconfirmed       *)
(* transactions that are being published, that a connected peer has, or    *)
(* that one has yet to answer for.                                         *)
(***************************************************************************)
NoUnrelayedKept ==
    [][\A p \in Peers :
          Pong(p) /\ Head(peer[p].pongs) = "getdataDone" /\ AllSynced(peer') =>
              \A t \in Unconfirmed' \ Pending(published) :
                  (txRelays[t] \cup txRequests[t]) \cap connectedPeers # {}]_vars

\* "assert(tx != NULL && BRTransactionIsSigned(tx))": BRPeerManagerPublishTx is given a transaction,
\* not memory that has been freed.
PublishedIsAlive ==
    [][\A c \in Calls : call[c] = "idle" /\ call'[c] # "idle" => using'[c] \notin freed]_vars
=============================================================================
