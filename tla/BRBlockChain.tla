---------------------------- MODULE BRBlockChain ----------------------------
(***************************************************************************)
(* The block chain that Modules/core/BRPeerManager.c keeps: the blocks in  *)
(* memory, the orphans, the tip, the blocks saved for the next start, and  *)
(* the heights it gives the wallet's transactions.                         *)
(*                                                                         *)
(* Every peer has its own thread.  _peerRelayedBlock holds manager->lock,  *)
(* but releases it before it calls itself for the orphan that follows the  *)
(* block: hand[p] is the orphan that the thread of peer p holds then.      *)
(***************************************************************************)
EXTENDS Integers, FiniteSets, FiniteSetsExt, Functions, Sequences

CONSTANTS
    BlockData,       \* what a block, named by its hash, says: see Block
    Tx,              \* the wallet's transactions
    TX_UNCONFIRMED,  \* INT32_MAX
    Peers,           \* the peers, one thread each
    Announced,       \* the heights that peers announce in their version message
    NoBlock, NoPeer,
    Checkpoints,     \* checkpoint_array, the genesis block included
    StartBlock,      \* the checkpoint to start from, by earliestKeyTime
    BLOCK_DIFFICULTY_INTERVAL,
    DGW_START_BLOCK,
    FarBehind,       \* 500: a degraded filter is replaced when the chain is that far behind
    MaxPongs,        \* bound: the filter updates that await the pongs of one peer
    Recent,          \* a peer does not repeat a block further than this behind the tip
    Resets,          \* do transactions use up the addresses that the filter matches?
    Rescans,         \* does the user rescan?
    Restarts         \* is the app stopped and started again?

(***************************************************************************)
(* BlockData[b] has the fields prev, height (prev->height + 1), txs (the   *)
(* wallet's transactions it confirms), valid (what _BRPeerManagerVerifyBlock*)
(* finds of its difficulty) and old (over a week).  A block header, sent   *)
(* for blocks before the wallet's first key, is a block without            *)
(* transactions; later headers are ignored.                                *)
(***************************************************************************)
Block == DOMAIN BlockData

Height(b) == BlockData[b].height

Genesis == CHOOSE b \in Checkpoints : Height(b) = 0

ASSUME BlockAssumption ==
    \A b \in Block :
        /\ Height(b) \in Nat
        /\ BlockData[b].txs \subseteq Tx
        /\ BlockData[b].prev \in Block => Height(b) = Height(BlockData[b].prev) + 1
        /\ BlockData[b].prev \notin Block => BlockData[b].prev = NoBlock /\ Height(b) = 0

ASSUME CheckpointAssumption ==
    /\ Checkpoints \subseteq Block /\ StartBlock \in Checkpoints
    /\ \E b \in Checkpoints : Height(b) = 0
    /\ BlockData[StartBlock].txs = {}

ASSUME NumberAssumption ==
    /\ BLOCK_DIFFICULTY_INTERVAL \in Nat \ {0}
    /\ DGW_START_BLOCK \in Nat /\ FarBehind \in Nat /\ MaxPongs \in Nat /\ Recent \in Nat
    /\ TX_UNCONFIRMED \in Nat /\ \A b \in Block : Height(b) < TX_UNCONFIRMED
    /\ Announced \subseteq Nat \ {0}

ASSUME NoneAssumption == NoBlock \notin Block /\ NoPeer \notin Peers

VARIABLES
    app,             \* "running", or what NULL it followed: "nullBlock", "nullPeer"
    blocks,          \* manager->blocks: each block in memory, and its prevBlock
    orphans,         \* manager->orphans, one block by its prevBlock
    lastBlock,       \* manager->lastBlock
    estimatedHeight, \* manager->estimatedHeight
    filter,          \* manager->bloomFilter != NULL
    downloadPeer,    \* manager->downloadPeer; isConnected is set and reset with it
    peerLast,        \* BRPeerLastBlock of each connected peer, 0 when not connected
    socket,          \* "closing" after BRPeerDisconnect, "closed" after one more message
    needsUpdate,     \* the peers with PEER_FLAG_NEEDSUPDATE
    pongs,           \* the filter callbacks that await each peer's pongs, oldest first
    hand,            \* the orphan each peer's thread is about to process
    outdated,        \* history: the peers whose orphan precedes the last filter
    txHeight,        \* the blockHeight of each wallet transaction
    saved,           \* the blocks in the persistent store
    bare             \* the blocks in memory that were read from the store: see BRPeerManagerNew

chainVars == <<blocks, lastBlock, estimatedHeight, txHeight, saved, bare>>

filterVars == <<filter, orphans, outdated>>

updateVars == <<needsUpdate, pongs>>

vars == <<app, chainVars, filterVars, updateVars, downloadPeer, peerLast, socket, hand>>

-----------------------------------------------------------------------------
(* Walking the chain: BRSetGet(manager->blocks, &b->prevBlock), again and again. *)

\* b and the blocks found from it until one is not in memory.
Chain(bs, b) ==
    LET C[x \in DOMAIN bs] == {x} \cup (IF bs[x] \in DOMAIN bs THEN C[bs[x]] ELSE {})
    IN  IF b \in DOMAIN bs THEN C[b] ELSE {}

MainChain == Chain(blocks, lastBlock)

Remove(f, S) == Restrict(f, DOMAIN f \ S)

\* BRSetAdd replaces the block with the same hash, here or among the orphans.
Put(f, key, value) == [x \in DOMAIN f \cup {key} |-> IF x = key THEN value ELSE f[x]]

AddBlock(bs, b) == Put(bs, b, BlockData[b].prev)

\* Mutant: the orphans are indexed by their own hash.
AddOrphanByHash(os, b) == Put(os, b, b)

AddOrphan(os, b) == Put(os, BlockData[b].prev, b)

NoOrphans == Restrict(orphans, {})

\* The blocks as BRPeerManagerNew makes them from checkpoint_array: prevBlock is zero.
CheckpointBlocks == [b \in Checkpoints |-> NoBlock]

\* _BRPeerManagerBlockLocators: the 10 most recent blocks, then twice as far back each time.
BlockLocators ==
    {Genesis} \cup {b \in MainChain :
        LET back == Height(lastBlock) - Height(b)
        IN  back < 10 \/ \E m \in 2..back : back = 7 + 2^m}

-----------------------------------------------------------------------------
(* _BRPeerManagerVerifyBlock, for a block whose previous one is in memory. *)

Interval(b) == IF Height(b) < DGW_START_BLOCK THEN BLOCK_DIFFICULTY_INTERVAL ELSE 1

AtTransition(b) == Height(b) % Interval(b) = 0

\* The blocks before b that are in memory, and the previous transition among them.
Before(b) == Chain(blocks, BlockData[b].prev)

HasTransition(b) == \E x \in Before(b) : Height(x) = Height(b) - Interval(b)

Verified(b) ==
    /\ AtTransition(b) => HasTransition(b)
    /\ BlockData[b].valid
    /\ \A c \in Checkpoints : Height(c) = Height(b) => c = b

\* Mutant: it starts at the block's own predecessor.
SpareAllBehind(b) ==
    IF AtTransition(b) /\ HasTransition(b)
    THEN {x \in Before(b) : Height(x) % Interval(b) # 0}
    ELSE {}

\* What it frees: the blocks behind the previous transition that are no transition blocks.
Spare(b) ==
    IF AtTransition(b) /\ HasTransition(b)
    THEN {x \in Before(b) : Height(x) < Height(b) - Interval(b) /\ Height(x) % Interval(b) # 0}
    ELSE {}

Pruned(b) == Remove(blocks, Spare(b))

-----------------------------------------------------------------------------
(***************************************************************************)
(* The bloom filter.  An update waits for two pongs of the download peer:  *)
(* one so that the new filter covers what was sent before it, and one that *)
(* says the filter is loaded.  A pong calls the oldest waiting callback.   *)
(***************************************************************************)
Connected == {p \in Peers : peerLast[p] > 0}

(***************************************************************************)
(* The thread of a peer reads messages until its socket is closed; the one *)
(* that it has read by then is still handled, one at a time.               *)
(***************************************************************************)
Reads(p) == p \in Connected /\ socket[p] # "closed" /\ hand[p] = NoBlock

HandleMessage(p) ==
    socket' = [socket EXCEPT ![p] = IF @ = "closing" THEN "closed" ELSE @]

\* BRPeerDisconnect, by any thread; the socket it leaves behind.
Disconnect(p) == IF socket[p] = "open" THEN "closing" ELSE socket[p]

Holding == {p \in Peers : hand[p] # NoBlock}

Syncing == Height(lastBlock) < estimatedHeight

LoadBloomFilter ==
    /\ filter' = TRUE
    /\ orphans' = NoOrphans
    /\ outdated' = Holding

Awaits(p, cb) == pongs[p] # <<>> /\ Head(pongs[p]).cb = cb

\* The callbacks left when p has answered one, with those that the peers asked now have to answer.
Answered(p, asked) ==
    [q \in Peers |-> (IF q = p THEN Tail(pongs[q]) ELSE pongs[q])
                        \o (IF q \in DOMAIN asked THEN <<asked[q]>> ELSE <<>>)]

\* _BRPeerManagerUpdateFilter
UpdateFilter ==
    IF downloadPeer # NoPeer /\ downloadPeer \notin needsUpdate
    THEN /\ Len(pongs[downloadPeer]) < MaxPongs
         /\ needsUpdate' = needsUpdate \cup {downloadPeer}
         /\ pongs' = [pongs EXCEPT ![downloadPeer] =
                         Append(@, [cb |-> "pingDone", peer |-> downloadPeer])]
    ELSE UNCHANGED updateVars

\* _peerRelayedTx: a transaction used up addresses that the filter does not match.
ResetFilter ==
    /\ Resets /\ app = "running" /\ filter
    /\ \E p \in Peers : Reads(p) /\ HandleMessage(p)
    /\ filter' = FALSE
    /\ UpdateFilter
    /\ UNCHANGED <<app, chainVars, orphans, outdated, downloadPeer, peerLast, hand>>

\* _updateFilterPingDone: the new filter goes to the download peer, or, once synced, to all.
UpdateFilterPingDone(p) ==
    /\ app = "running" /\ Reads(p) /\ Awaits(p, "pingDone")
    /\ HandleMessage(p)
    /\ \/ /\ Syncing /\ downloadPeer = NoPeer
          /\ filter' = FALSE
          /\ pongs' = [pongs EXCEPT ![p] = Tail(@)]
          /\ UNCHANGED <<orphans, outdated>>
       \/ /\ Syncing /\ downloadPeer # NoPeer
          /\ LoadBloomFilter
          /\ pongs' = Answered(p, [q \in {downloadPeer} |->
                                     [cb |-> "loadDone", peer |-> Head(pongs[p]).peer]])
       \/ /\ ~Syncing
          /\ LoadBloomFilter
          /\ pongs' = Answered(p, [q \in Connected |-> [cb |-> "loadDone", peer |-> q]])
    /\ \A q \in Peers : Len(pongs'[q]) <= MaxPongs
    /\ UNCHANGED <<app, chainVars, needsUpdate, downloadPeer, peerLast, hand>>

\* _updateFilterLoadDone: while syncing, the blocks are requested from the download peer again.
UpdateFilterLoadDone(p) ==
    /\ app = "running" /\ Reads(p) /\ Awaits(p, "loadDone")
    /\ HandleMessage(p)
    /\ needsUpdate' = needsUpdate \ {Head(pongs[p]).peer}
    /\ pongs' = [pongs EXCEPT ![p] = Tail(@)]
    /\ app' = IF Syncing /\ downloadPeer = NoPeer THEN "nullPeer" ELSE app
    /\ UNCHANGED <<chainVars, filterVars, downloadPeer, peerLast, hand>>

-----------------------------------------------------------------------------
(* _peerRelayedBlock, one action for each of its branches. *)

HasPrev(b) == BlockData[b].prev \in DOMAIN blocks

\* manager->lock is released with nothing in hand: the block was freed or has no height yet.
NothingNext(p) ==
    /\ hand' = [hand EXCEPT ![p] = NoBlock]
    /\ outdated' = outdated \ {p}
    /\ UNCHANGED estimatedHeight

\* The block was kept, at its height: the orphan that follows it is next.
TakeNext(p, b, os, old) ==
    /\ estimatedHeight' = Max({estimatedHeight, Height(b)})
    /\ hand' = [hand EXCEPT ![p] = IF b \in DOMAIN os THEN os[b] ELSE NoBlock]
    /\ orphans' = Remove(os, {b})
    /\ outdated' = old \ {p}

\* The last count blocks up to b, less the ones before the first difficulty interval.
SaveSet(bs, b, count) ==
    LET last   == {x \in Chain(bs, b) : Height(x) > Height(b) - count}
        lowest == Min({Height(x) : x \in last})
        skip   == (0 - lowest) % BLOCK_DIFFICULTY_INTERVAL
    IN  {x \in last : Height(x) >= lowest + skip}

\* saveBlocks: a single transition block is added, a longer set replaces the store.
SaveBlocks(bs, b, count) ==
    LET set == IF count = 0 THEN {} ELSE SaveSet(bs, b, count)
    IN  saved' = IF Cardinality(set) > 1 THEN set ELSE saved \cup set

FullCount(b) == (Height(b) % BLOCK_DIFFICULTY_INTERVAL) + BLOCK_DIFFICULTY_INTERVAL + 1

\* Chain download is complete: _BRPeerManagerLoadMempools gives the other peers, and the
\* download peer when its filter has degraded, a new filter.
LoadMempools(p, b) ==
    \/ Connected \subseteq {downloadPeer} /\ TakeNext(p, b, orphans, outdated)
    \/ TakeNext(p, b, NoOrphans, Holding)

\* Mutant: the height is that of the tip before the block.
ConfirmAtOldTip(heights, S) ==
    [t \in Tx |-> IF \E b \in S : t \in BlockData[b].txs THEN Height(lastBlock) ELSE heights[t]]

\* BRWalletUpdateTransactions for the transactions of the blocks S, all of one chain.
Confirm(heights, S) ==
    [t \in Tx |-> IF \E b \in S : t \in BlockData[b].txs
                  THEN Height(CHOOSE b \in S : t \in BlockData[b].txs)
                  ELSE heights[t]]

\* Mutant: the first block after the join keeps its transactions.
UnconfirmAfterNext(h) ==
    [t \in Tx |-> IF txHeight[t] > h + 1 THEN TX_UNCONFIRMED ELSE txHeight[t]]

\* BRWalletSetTxUnconfirmedAfter
UnconfirmAfter(h) ==
    [t \in Tx |-> IF txHeight[t] > h THEN TX_UNCONFIRMED ELSE txHeight[t]]

\* A filter update is pending: the block may be incomplete.
IgnoreBlock(p, b) ==
    /\ ~filter
    /\ NothingNext(p)
    /\ UNCHANGED <<app, blocks, orphans, lastBlock, txHeight, saved>>

\* The previous block is unknown: an orphan, unless it is over a week old.
OrphanBlock(p, b) ==
    /\ filter /\ ~HasPrev(b)
    /\ orphans' = IF BlockData[b].old THEN orphans ELSE AddOrphan(orphans, b)
    /\ NothingNext(p)
    /\ UNCHANGED <<app, blocks, lastBlock, txHeight, saved>>

\* The peer is misbehaving, and is disconnected by its own thread.
InvalidBlock(p, b) ==
    /\ filter /\ HasPrev(b) /\ ~Verified(b)
    /\ socket' = [socket EXCEPT ![p] = "closed"]
    /\ blocks' = Pruned(b)
    /\ NothingNext(p)
    /\ UNCHANGED <<app, orphans, lastBlock, txHeight, saved>>

Accepted(b) == filter /\ HasPrev(b) /\ Verified(b)

ExtendsMainChain(p, b) ==
    /\ BlockData[b].prev = lastBlock /\ Accepted(b)
    /\ blocks' = AddBlock(Pruned(b), b)
    /\ lastBlock' = b
    /\ txHeight' = Confirm(txHeight, {b})
    /\ IF Height(b) = estimatedHeight
       THEN LoadMempools(p, b) /\ SaveBlocks(blocks', b, FullCount(b))
       ELSE /\ TakeNext(p, b, orphans, outdated)
            /\ SaveBlocks(blocks', b, IF Height(b) % BLOCK_DIFFICULTY_INTERVAL = 0 THEN 1 ELSE 0)
    /\ UNCHANGED app

\* The block is in memory already: only on the main chain does it confirm transactions.
ExistingBlock(p, b) ==
    LET main == {x \in Chain(Pruned(b), lastBlock) : Height(x) <= Height(b)}
    IN  /\ BlockData[b].prev # lastBlock /\ b \in DOMAIN blocks /\ Accepted(b)
        /\ \/ /\ main = {}
              /\ app' = "nullBlock"
              /\ UNCHANGED <<blocks, orphans, lastBlock, estimatedHeight, hand, outdated, txHeight>>
           \/ /\ main # {}
              /\ txHeight' = IF b \in main THEN Confirm(txHeight, {b}) ELSE txHeight
              /\ blocks' = AddBlock(Pruned(b), b)
              /\ TakeNext(p, b, orphans, outdated)
              /\ UNCHANGED <<app, lastBlock>>
        /\ UNCHANGED saved

NewOnFork(b) == BlockData[b].prev # lastBlock /\ b \notin DOMAIN blocks /\ Accepted(b)

DuringRescan(p, b) ==
    Height(lastBlock) < peerLast[p] /\ Height(b) > Height(lastBlock) + 1

\* It waits with the orphans until the rescan gets there.
MinedDuringRescan(p, b) ==
    /\ DuringRescan(p, b) /\ NewOnFork(b)
    /\ blocks' = Pruned(b)
    /\ TakeNext(p, b, AddOrphan(orphans, b), outdated)
    /\ UNCHANGED <<app, lastBlock, txHeight, saved>>

OldFork(b) == \E c \in Checkpoints : Height(b) <= Height(c)

IgnoreOldFork(p, b) ==
    /\ OldFork(b) /\ ~DuringRescan(p, b) /\ NewOnFork(b)
    /\ blocks' = Pruned(b)
    /\ NothingNext(p)
    /\ UNCHANGED <<app, orphans, lastBlock, txHeight, saved>>

\* Mutant: a fork one block longer does not do.
LongerByTwo(b) == Height(b) > Height(lastBlock) + 1

\* Is the fork longer than the main chain now?
Longer(b) == Height(b) > Height(lastBlock)

ExtendFork(p, b) ==
    /\ ~Longer(b) /\ ~DuringRescan(p, b) /\ ~OldFork(b)
    /\ NewOnFork(b)
    /\ blocks' = AddBlock(Pruned(b), b)
    /\ TakeNext(p, b, orphans, outdated)
    /\ UNCHANGED <<app, lastBlock, txHeight, saved>>

\* Mutant: the transactions of the new main chain keep their heights.
ReorganizeTxUnconfirmed(fork, main) ==
    txHeight' = UnconfirmAfter(Max({Height(x) : x \in fork \cap main}))

(***************************************************************************)
(* Where the fork and the main chain join decides which transactions are   *)
(* unconfirmed and confirmed again.  When the main chain ends, in memory,  *)
(* above the fork no join is found and none is confirmed.                  *)
(***************************************************************************)
ReorganizeTx(fork, main) ==
    IF fork \cap main # {}
    THEN LET join == Max({Height(x) : x \in fork \cap main})
         IN  txHeight' = Confirm(UnconfirmAfter(join), {x \in fork \ bare : Height(x) > join})
    ELSE txHeight' = UnconfirmAfter(Min({Height(x) : x \in main}) - 1)

\* The fork ends first: the walk back dereferences NULL.
JoinIsNull(fork, main) ==
    fork \cap main = {} /\ Min({Height(x) : x \in fork}) >= Min({Height(x) : x \in main})

Reorganize(p, b) ==
    LET bs   == AddBlock(Pruned(b), b)
        fork == Chain(bs, b)
        main == Chain(bs, lastBlock)
    IN  /\ Longer(b) /\ ~DuringRescan(p, b) /\ ~OldFork(b)
        /\ NewOnFork(b)
        /\ \/ /\ JoinIsNull(fork, main)
              /\ app' = "nullBlock"
              /\ UNCHANGED <<blocks, orphans, lastBlock, estimatedHeight, hand, outdated, txHeight,
                             saved>>
           \/ /\ ~JoinIsNull(fork, main)
              /\ blocks' = bs
              /\ ReorganizeTx(fork, main)
              /\ lastBlock' = b
              /\ IF Height(b) = estimatedHeight
                 THEN LoadMempools(p, b) /\ SaveBlocks(bs, b, FullCount(b))
                 ELSE TakeNext(p, b, orphans, outdated) /\ UNCHANGED saved
              /\ UNCHANGED app

\* The observed false positive rate is too high: the filter is rebuilt while it is still used.
DegradedFilter(p) ==
    /\ p = downloadPeer /\ Height(lastBlock) + FarBehind < peerLast[p]
    /\ UpdateFilter

PeerRelayedBlock(p, b) ==
    /\ app = "running" /\ p \in Connected
    /\ DegradedFilter(p) \/ UNCHANGED updateVars
    /\ \/ InvalidBlock(p, b)
       \/ /\ \/ IgnoreBlock(p, b) \/ OrphanBlock(p, b) \/ ExtendsMainChain(p, b)
             \/ ExistingBlock(p, b) \/ MinedDuringRescan(p, b) \/ IgnoreOldFork(p, b)
             \/ ExtendFork(p, b) \/ Reorganize(p, b)
          /\ HandleMessage(p)
    /\ bare' = {x \in bare : x \in DOMAIN blocks' /\ ~(x = b /\ Accepted(b))}
    /\ UNCHANGED <<filter, downloadPeer, peerLast>>

-----------------------------------------------------------------------------
(* Connections, as far as they bear on the chain. *)

\* The existing download peer stays: it, or the chain, is as far as the new peer.
StickWithDownloadPeer(h) ==
    downloadPeer # NoPeer /\ (peerLast[downloadPeer] >= h \/ Height(lastBlock) >= h)

\* A peer that lags is refused; one may become the download peer, or let a better one be it.
PeerConnected(p, h) ==
    /\ app = "running" /\ p \notin Connected
    /\ h + 10 >= Height(lastBlock)
    /\ peerLast' = [peerLast EXCEPT ![p] = h]
    /\ \/ /\ StickWithDownloadPeer(h)
          /\ \/ Height(lastBlock) >= h /\ LoadBloomFilter
             \/ Height(lastBlock) < h /\ UNCHANGED <<filter, orphans, outdated>>
          /\ socket' = [socket EXCEPT ![p] = "open"]
          /\ UNCHANGED <<downloadPeer, estimatedHeight>>
       \/ /\ ~StickWithDownloadPeer(h)
          /\ \E d \in Connected \cup {p} :
                /\ \A q \in Connected \cup {p} : peerLast'[q] <= peerLast'[d]
                /\ downloadPeer' = d
                /\ estimatedHeight' = peerLast'[d]
          /\ socket' = [q \in Peers |-> IF q = p THEN "open"
                                       ELSE IF q = downloadPeer THEN Disconnect(q) ELSE socket[q]]
          /\ LoadBloomFilter
    /\ UNCHANGED <<app, blocks, lastBlock, hand, txHeight, saved, bare, updateVars>>

\* Its callbacks fail, which changes nothing; callbacks elsewhere may keep a pointer to it.
PeerDisconnected(p) ==
    /\ app = "running" /\ p \in Connected /\ hand[p] = NoBlock
    /\ peerLast' = [peerLast EXCEPT ![p] = 0]
    /\ downloadPeer' = IF downloadPeer = p THEN NoPeer ELSE downloadPeer
    /\ socket' = [socket EXCEPT ![p] = "closed"]
    /\ needsUpdate' = needsUpdate \ {p}
    /\ pongs' = [q \in Peers |-> IF q = p THEN <<>> ELSE
                   [i \in DOMAIN pongs[q] |->
                      IF pongs[q][i].peer = p THEN [pongs[q][i] EXCEPT !.peer = NoPeer] ELSE pongs[q][i]]]
    /\ UNCHANGED <<app, chainVars, filterVars, hand>>

\* The download starts again at the checkpoint, with another download peer.
BRPeerManagerRescan ==
    /\ Rescans /\ app = "running" /\ downloadPeer # NoPeer
    /\ \/ StartBlock \in DOMAIN blocks /\ lastBlock' = StartBlock /\ UNCHANGED app
       \/ StartBlock \notin DOMAIN blocks /\ app' = "nullBlock" /\ UNCHANGED lastBlock
    /\ socket' = [socket EXCEPT ![downloadPeer] = Disconnect(downloadPeer)]
    /\ UNCHANGED <<blocks, estimatedHeight, txHeight, saved, bare, filterVars, updateVars, downloadPeer,
                   peerLast, hand>>

-----------------------------------------------------------------------------
(* BRPeerManagerNew: the first start, or the next one with the saved blocks. *)

\* Mutant: any block will do to start from.
NewestSaved ==
    {b \in saved : \A x \in saved : Height(x) <= Height(b)}

\* The last transition block (any of them, if forks left several in the store).
LastTransition ==
    LET transitions == {b \in saved : Height(b) % BLOCK_DIFFICULTY_INTERVAL = 0}
    IN  {b \in transitions : \A x \in transitions : Height(x) <= Height(b)}

\* Of the saved blocks with the same prevBlock the orphans keep the one read last.
SavedOrphans ==
    LET prevs == {BlockData[b].prev : b \in saved}
        kept  == {S \in SUBSET saved : /\ Cardinality(S) = Cardinality(prevs)
                                       /\ prevs = {BlockData[b].prev : b \in S}}
    IN  {[prev \in prevs |-> CHOOSE b \in S : BlockData[b].prev = prev] : S \in kept}

\* b and the blocks that follow it among the orphans.
Follow(os, b) ==
    LET F[x \in Block] == {x} \cup (IF x \in DOMAIN os THEN F[os[x]] ELSE {})
    IN  F[b]

NoConnections ==
    /\ estimatedHeight' = 0
    /\ filter' = FALSE
    /\ downloadPeer' = NoPeer
    /\ peerLast' = [p \in Peers |-> 0]
    /\ socket' = [p \in Peers |-> "closed"]
    /\ needsUpdate' = {}
    /\ pongs' = [p \in Peers |-> <<>>]
    /\ hand' = [p \in Peers |-> NoBlock]
    /\ outdated' = {}

(***************************************************************************)
(* saveBlocks binds the addresses of a block's flags and hashes where it   *)
(* means their bytes: a block that was saved and read again has no         *)
(* transaction of the wallet until it is relayed again.  Those among the   *)
(* orphans are gone before the first block: LoadBloomFilter.               *)
(***************************************************************************)
BRPeerManagerNew ==
    /\ Restarts
    /\ app' = "running"
    /\ \E os \in SavedOrphans :
          \/ /\ LastTransition = {}
             /\ blocks' = CheckpointBlocks
             /\ lastBlock' = StartBlock
             /\ orphans' = os
             /\ bare' = {}
          \/ \E first \in LastTransition :
                LET chain == Follow(os, first)
                IN  /\ blocks' = [b \in chain \cup Checkpoints |->
                                     IF b \in chain THEN BlockData[b].prev ELSE NoBlock]
                    /\ lastBlock' = CHOOSE b \in chain : \A x \in chain : Height(x) <= Height(b)
                    /\ orphans' = Remove(os, {BlockData[b].prev : b \in chain})
                    /\ bare' = {b \in chain : BlockData[b].txs # {}}
    /\ NoConnections
    /\ UNCHANGED <<txHeight, saved>>

Init ==
    /\ app = "running"
    /\ blocks = CheckpointBlocks
    /\ orphans = [b \in {} |-> NoBlock]
    /\ lastBlock = StartBlock
    /\ estimatedHeight = 0
    /\ filter = FALSE
    /\ downloadPeer = NoPeer
    /\ peerLast = [p \in Peers |-> 0]
    /\ socket = [p \in Peers |-> "closed"]
    /\ needsUpdate = {}
    /\ pongs = [p \in Peers |-> <<>>]
    /\ hand = [p \in Peers |-> NoBlock]
    /\ outdated = {}
    /\ txHeight = [t \in Tx |-> TX_UNCONFIRMED]
    /\ saved = {}
    /\ bare = {}

-----------------------------------------------------------------------------
(***************************************************************************)
(* The peers: each answers with blocks of a branch after the last locator  *)
(* it knows, in any order and more than once, and repeats none far behind. *)
(***************************************************************************)
Ancestors == [b \in Block |-> Chain([x \in Block |-> BlockData[x].prev], b)]

Tips == {b \in Block : \A x \in Block : BlockData[x].prev # b}

Relayable ==
    LET locators == BlockLocators
        unknown(tip) == {b \in Ancestors[tip] :
                            \A l \in locators \cap Ancestors[tip] : Height(l) < Height(b)}
    IN  {b \in Block \ {Genesis} : Height(b) + Recent > Height(lastBlock)}
            \cup UNION {unknown(tip) : tip \in Tips}

Deliver(p, b) == Reads(p) /\ PeerRelayedBlock(p, b)

RelayNext(p) == hand[p] # NoBlock /\ PeerRelayedBlock(p, hand[p])

Next ==
    \/ \E b \in Relayable, p \in Peers : Deliver(p, b)
    \/ \E p \in Peers : RelayNext(p)
    \/ ResetFilter
    \/ \E p \in Peers : UpdateFilterPingDone(p)
    \/ \E p \in Peers : UpdateFilterLoadDone(p)
    \/ \E p \in Peers, h \in Announced : PeerConnected(p, h)
    \/ \E p \in Peers : PeerDisconnected(p)
    \/ BRPeerManagerRescan
    \/ BRPeerManagerNew

Spec == Init /\ [][Next]_vars

-----------------------------------------------------------------------------
(* Properties. *)

\* Every variable keeps its type, and an orphan is found under its prevBlock.
TypeOK ==
    /\ app \in {"running", "nullBlock", "nullPeer"}
    /\ DOMAIN blocks \subseteq Block
    /\ \A b \in DOMAIN blocks : blocks[b] \in {BlockData[b].prev, NoBlock}
    /\ \A prev \in DOMAIN orphans : orphans[prev] \in Block /\ BlockData[orphans[prev]].prev = prev
    /\ lastBlock \in Block
    /\ estimatedHeight \in Nat
    /\ filter \in BOOLEAN
    /\ downloadPeer \in Peers \cup {NoPeer}
    /\ peerLast \in [Peers -> Announced \cup {0}]
    /\ socket \in [Peers -> {"open", "closing", "closed"}]
    /\ needsUpdate \subseteq Connected
    /\ \A p \in Peers : pongs[p] # <<>> => p \in Connected
    /\ hand \in [Peers -> Block \cup {NoBlock}]
    /\ outdated \subseteq Peers
    /\ txHeight \in [Tx -> {Height(b) : b \in Block} \cup {TX_UNCONFIRMED}]
    /\ saved \subseteq Block
    /\ bare \subseteq DOMAIN blocks

\* _BRPeerManagerVerifyBlock never refuses a valid block that extends the main chain for want of
\* the previous difficulty transition, whatever was freed, reorganised or restored before.
TransitionHeld ==
    app = "running" =>
        /\ lastBlock \in DOMAIN blocks
        /\ \A b \in Block :
              BlockData[b].prev = lastBlock /\ AtTransition(b) => HasTransition(b)

\* No walk back along prevBlock runs out of blocks where the code does not expect it: in the
\* search for the join point of a fork, and for an existing block on the main chain.
WalksFindBlocks == app # "nullBlock"

\* The main chain is the longest there is.
Synced == \A b \in Block : Height(b) <= Height(lastBlock)

\* Once synced every transaction of a main chain block in memory has that block's height, through
\* forks, orphans processed by any thread, and restarts from a saved chain that was abandoned for
\* good (RestartConfirms is about one that was not).
SyncedConfirmed ==
    Synced => \A b \in MainChain : \A t \in BlockData[b].txs : txHeight[t] = Height(b)

\* Every confirmed transaction is in a block of the branch that the tip is on, in memory still or
\* freed since, and has that block's height: a reorganisation leaves none on the other branch.
ConfirmedOnMainChain ==
    \A t \in Tx : txHeight[t] # TX_UNCONFIRMED =>
        \E b \in Ancestors[lastBlock] : t \in BlockData[b].txs /\ Height(b) = txHeight[t]

\* BRPeerManagerRescan "rescans blocks and transactions after earliestKeyTime": when the chain is
\* complete again, no transaction keeps a height from a branch that the rescan did not follow.
RescanConfirmsAgain == Synced => ConfirmedOnMainChain

\* _BRPeerManagerLoadBloomFilter is to "clear out orphans that may have been received on an old
\* filter": none of them joins the chain with the new one.
OutdatedNeverAdded ==
    [][\A p \in outdated : hand'[p] # hand[p] => hand[p] \notin DOMAIN blocks' \ DOMAIN blocks]_vars

\* "is block in main chain?": the walk back from the tip, after a start from the saved blocks, finds
\* the main chain's block at the height of a block that is relayed again.
RestartWalksFindBlocks == WalksFindBlocks

\* "set transaction heights for new main chain": when a reorganisation has made b the tip, every
\* transaction of the blocks after the join point has its block's height.
NewMainChainConfirmed ==
    [][\A b \in Block \ DOMAIN blocks :
          lastBlock' = b /\ BlockData[b].prev # lastBlock /\ filter' =>
              \A x \in Chain(blocks', b) \ Chain(blocks', lastBlock) :
                  \A t \in BlockData[x].txs : txHeight'[t] = Height(x)]_vars

\* A transaction is confirmed on the saved chain that a start returns to, after a fork that was
\* longer for a while.
RestartConfirms == SyncedConfirmed

\* The tip stays in memory: a block that arrives during a rescan waits "as orphan til we're caught
\* up", and frees no block that the rescan has reached.
RescanKeepsTip == lastBlock \in DOMAIN blocks

\* "if syncing, rerequest blocks": there is a download peer to request them from.
RerequestHasPeer == app # "nullPeer"

(***************************************************************************)
(* Fairness: the thread of a peer goes on with the orphan in its hand, the *)
(* filter update and the connections that are tried again and again        *)
(* succeed, and a peer that can send a block sends it.                     *)
(***************************************************************************)
Fairness ==
    /\ \A p \in Peers : WF_vars(RelayNext(p))
    /\ \A p \in Peers : WF_vars(UpdateFilterPingDone(p)) /\ WF_vars(UpdateFilterLoadDone(p))
    /\ WF_vars(\E p \in Peers, h \in Announced : PeerConnected(p, h))
    /\ \A p \in Peers : WF_vars(socket[p] # "open" /\ PeerDisconnected(p))
    /\ \A b \in Block : SF_vars(filter /\ b \in Relayable /\ \E p \in Peers : Deliver(p, b))

FairSpec == Spec /\ Fairness

\* The wallet catches up with the longest chain, and the tip stays there.
Synchronizes == <>[]Synced

\* "reset bloom filter so it's recreated with new wallet addresses": a synced wallet does not go on
\* without a filter, ignoring every block, while it stays connected to its download peer.
FilterRecreated ==
    ~filter /\ ~Syncing /\ downloadPeer # NoPeer ~> filter \/ downloadPeer = NoPeer

=============================================================================
