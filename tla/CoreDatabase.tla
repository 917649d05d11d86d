---------------------------- MODULE CoreDatabase ----------------------------
(***************************************************************************)
(* What survives the app: bitcorewallet/src/CoreDatabase.swift, with the   *)
(* callbacks of BRWallet.c and BRPeerManager.c that feed it through        *)
(* WalletManager.swift.                                                    *)
(*                                                                         *)
(* The wallet calls back under the manager's lock, and the manager saves   *)
(* blocks after it has released it; each call only puts a job on the       *)
(* database's serial queue.  The app may be stopped between any two steps: *)
(* jobs that have not run are lost, and the next start has the tables.     *)
(*                                                                         *)
(* Of the block chain there is what decides about saving: blocks in        *)
(* memory, the tip, and the branches of BlockData.  Orphans, pruning and   *)
(* filters are in BRBlockChain.  All of Tx are the wallet's own.           *)
(***************************************************************************)
EXTENDS Integers, FiniteSets, FiniteSetsExt, Functions, Sequences

CONSTANTS
    BlockData,       \* the fields prev, height and txs of a block, named by its hash
    Tx,
    TX_UNCONFIRMED,
    Peers,           \* the peers, one thread each
    NoBlock, NoJob,
    Genesis,
    BLOCK_DIFFICULTY_INTERVAL,
    MaxQueue,        \* bound: the jobs that wait
    Removals,        \* are transactions dropped that no peer relays?
    DbFails          \* may a statement fail?

Block == DOMAIN BlockData

Height(b) == BlockData[b].height

ASSUME DatabaseAssumption ==
    /\ Genesis \in Block /\ Height(Genesis) = 0 /\ BlockData[Genesis].prev \notin Block
    /\ NoBlock \notin Block
    /\ \A b \in Block : Height(b) \in Nat /\ BlockData[b].txs \subseteq Tx
    /\ \A b \in Block \ {Genesis} : BlockData[b].prev \in Block /\ Height(b) = Height(BlockData[b].prev) + 1
    /\ TX_UNCONFIRMED \in Nat /\ \A b \in Block : Height(b) < TX_UNCONFIRMED
    /\ BLOCK_DIFFICULTY_INTERVAL \in Nat \ {0}
    /\ MaxQueue \in Nat /\ Removals \in BOOLEAN /\ DbFails \in BOOLEAN

VARIABLES
    app,       \* "running" or "exited"
    height,    \* wallet->allTx: the blockHeight of each transaction it has
    listed,    \* wallet->transactions
    blocks,    \* manager->blocks
    tip,       \* manager->lastBlock
    bare,      \* the blocks in memory that were read from the store: see TxHashes
    saving,    \* the blocks that each peer's thread is about to save, or NoJob
    queue,     \* the jobs of the database's queue
    rows,      \* table ZBRTXMETADATAENTITY: the blockHeight saved with each transaction
    store      \* table ZBRMERKLEBLOCKENTITY, in the order of its primary key

vars == <<app, height, listed, blocks, tip, bare, saving, queue, rows, store>>

-----------------------------------------------------------------------------
(* The branches. *)

Ancestors == [b \in Block |->
    LET A[x \in Block] == {x} \cup (IF x = Genesis THEN {} ELSE A[BlockData[x].prev])
    IN  A[b]]

\* b and the blocks found from it along prevBlock until one is not in memory.
Chain(bs, b) ==
    LET C[x \in Block] == {x} \cup (IF BlockData[x].prev \in bs THEN C[BlockData[x].prev] ELSE {})
    IN  C[b]

\* Successive blocks of one branch, from the highest down.
Downwards(S) ==
    LET heights == {Height(x) : x \in S}
    IN  [i \in 1..(Max(heights) - Min(heights) + 1) |-> CHOOSE x \in S : Height(x) = Max(heights) + 1 - i]

Txs(S) == UNION {BlockData[b].txs : b \in S}

\* BRMerkleBlockTxHashes.  saveBlocks binds the address of the flags and of the hashes where it
\* means their bytes, so a block that was saved and read again has no transaction of the wallet.
TxHashes(b) == IF b \in bare THEN {} ELSE BlockData[b].txs

HeightIn(S, t) == Height(CHOOSE b \in S : t \in BlockData[b].txs)

-----------------------------------------------------------------------------
(* The jobs. *)

TxAdded(t) == [op |-> "added", tx |-> t]

\* left: the rows that are still to be updated.
TxUpdated(S, h) == [op |-> "updated", left |-> S, height |-> h]

TxDeleted(t) == [op |-> "deleted", tx |-> t]

\* intact: no block that the job points to has been freed.
SaveBlocks(S) == [op |-> "blocks", replace |-> Cardinality(S) > 1, blocks |-> S, intact |-> TRUE]

Enqueue(jobs) ==
    /\ Len(queue) + Len(jobs) <= MaxQueue
    /\ queue' = queue \o jobs

\* Freeing b leaves the jobs that point to it behind.
Dangle(job, b) ==
    IF job # NoJob /\ job.op = "blocks" /\ b \in job.blocks THEN [job EXCEPT !.intact = FALSE] ELSE job

-----------------------------------------------------------------------------
(* The wallet's callbacks. *)

\* BRWalletRegisterTransaction, for a transaction that a peer relays.
RelayedTx(t) ==
    /\ app = "running" /\ t \notin DOMAIN height
    /\ height' = [x \in DOMAIN height \cup {t} |-> IF x = t THEN TX_UNCONFIRMED ELSE height[x]]
    /\ listed' = listed \cup {t}
    /\ Enqueue(<<TxAdded(t)>>)
    /\ UNCHANGED <<app, blocks, tip, bare, saving, rows, store>>

\* Mutant: it goes from allTx and stays in the list.
RemoveFromAllTx(t) ==
    /\ Removals /\ app = "running" /\ t \in listed /\ height[t] = TX_UNCONFIRMED
    /\ height' = Restrict(height, DOMAIN height \ {t})
    /\ Enqueue(<<TxDeleted(t)>>)
    /\ UNCHANGED <<app, listed, blocks, tip, bare, saving, rows, store>>

\* BRWalletRemoveTransaction, for an unconfirmed one: it stays in allTx.
RemoveTx(t) ==
    /\ Removals /\ app = "running" /\ t \in listed /\ height[t] = TX_UNCONFIRMED
    /\ listed' = listed \ {t}
    /\ Enqueue(<<TxDeleted(t)>>)
    /\ UNCHANGED <<app, height, blocks, tip, bare, saving, rows, store>>

\* Mutant: a transaction that has a height keeps it.
UpdateUnconfirmed(heights, S, h) ==
    LET changed == {t \in S \cap DOMAIN heights : heights[t] = TX_UNCONFIRMED}
    IN  [heights |-> [t \in DOMAIN heights |-> IF t \in changed THEN h ELSE heights[t]],
         jobs |-> IF changed = {} THEN <<>> ELSE <<TxUpdated(changed, h)>>]

\* BRWalletUpdateTransactions: those of S in allTx that have another height, as a job if there are any.
UpdateTransactions(heights, S, h) ==
    LET changed == {t \in S \cap DOMAIN heights : heights[t] # h}
    IN  [heights |-> [t \in DOMAIN heights |-> IF t \in changed THEN h ELSE heights[t]],
         jobs |-> IF changed = {} THEN <<>> ELSE <<TxUpdated(changed, h)>>]

\* Mutant: txUpdated is not called.
UnconfirmSilently(h) ==
    [heights |-> [t \in DOMAIN height |-> IF t \in listed /\ height[t] > h THEN TX_UNCONFIRMED ELSE height[t]],
     jobs |-> <<>>]

\* BRWalletSetTxUnconfirmedAfter
SetTxUnconfirmedAfter(h) ==
    LET after == {t \in listed : height[t] > h}
    IN  [heights |-> [t \in DOMAIN height |-> IF t \in after THEN TX_UNCONFIRMED ELSE height[t]],
         jobs |-> IF after = {} THEN <<>> ELSE <<TxUpdated(after, TX_UNCONFIRMED)>>]

-----------------------------------------------------------------------------
(* _peerRelayedBlock, as far as it bears on what is saved. *)

\* The last count blocks up to b, less the ones before the first difficulty interval.
SaveSet(bs, b, count) ==
    LET last   == {x \in Chain(bs, b) : Height(x) > Height(b) - count}
        lowest == Min({Height(x) : x \in last})
        skip   == (0 - lowest) % BLOCK_DIFFICULTY_INTERVAL
    IN  {x \in last : Height(x) >= lowest + skip}

FullCount(b) == (Height(b) % BLOCK_DIFFICULTY_INTERVAL) + BLOCK_DIFFICULTY_INTERVAL + 1

\* The download is complete at b, or not; a transition block that extends the chain is saved alone.
SaveCounts(b) ==
    {FullCount(b), IF BlockData[b].prev = tip /\ Height(b) % BLOCK_DIFFICULTY_INTERVAL = 0 THEN 1 ELSE 0}

\* The lock is released, with the blocks to save in hand.
SaveNext(p, bs, b) ==
    \E count \in SaveCounts(b) :
        LET set == IF count = 0 THEN {} ELSE SaveSet(bs, b, count)
        IN  saving' = [saving EXCEPT ![p] = IF set = {} THEN NoJob ELSE SaveBlocks(set)]

ExtendsMainChain(p, b) ==
    LET update == UpdateTransactions(height, BlockData[b].txs, Height(b))
    IN  /\ BlockData[b].prev = tip
        /\ blocks' = blocks \cup {b}
        /\ tip' = b
        /\ height' = update.heights
        /\ Enqueue(update.jobs)
        /\ SaveNext(p, blocks', b)
        /\ UNCHANGED bare

\* Another peer relays it too: the block in memory is freed for the new one.
ExistingBlock(p, b) ==
    LET update == IF b \in Chain(blocks, tip) THEN UpdateTransactions(height, BlockData[b].txs, Height(b))
                                              ELSE [heights |-> height, jobs |-> <<>>]
    IN  /\ b \in blocks /\ BlockData[b].prev # tip
        /\ height' = update.heights
        /\ Len(queue) + Len(update.jobs) <= MaxQueue
        /\ queue' = [i \in DOMAIN queue |-> Dangle(queue[i], b)] \o update.jobs
        /\ saving' = [q \in Peers |-> Dangle(saving[q], b)]
        /\ bare' = bare \ {b}
        /\ UNCHANGED <<blocks, tip>>

ExtendFork(p, b) ==
    /\ b \notin blocks /\ BlockData[b].prev # tip /\ Height(b) <= Height(tip)
    /\ blocks' = blocks \cup {b}
    /\ UNCHANGED <<height, tip, bare, saving, queue>>

\* "set transaction heights for new main chain", of one block
ConfirmBlock(acc, x) ==
    LET update == UpdateTransactions(acc.heights, TxHashes(x), Height(x))
    IN  [heights |-> update.heights, jobs |-> acc.jobs \o update.jobs]

\* and of the first count blocks, which are given from the tip down.
ConfirmDown(first, list, count) ==
    LET C[n \in 0..count] == IF n = 0 THEN first ELSE ConfirmBlock(C[n - 1], list[n])
    IN  C[count]

\* The transactions after the join are unconfirmed, and those of the new main chain confirmed from its
\* tip down.  The join is in memory: see BRBlockChain for when it is not.
Reorganize(p, b) ==
    LET bs    == blocks \cup {b}
        both  == Chain(bs, b) \cap Chain(bs, tip)
        join  == Max({Height(x) : x \in both})
        fork  == {x \in Chain(bs, b) : Height(x) > join}
        all   == ConfirmDown(SetTxUnconfirmedAfter(join), Downwards(fork), Height(b) - join)
    IN  /\ b \notin blocks /\ BlockData[b].prev # tip /\ Height(b) > Height(tip)
        /\ both # {}
        /\ blocks' = bs
        /\ tip' = b
        /\ height' = all.heights
        /\ Enqueue(all.jobs)
        /\ SaveNext(p, bs, b)
        /\ UNCHANGED bare

\* A peer sends a block's transactions before the block is relayed, and no block before the one
\* it follows.
RelayedBlock(p, b) ==
    /\ app = "running" /\ saving[p] = NoJob
    /\ b # Genesis /\ BlockData[b].prev \in blocks
    /\ BlockData[b].txs \subseteq DOMAIN height
    /\ \/ ExtendsMainChain(p, b) \/ ExistingBlock(p, b) \/ ExtendFork(p, b) \/ Reorganize(p, b)
    /\ UNCHANGED <<app, listed, rows, store>>

\* After the unlock: manager->saveBlocks
CallSaveBlocks(p) ==
    /\ app = "running" /\ saving[p] # NoJob
    /\ Enqueue(<<saving[p]>>)
    /\ saving' = [saving EXCEPT ![p] = NoJob]
    /\ UNCHANGED <<app, height, listed, blocks, tip, bare, rows, store>>

-----------------------------------------------------------------------------
(* The database runs the oldest job. *)

Runs(op) == app = "running" /\ queue # <<>> /\ Head(queue).op = op

InsertRow ==
    LET t == Head(queue).tx
    IN  /\ Runs("added")
        \* The job reads the height from the transaction, when it runs.
        /\ \/ rows' = [x \in DOMAIN rows \cup {t} |-> IF x = t THEN height[t] ELSE rows[x]]
           \/ DbFails /\ UNCHANGED rows
        /\ queue' = Tail(queue)
        /\ UNCHANGED <<app, height, listed, blocks, tip, bare, saving, store>>

DeleteRow ==
    /\ Runs("deleted")
    /\ rows' = Restrict(rows, DOMAIN rows \ {Head(queue).tx})
    /\ queue' = Tail(queue)
    /\ UNCHANGED <<app, height, listed, blocks, tip, bare, saving, store>>

\* Each row is a transaction of its own.
UpdateRow ==
    /\ Runs("updated")
    /\ \E t \in Head(queue).left \cap DOMAIN rows :
          /\ rows' = [rows EXCEPT ![t] = Head(queue).height]
          /\ queue' = [queue EXCEPT ![1].left = @ \ {t}]
    /\ UNCHANGED <<app, height, listed, blocks, tip, bare, saving, store>>

\* Mutant: the message is printed, and the app goes on.
UpdatedRowsPrint ==
    /\ Runs("updated") /\ Head(queue).left \cap DOMAIN rows = {}
    /\ queue' = Tail(queue)
    /\ UNCHANGED <<app, height, listed, blocks, tip, bare, saving, rows, store>>

\* "Fewer tx records updated than hashes! This causes tx to go missing!": exit(0)
UpdatedRows ==
    /\ Runs("updated") /\ Head(queue).left \cap DOMAIN rows = {}
    /\ app' = IF Head(queue).left = {} THEN app ELSE "exited"
    /\ queue' = Tail(queue)
    /\ UNCHANGED <<height, listed, blocks, tip, bare, saving, rows, store>>

\* One transaction: the old blocks go only if all the new ones are there.  A block that was freed
\* still reads as it was, or the app is stopped for it.
StoreBlocks ==
    LET job == Head(queue)
    IN  /\ Runs("blocks")
        /\ \/ /\ store' = (IF job.replace THEN <<>> ELSE store) \o Downwards(job.blocks)
              /\ UNCHANGED app
           \/ DbFails /\ UNCHANGED <<app, store>>
           \/ ~job.intact /\ app' = "exited" /\ UNCHANGED store
        /\ queue' = Tail(queue)
        /\ UNCHANGED <<height, listed, blocks, tip, bare, saving, rows>>

-----------------------------------------------------------------------------
(* The next start: BRWalletNew and BRPeerManagerNew with what was saved. *)

\* The first row of those with the highest transition block.
LastTransition ==
    LET transitions == {i \in DOMAIN store : Height(store[i]) % BLOCK_DIFFICULTY_INTERVAL = 0}
        highest == Max({Height(store[i]) : i \in transitions})
    IN  IF transitions = {} THEN NoBlock
        ELSE store[Min({i \in transitions : Height(store[i]) = highest})]

\* The orphan that follows b: of several the last one read.
Following(b) ==
    LET next == {i \in DOMAIN store : BlockData[store[i]].prev = b}
    IN  IF next = {} THEN NoBlock ELSE store[Max(next)]

\* The chain in memory after the next start.
Restored ==
    LET F[b \in Block] == {b} \cup (IF Following(b) = NoBlock THEN {} ELSE F[Following(b)])
    IN  {Genesis} \cup (IF LastTransition = NoBlock THEN {} ELSE F[LastTransition])

RestoredTip == CHOOSE b \in Restored : \A x \in Restored : Height(x) <= Height(b)

Start ==
    /\ app' = "running"
    /\ height' = rows
    /\ listed' = DOMAIN rows
    /\ tip' = RestoredTip
    /\ blocks' = Restored
    /\ bare' = Restored
    /\ saving' = [p \in Peers |-> NoJob]
    /\ queue' = <<>>
    /\ UNCHANGED <<rows, store>>

Init ==
    /\ app = "running"
    /\ height = [t \in {} |-> TX_UNCONFIRMED]
    /\ listed = {}
    /\ blocks = {Genesis}
    /\ tip = Genesis
    /\ bare = {}
    /\ saving = [p \in Peers |-> NoJob]
    /\ queue = <<>>
    /\ rows = [t \in {} |-> TX_UNCONFIRMED]
    /\ store = <<>>

Next ==
    \/ \E t \in Tx : RelayedTx(t) \/ RemoveTx(t)
    \/ \E p \in Peers : CallSaveBlocks(p) \/ \E b \in Block : RelayedBlock(p, b)
    \/ InsertRow \/ DeleteRow \/ UpdateRow \/ UpdatedRows \/ StoreBlocks
    \/ Start

Spec == Init /\ [][Next]_vars

-----------------------------------------------------------------------------
(* Properties. *)

Job ==
    [op : {"added", "deleted"}, tx : Tx]
        \cup [op : {"updated"}, left : SUBSET Tx, height : {Height(b) : b \in Block} \cup {TX_UNCONFIRMED}]
        \cup [op : {"blocks"}, replace : BOOLEAN, blocks : SUBSET Block, intact : BOOLEAN]

TypeOK ==
    /\ app \in {"running", "exited"}
    /\ DOMAIN height \subseteq Tx /\ listed \subseteq DOMAIN height
    /\ tip \in blocks /\ blocks \subseteq Block /\ bare \subseteq blocks
    /\ \A p \in Peers : saving[p] = NoJob \/ saving[p] \in Job
    /\ \A i \in DOMAIN queue : queue[i] \in Job
    /\ DOMAIN rows \subseteq Tx
    /\ \A i \in DOMAIN store : store[i] \in Block

\* The longest branch, which the peers agree on in the end.
Longest == {b \in Block : \A x \in Block : Height(x) <= Height(b)}

(***************************************************************************)
(* No transaction goes missing: wherever the app is stopped, whatever the  *)
(* database refuses, the chain that the next start begins with, and will   *)
(* not download again, has no transaction that is not saved as well.       *)
(***************************************************************************)
SavedChainHasTx ==
    \A best \in Longest : Txs(Ancestors[RestoredTip] \cap Ancestors[best]) \subseteq DOMAIN rows

AllSaved == app = "running" /\ queue = <<>> /\ \A p \in Peers : saving[p] = NoJob

(***************************************************************************)
(* Once synced, with nothing left to save, the wallet lists and has saved  *)
(* every transaction of the main chain at its block's height, through      *)
(* stops in the middle of a reorganisation, lost jobs and late saves.  The *)
(* branch that wins is not one that was saved and overtaken before: see    *)
(* RestartConfirms in BRBlockChain.                                        *)
(***************************************************************************)
SyncedSaved ==
    AllSaved /\ tip \in Longest =>
        \A t \in Txs(Ancestors[tip]) :
            t \in listed \cap DOMAIN rows /\ height[t] = HeightIn(Ancestors[tip], t)

\* With nothing left to save, what is saved is what the wallet has: no row is left of a transaction
\* that was removed, and none has another height, in whatever order the jobs read and wrote.
RowsAreWallet ==
    AllSaved => \A t \in DOMAIN rows : t \in listed /\ rows[t] = height[t]

-----------------------------------------------------------------------------
(* What comments of the code say, and the code does not do. *)

\* A job's blocks are in memory until it has saved them.
BlocksOutliveJob == \A i \in DOMAIN queue : queue[i].op = "blocks" => queue[i].intact
=============================================================================
