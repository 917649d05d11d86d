------------------------------ MODULE BRWallet ------------------------------
(***************************************************************************)
(* The SPV wallet of Modules/core/BRWallet.c: the sorted transaction list, *)
(* the set of every known transaction, the two address chains and what     *)
(* _BRWalletUpdateBalance derives from them.                               *)
(*                                                                         *)
(* Every operation that changes the list is called with the peer manager's *)
(* lock held, so no two of them overlap.  BRWalletUpdateTransactions is a  *)
(* loop under the wallet's own lock and BRWalletRemoveTransaction a        *)
(* recursion that releases it between two levels: both are modelled one    *)
(* iteration at a time, "call" being the activation in progress.           *)
(***************************************************************************)
EXTENDS Integers, FiniteSets, Sequences, SequencesExt

CONSTANTS
    TxData,          \* what a transaction, named by its hash, says: see Tx
    TX_UNCONFIRMED,  \* INT32_MAX, the height of an unconfirmed transaction
    GapLimit,        \* [Chains -> SEQUENCE_GAP_LIMIT_EXTERNAL, .._INTERNAL]
    Stamps,          \* the timestamps told apart; 0 is "not seen by enough peers yet"
    Gaps,            \* the other gap limits BRWalletUnusedAddrs is called with
    MaxAddrs,        \* bound: addresses of a chain, more than any instance needs
    MaxHeight,       \* bound: the highest block
    MaxClock,        \* bound: the last reading of time(NULL)
    MaxBatch         \* bound: hashes in one BRWalletUpdateTransactions call

(***************************************************************************)
(* TxData[t] has the fields inputs (a set of outpoints <<hash, n>>, n      *)
(* counting outputs from 1), outputs (a sequence of [addr, amount]),       *)
(* nonStandard (over TX_MAX_SIZE, a dust output or replace-by-fee) and     *)
(* lockHeight, lockClock (nLockTime as a block height or as a time, 0 when *)
(* it does not apply).  An address is <<chain, index>>.                    *)
(***************************************************************************)
Tx == DOMAIN TxData

Chains == {"external", "internal"}

\* The empty address of an output whose script is not a standard one.
NoAddr == <<"none", 0>>

Heights == 1..MaxHeight

ASSUME HeightAssumption ==
    /\ MaxHeight \in Nat
    /\ TX_UNCONFIRMED \in Nat
    /\ MaxHeight < TX_UNCONFIRMED

ASSUME GapAssumption ==
    /\ GapLimit \in [Chains -> Nat \ {0}]
    /\ Gaps \subseteq Nat \ {0}

ASSUME StampAssumption == 0 \in Stamps

ASSUME BoundAssumption == MaxClock \in Nat /\ MaxBatch \in Nat /\ MaxAddrs \in Nat

ASSUME OutputAssumption ==
    \A t \in Tx : TxData[t].outputs \in Seq([addr : STRING \X Nat, amount : Nat])

VARIABLES
    transactions,    \* wallet->transactions, oldest first
    allTx,           \* wallet->allTx, the transactions the wallet holds
    height,          \* tx->blockHeight of each of them
    timestamp,       \* tx->timestamp of each of them
    blockHeight,     \* wallet->blockHeight
    chain,           \* how many addresses of each chain have been generated
    ledger,          \* what _BRWalletUpdateBalance computed last
    clock,           \* time(NULL)
    call,            \* the operation in progress
    callbacks        \* the callbacks made by the last step, in order

vars == <<transactions, allTx, height, timestamp, blockHeight, chain, ledger,
          clock, call, callbacks>>

-----------------------------------------------------------------------------
(* Transactions and addresses. *)

Spends(t, p) == \E o \in TxData[t].inputs : o[1] = p

Parents(t) == {o[1] : o \in TxData[t].inputs} \cap Tx

Conflicts(t, u) == t # u /\ TxData[t].inputs \cap TxData[u].inputs # {}

\* The outputs of a transaction as outpoints, and what one of them pays.
Outpoints(t) == {t} \X DOMAIN TxData[t].outputs

Address(o) == TxData[o[1]].outputs[o[2]].addr

Amount(o) == TxData[o[1]].outputs[o[2]].amount

Total(S) == MapThenSumSet(Amount, S)

\* BRWalletContainsAddress: wallet->allAddrs is what both chains have generated.
Generated(ch, addr) == addr[1] \in Chains /\ addr[2] < ch[addr[1]]

\* _BRWalletContainsTx: it pays the wallet, or spends what a known one pays the wallet.
ContainsTx(known, ch, t) ==
    \/ \E o \in Outpoints(t) : Generated(ch, Address(o))
    \/ \E o \in TxData[t].inputs :
          o[1] \in known /\ o \in Outpoints(o[1]) /\ Generated(ch, Address(o))

\* BRWalletAmountSentByTx: the wallet's own outputs that t consumes.
AmountSentByTx(known, ch, t) ==
    Total({o \in TxData[t].inputs :
              o[1] \in known /\ o \in Outpoints(o[1]) /\ Generated(ch, Address(o))})

-----------------------------------------------------------------------------
(* The order of wallet->transactions. *)

(***************************************************************************)
(* The tail of _BRWalletTxIsAscending, for two transactions of the same    *)
(* height: does t1 descend from t2, following the inputs of t1 through the *)
(* known transactions?  An ancestor of another height decides at once.     *)
(* Spending is acyclic, so Cardinality(Tx) generations are all of them.    *)
(***************************************************************************)
DescendsFrom(h, known, t1, t2) ==
    LET D[n \in Nat, t \in Tx] ==
            \/ Spends(t, t2)
            \/ /\ n > 0
               /\ ~Spends(t2, t)
               /\ \E p \in Parents(t) \cap known :
                     h[p] > h[t2] \/ (h[p] = h[t2] /\ D[n - 1, p])
    IN  D[Cardinality(Tx), t1]

TxIsAscending(h, known, t1, t2) ==
    \/ h[t1] > h[t2]
    \/ h[t1] = h[t2] /\ DescendsFrom(h, known, t1, t2)

\* _txChainIndex: the last address of the chain that t pays; -1 stands for SIZE_MAX.
TxChainIndex(ch, c, t) ==
    Max({-1} \cup {i \in 0..(ch[c] - 1) : \E o \in Outpoints(t) : Address(o) = <<c, i>>})

\* _BRWalletTxCompare(t1, t2) > 0
SortsAfter(h, known, ch, t1, t2) ==
    \/ TxIsAscending(h, known, t1, t2)
    \/ /\ ~TxIsAscending(h, known, t2, t1)
       /\ LET i == TxChainIndex(ch, "internal", t1)
              j == TxChainIndex(ch, IF i = -1 THEN "external" ELSE "internal", t2)
              k == IF i = -1 THEN TxChainIndex(ch, "external", t1) ELSE i
          IN  j # -1 /\ k > j

\* _BRWalletInsertTx: the scan from the end stops after the p-th transaction of s.
InsertPoint(h, known, ch, s, t, p) ==
    /\ p > 0 => ~SortsAfter(h, known, ch, s[p], t)
    /\ \A i \in (p + 1)..Len(s) : SortsAfter(h, known, ch, s[i], t)

-----------------------------------------------------------------------------
(* _BRWalletUpdateBalance: one pass over the list recomputes everything. *)

EmptyLedger ==
    [balance |-> 0, totalSent |-> 0, totalReceived |-> 0, balanceHist |-> <<>>,
     utxos |-> {}, spentOutputs |-> {}, invalidTx |-> {}, pendingTx |-> {}, usedAddrs |-> {}]

\* Not to be spent before it confirms.
IsPending(l, h, bh, now, t) ==
    /\ h[t] = TX_UNCONFIRMED
    /\ \/ TxData[t].nonStandard
       \/ TxData[t].lockHeight > 0 /\ TxData[t].lockHeight - 1 > bh
       \/ TxData[t].lockClock > now
       \/ Parents(t) \cap l.pendingTx # {}

\* Spends what an earlier transaction of the list spends, or an output of an invalid one.
IsInvalid(l, h, t) ==
    /\ h[t] = TX_UNCONFIRMED
    /\ TxData[t].inputs \cap l.spentOutputs # {} \/ Parents(t) \cap l.invalidTx # {}

\* Mutant: only the outputs just added are checked against the spent ones.
ApplyTxNewOutputsOnly(l, h, ch, t) ==
    LET received == {o \in Outpoints(t) : Generated(ch, Address(o))}
        spent    == l.spentOutputs \cup TxData[t].inputs
        balance  == l.balance + Total(received \ spent)
    IN  [l EXCEPT !.spentOutputs  = spent,
                  !.usedAddrs     = @ \cup {Address(o) : o \in Outpoints(t)},
                  !.utxos         = @ \cup (received \ spent),
                  !.balance       = balance,
                  !.totalReceived = @ + balance - l.balance,
                  !.balanceHist   = Append(@, balance)]

ApplyTx(l, h, ch, t) ==
    LET named    == {o \in Outpoints(t) : Address(o) # NoAddr}
        received == {o \in named : Generated(ch, Address(o))}
        spent    == l.spentOutputs \cup TxData[t].inputs
        gone     == (l.utxos \cup received) \cap spent
        balance  == l.balance + Total(received) - Total(gone)
    IN  [l EXCEPT !.spentOutputs  = spent,
                  !.usedAddrs     = @ \cup {Address(o) : o \in named},
                  !.utxos         = (@ \cup received) \ gone,
                  !.balance       = balance,
                  !.totalReceived = @ + Max({0, balance - l.balance}),
                  !.totalSent     = @ + Max({0, l.balance - balance}),
                  !.balanceHist   = Append(@, balance)]

\* Mutant: a pending transaction is remembered as such, and counted.
LedgerStepCountsPending(l, h, ch, bh, now, t) ==
    IF IsInvalid(l, h, t)
    THEN [l EXCEPT !.invalidTx = @ \cup {t}, !.balanceHist = Append(@, l.balance)]
    ELSE [ApplyTx(l, h, ch, t) EXCEPT
             !.pendingTx = @ \cup (IF IsPending(l, h, bh, now, t) THEN {t} ELSE {})]

LedgerStep(l, h, ch, bh, now, t) ==
    IF IsInvalid(l, h, t)
    THEN [l EXCEPT !.invalidTx = @ \cup {t}, !.balanceHist = Append(@, l.balance)]
    ELSE IF IsPending(l, h, bh, now, t)
    THEN [l EXCEPT !.spentOutputs = @ \cup TxData[t].inputs,
                   !.pendingTx    = @ \cup {t},
                   !.balanceHist  = Append(@, l.balance)]
    ELSE ApplyTx(l, h, ch, t)

UpdateBalance(s, h, ch, bh, now) ==
    LET L[n \in 0..Len(s)] ==
            IF n = 0 THEN EmptyLedger ELSE LedgerStep(L[n - 1], h, ch, bh, now, s[n])
    IN  L[Len(s)]

\* BRWalletTransactionIsValid: no input of t is spent already, nor of any unconfirmed ancestor.
TransactionIsValid(l, h, known, t) ==
    LET V[n \in Nat, u \in Tx] ==
            \/ h[u] # TX_UNCONFIRMED
            \/ /\ IF u \in known THEN u \notin l.invalidTx
                                 ELSE TxData[u].inputs \cap l.spentOutputs = {}
               /\ n > 0 => \A p \in Parents(u) \cap known : V[n - 1, p]
    IN  V[Cardinality(Tx), t]

-----------------------------------------------------------------------------
(* The operations. *)

Listed == {transactions[i] : i \in DOMAIN transactions}

NoCall == [op |-> "none"]

Idle == call = NoCall

\* BRWalletNew without saved transactions: the two gaps are generated, nothing else.
Init ==
    /\ transactions = <<>>
    /\ allTx = {}
    /\ height = [t \in Tx |-> TX_UNCONFIRMED]
    /\ timestamp = [t \in Tx |-> 0]
    /\ blockHeight = 0
    /\ chain = GapLimit
    /\ ledger = EmptyLedger
    /\ clock = 0
    /\ call = NoCall
    /\ callbacks = <<>>

\* The chain ends with gap addresses that no transaction has used.
HasGap(used, c, gap, n) ==
    n >= gap /\ \A i \in (n - gap)..(n - 1) : <<c, i>> \notin used

\* Addresses are generated one by one until the gap is there: n is how many there are then.
GrowsTo(used, c, gap, count, n) ==
    /\ HasGap(used, c, gap, n)
    /\ \A m \in count..(n - 1) : ~HasGap(used, c, gap, m)

BRWalletUnusedAddrs(c, gap) ==
    /\ call.op # "update"
    /\ \E n \in chain[c]..MaxAddrs :
          /\ GrowsTo(ledger.usedAddrs, c, gap, chain[c], n)
          /\ chain' = [chain EXCEPT ![c] = n]
    /\ callbacks' = <<>>
    /\ UNCHANGED <<transactions, allTx, height, timestamp, blockHeight, ledger, clock, call>>

\* A wallet transaction is listed, the balance recomputed, then both gaps refilled.
AddTx(t) ==
    /\ allTx' = allTx \cup {t}
    /\ \E p \in 0..Len(transactions) :
          /\ InsertPoint(height', allTx', chain, transactions, t, p)
          /\ transactions' = InsertAt(transactions, p + 1, t)
    /\ ledger' = UpdateBalance(transactions', height', chain, blockHeight, clock)
    /\ LET used == ledger'.usedAddrs
       IN  \E e \in chain["external"]..MaxAddrs, i \in chain["internal"]..MaxAddrs :
              /\ GrowsTo(used, "external", GapLimit["external"], chain["external"], e)
              /\ GrowsTo(used, "internal", GapLimit["internal"], chain["internal"], i)
              /\ chain' = [chain EXCEPT !["external"] = e, !["internal"] = i]
    /\ callbacks' = << [cb |-> "balanceChanged", balance |-> ledger'.balance],
                       [cb |-> "txAdded", tx |-> t] >>

\* Mutant: a transaction that is already known is added again.
RegisterWithoutLookup(t) ==
    /\ Idle
    /\ Len(transactions) < 2 * Cardinality(Tx)
    /\ ContainsTx(allTx, chain, t)
    /\ height' = [height EXCEPT ![t] = TX_UNCONFIRMED]
    /\ timestamp' = [timestamp EXCEPT ![t] = 0]
    /\ AddTx(t)
    /\ UNCHANGED <<blockHeight, clock, call>>

\* A transaction just parsed from a peer's message, or just signed by the user.
BRWalletRegisterTransaction(t) ==
    /\ Idle
    /\ \/ /\ t \in allTx
          /\ callbacks' = <<>>
          /\ UNCHANGED <<transactions, allTx, height, timestamp, chain, ledger>>
       \/ /\ t \notin allTx
          /\ height' = [height EXCEPT ![t] = TX_UNCONFIRMED]
          /\ timestamp' = [timestamp EXCEPT ![t] = 0]
          /\ \/ ContainsTx(allTx, chain, t) /\ AddTx(t)
             \/ /\ ~ContainsTx(allTx, chain, t)
                /\ allTx' = allTx \cup {t}
                /\ callbacks' = <<>>
                /\ UNCHANGED <<transactions, chain, ledger>>
    /\ UNCHANGED <<blockHeight, clock, call>>

\* BRWalletUpdateTransactions takes the lock; its loop is UpdateOne, its end UpdateDone.
BRWalletUpdateTransactions(txHashes, h, ts) ==
    /\ Idle
    /\ blockHeight' = IF h > blockHeight THEN h ELSE blockHeight
    /\ call' = [op |-> "update", todo |-> txHashes, height |-> h, timestamp |-> ts,
                hashes |-> <<>>, needsUpdate |-> FALSE]
    /\ callbacks' = <<>>
    /\ UNCHANGED <<transactions, allTx, height, timestamp, chain, ledger, clock>>

\* Mutant: the height changes where the transaction is.
ResortInPlace(t) == t \in Tx /\ UNCHANGED transactions

\* The transaction is taken out and inserted again, so that the list stays sorted.
Resort(t) ==
    \/ /\ t \in Listed
       /\ \E k \in DOMAIN transactions, p \in 0..(Len(transactions) - 1) :
             LET rest == RemoveAt(transactions, k)
             IN  /\ transactions[k] = t
                 /\ InsertPoint(height', allTx, chain, rest, t, p)
                 /\ transactions' = InsertAt(rest, p + 1, t)
    \/ t \notin Listed /\ UNCHANGED transactions

\* Mutant: confirming a transaction held to be invalid changes nothing else.
NeedsUpdatePendingOnly(t) == t \in ledger.pendingTx

\* Does the new height of t change what the last pass over the list concluded?
NeedsUpdate(t) == t \in ledger.pendingTx \cup ledger.invalidTx

UpdateOne ==
    /\ call.op = "update" /\ call.todo # <<>>
    /\ LET t     == Head(call.todo)
           same  == height[t] = call.height /\ timestamp[t] = call.timestamp
           after == [call EXCEPT !.todo = Tail(@)]
       IN  \/ /\ t \notin allTx \/ same
              /\ call' = after
              /\ UNCHANGED <<transactions, allTx, height, timestamp>>
           \/ /\ t \in allTx /\ ~same
              /\ \/ /\ ContainsTx(allTx, chain, t)
                    /\ height' = [height EXCEPT ![t] = call.height]
                    /\ timestamp' = [timestamp EXCEPT ![t] = call.timestamp]
                    /\ Resort(t)
                    /\ call' = [after EXCEPT
                                  !.hashes = Append(@, t),
                                  !.needsUpdate = @ \/ NeedsUpdate(t)]
                    /\ UNCHANGED allTx
                 \/ \* confirmed, and none of the wallet's: it is freed
                    /\ ~ContainsTx(allTx, chain, t)
                    /\ call.height # TX_UNCONFIRMED
                    /\ allTx' = allTx \ {t}
                    /\ call' = after
                    /\ UNCHANGED <<transactions, height, timestamp>>
                 \/ /\ ~ContainsTx(allTx, chain, t)
                    /\ call.height = TX_UNCONFIRMED
                    /\ height' = [height EXCEPT ![t] = call.height]
                    /\ timestamp' = [timestamp EXCEPT ![t] = call.timestamp]
                    /\ call' = after
                    /\ UNCHANGED <<transactions, allTx>>
    /\ callbacks' = <<>>
    /\ UNCHANGED <<blockHeight, chain, ledger, clock>>

UpdateDone ==
    /\ call.op = "update" /\ call.todo = <<>>
    /\ ledger' = IF call.needsUpdate
                 THEN UpdateBalance(transactions, height, chain, blockHeight, clock)
                 ELSE ledger
    /\ callbacks' = IF call.hashes = <<>> THEN <<>>
                    ELSE << [cb |-> "txUpdated", hashes |-> call.hashes,
                             height |-> call.height, timestamp |-> call.timestamp] >>
    /\ call' = NoCall
    /\ UNCHANGED <<transactions, allTx, height, timestamp, blockHeight, chain, clock>>

\* Mutant: 0 marks a transaction as unconfirmed.
UnconfirmedIsZero(i) ==
    [t \in Tx |-> IF \E j \in (i + 1)..Len(transactions) : transactions[j] = t
                  THEN 0 ELSE height[t]]

\* The heights once every transaction after the i-th is unconfirmed again.
UnconfirmedFrom(i) ==
    [t \in Tx |-> IF \E j \in (i + 1)..Len(transactions) : transactions[j] = t
                  THEN TX_UNCONFIRMED ELSE height[t]]

\* A chain reorganisation: the transactions after the join point, a suffix of the list.
BRWalletSetTxUnconfirmedAfter(h) ==
    /\ Idle
    /\ blockHeight' = h
    /\ \E i \in 0..Len(transactions) :
          /\ i > 0 => height[transactions[i]] <= h
          /\ \A j \in (i + 1)..Len(transactions) : height[transactions[j]] > h
          /\ LET suffix == SubSeq(transactions, i + 1, Len(transactions))
             IN  /\ height' = UnconfirmedFrom(i)
                 /\ IF suffix = <<>>
                    THEN ledger' = ledger /\ callbacks' = <<>>
                    ELSE /\ ledger' = UpdateBalance(transactions, height', chain, h, clock)
                         /\ callbacks' = << [cb |-> "txUpdated", hashes |-> suffix,
                                             height |-> TX_UNCONFIRMED, timestamp |-> 0] >>
    /\ UNCHANGED <<transactions, allTx, timestamp, chain, clock, call>>

BRWalletRemoveTransaction(t) ==
    /\ Idle
    /\ call' = [op |-> "remove", stack |-> <<t>>]
    /\ callbacks' = <<>>
    /\ UNCHANGED <<transactions, allTx, height, timestamp, blockHeight, chain, ledger, clock>>

\* Mutant: only strictly newer transactions are searched.
DependentsNewer(t) ==
    {u \in Listed : height[u] > height[t] /\ Spends(u, t)}

\* The listed transactions that spend t, found from the end down to those older than t.
Dependents(t) ==
    LET suffix == {k \in DOMAIN transactions :
                      \A m \in k..Len(transactions) : height[transactions[m]] >= height[t]}
        deps   == {k \in suffix : transactions[k] # t /\ Spends(transactions[k], t)}
    IN  {transactions[k] : k \in deps}

\* The removed transaction was the user's own: tell the user, and whether to rescan.
NotifyUser(t) ==
    /\ AmountSentByTx(allTx, chain, t) > 0
    /\ TransactionIsValid(ledger', height, allTx, t)

RecommendRescan(t) ==
    /\ NotifyUser(t)
    /\ \A o \in TxData[t].inputs : o[1] \in allTx /\ height[o[1]] # TX_UNCONFIRMED

\* Mutant: the transaction is reported as deleted and stays in the list.
DropTxKeepsListed(t) ==
    /\ ledger' = UpdateBalance(transactions, height, chain, blockHeight, clock)
    /\ callbacks' = << [cb |-> "txDeleted", tx |-> t, notifyUser |-> FALSE,
                        recommendRescan |-> FALSE] >>
    /\ UNCHANGED transactions

DropTx(t) ==
    /\ \/ \E k \in DOMAIN transactions :
             transactions[k] = t /\ transactions' = RemoveAt(transactions, k)
       \/ t \notin Listed /\ UNCHANGED transactions
    /\ ledger' = UpdateBalance(transactions', height, chain, blockHeight, clock)
    /\ callbacks' = << [cb |-> "balanceChanged", balance |-> ledger'.balance],
                       [cb |-> "txDeleted", tx |-> t, notifyUser |-> NotifyUser(t),
                        recommendRescan |-> RecommendRescan(t)] >>

\* One activation of BRWalletRemoveTransaction: its dependents first, then itself.
RemoveOne ==
    /\ call.op = "remove" /\ call.stack # <<>>
    /\ LET t == Head(call.stack)
       IN  \/ /\ t \notin allTx
              /\ call' = [call EXCEPT !.stack = Tail(@)]
              /\ callbacks' = <<>>
              /\ UNCHANGED <<transactions, ledger>>
           \/ /\ t \in allTx /\ Dependents(t) # {}
              /\ call' = [call EXCEPT
                            !.stack = SelectSeq(transactions, LAMBDA u : u \in Dependents(t)) \o @]
              /\ callbacks' = <<>>
              /\ UNCHANGED <<transactions, ledger>>
           \/ /\ t \in allTx /\ Dependents(t) = {}
              /\ DropTx(t)
              /\ call' = [call EXCEPT !.stack = Tail(@)]
    /\ UNCHANGED <<allTx, height, timestamp, blockHeight, chain, clock>>

RemoveDone ==
    /\ call.op = "remove" /\ call.stack = <<>>
    /\ call' = NoCall
    /\ callbacks' = <<>>
    /\ UNCHANGED <<transactions, allTx, height, timestamp, blockHeight, chain, ledger, clock>>

-----------------------------------------------------------------------------
(***************************************************************************)
(* What the callers, all in BRPeerManager.c, pass.  The block chain never  *)
(* confirms two spenders of one output, and a listed transaction changes   *)
(* its block only through BRWalletSetTxUnconfirmedAfter; an unconfirmed    *)
(* height comes with a transaction that is unconfirmed; what is removed is *)
(* an unconfirmed wallet transaction.                                      *)
(***************************************************************************)
Batches == {s \in BoundedSeq(Tx, MaxBatch) : s # <<>> /\ IsInjective(s)}

Minable(s, h) ==
    \A t \in ToSet(s) :
        /\ t \in Listed => height[t] \in {TX_UNCONFIRMED, h}
        /\ \A u \in Tx : Conflicts(t, u) =>
              u \notin ToSet(s) /\ ~(u \in Listed /\ height[u] # TX_UNCONFIRMED)

NewBlock ==
    \E s \in Batches, h \in Heights, ts \in Stamps :
        Minable(s, h) /\ BRWalletUpdateTransactions(s, h, ts)

MarkUnconfirmed ==
    \E t \in allTx, ts \in Stamps :
        height[t] = TX_UNCONFIRMED /\ BRWalletUpdateTransactions(<<t>>, TX_UNCONFIRMED, ts)

DropUnrelayed ==
    \E t \in allTx : /\ height[t] = TX_UNCONFIRMED
                     /\ ContainsTx(allTx, chain, t)
                     /\ BRWalletRemoveTransaction(t)

Tick ==
    /\ clock < MaxClock
    /\ clock' = clock + 1
    /\ callbacks' = <<>>
    /\ UNCHANGED <<transactions, allTx, height, timestamp, blockHeight, chain, ledger, call>>

Next ==
    \/ \E t \in Tx : BRWalletRegisterTransaction(t)
    \/ \E c \in Chains, gap \in Gaps : BRWalletUnusedAddrs(c, gap)
    \/ NewBlock
    \/ MarkUnconfirmed
    \/ UpdateOne
    \/ UpdateDone
    \/ \E h \in 0..MaxHeight : BRWalletSetTxUnconfirmedAfter(h)
    \/ DropUnrelayed
    \/ RemoveOne
    \/ RemoveDone
    \/ Tick

Spec == Init /\ [][Next]_vars

\* The thread that called an operation runs until it returns.
FairSpec == Spec /\ WF_vars(UpdateOne \/ UpdateDone \/ RemoveOne \/ RemoveDone)

-----------------------------------------------------------------------------
(* Properties. *)

\* Every variable keeps its type.
TypeOK ==
    /\ transactions \in Seq(Tx)
    /\ allTx \subseteq Tx
    /\ height \in [Tx -> Heights \cup {TX_UNCONFIRMED}]
    /\ timestamp \in [Tx -> Stamps]
    /\ blockHeight \in 0..MaxHeight \cup {TX_UNCONFIRMED}
    /\ chain \in [Chains -> Nat]
    /\ clock \in 0..MaxClock
    /\ \/ call = NoCall
       \/ call \in [op : {"update"}, todo : Seq(Tx), height : Heights \cup {TX_UNCONFIRMED},
                    timestamp : Stamps, hashes : Seq(Tx), needsUpdate : BOOLEAN]
       \/ call = [op |-> "remove", stack |-> call.stack]

\* _BRWalletInsertTx keeps the list sorted by date, oldest first, through every
\* registration, confirmation, reorganisation and removal.
HeightSorted ==
    \A i, j \in 1..Len(transactions) :
        i <= j => height[transactions[i]] <= height[transactions[j]]

\* A transaction is listed once, is never freed while it is listed (BRWalletUpdateTransactions
\* frees what _BRWalletContainsTx denies) and stays associated with the wallet.
ListedOnceAndHeld ==
    /\ \A i, j \in 1..Len(transactions) : transactions[i] = transactions[j] => i = j
    /\ Listed \subseteq allTx
    /\ \A t \in Listed : ContainsTx(allTx, chain, t)

\* Mutant: the scan stops at a transaction of the given height.
TxUnconfirmedBeforeStrict(h) ==
    {transactions[k] : k \in {k \in DOMAIN transactions :
                                 \A m \in k..Len(transactions) : height[transactions[m]] > h}}

\* BRWalletTxUnconfirmedBefore scans from the end and stops at the first older transaction.
TxUnconfirmedBefore(h) ==
    {transactions[k] : k \in {k \in DOMAIN transactions :
                                 \A m \in k..Len(transactions) : height[transactions[m]] >= h}}

\* That scan misses none: the bloom filter and the peer manager's queries rely on it.
UnconfirmedBeforeComplete ==
    \A h \in Heights \cup {TX_UNCONFIRMED} :
        TxUnconfirmedBefore(h) = {t \in Listed : height[t] >= h}

\* The balance is what the spendable outputs add up to, and what was received less what was
\* sent; those outputs are wallet outputs of listed transactions, neither invalid nor pending.
BalanceIsUtxos ==
    /\ ledger.balance = Total(ledger.utxos)
    /\ ledger.balance = ledger.totalReceived - ledger.totalSent
    /\ \A o \in ledger.utxos :
          /\ o[1] \in Listed \ (ledger.invalidTx \cup ledger.pendingTx)
          /\ Generated(chain, Address(o))

\* Never does the wallet offer a coin that a listed transaction in good standing has spent.
CoinsNotSpentTwice ==
    \A t \in Listed \ (ledger.invalidTx \cup ledger.pendingTx) :
        TxData[t].inputs \cap ledger.utxos = {}

\* Of two listed transactions that spend the same coin one is known to be invalid, and never
\* the one the block chain confirmed, after a reorganisation too.
OneSpenderValid ==
    call.op # "update" =>
        /\ \A t, u \in Listed : Conflicts(t, u) => t \in ledger.invalidTx \/ u \in ledger.invalidTx
        /\ \A t \in ledger.invalidTx \cup ledger.pendingTx : height[t] = TX_UNCONFIRMED

\* When a transaction leaves the list no unconfirmed transaction that spends it stays:
\* BRWalletRemoveTransaction takes the ones that depend on its outputs along.
NoDependentLeftBehind ==
    [][\A t \in Listed \ Listed' : \A u \in Listed' :
          height[u] = TX_UNCONFIRMED => ~Spends(u, t)]_vars

\* Every operation returns: the recursion of BRWalletRemoveTransaction ends, even though it
\* calls itself again for the same hash after its dependents are gone.
OperationsReturn == ~Idle ~> Idle

-----------------------------------------------------------------------------
(* What comments of BRWallet.c say and the code does not do. *)

\* "removes a tx from the wallet" and "returns the transaction with the given hash if it's been
\* registered in the wallet": the wallet's transactions that it knows are the listed ones.
KnownIsListed ==
    Idle => \A t \in allTx : ContainsTx(allTx, chain, t) => t \in Listed

\* "historical wallet balance after the given transaction": BRWalletBalanceAfterTx returns
\* the balance that the transactions up to and including it add up to.
HistoryFollowsList ==
    Idle => \A i \in DOMAIN transactions :
                ledger.balanceHist[i] =
                    UpdateBalance(SubSeq(transactions, 1, i), height, chain, blockHeight, clock).balance

\* "future lockTime": an unconfirmed transaction that no block up to MaxHeight may hold is
\* pending (unless it is invalid).
FutureLockTimePending ==
    Idle => \A t \in Listed :
                height[t] = TX_UNCONFIRMED /\ TxData[t].lockHeight - 1 > MaxHeight
                    => t \in ledger.pendingTx \cup ledger.invalidTx

\* "if this is for a transaction we sent, and it wasn't already known to be invalid, notify user".
KnownInvalidNotNotified ==
    [][\A i \in DOMAIN callbacks' :
          callbacks'[i].cb = "txDeleted" /\ callbacks'[i].notifyUser
              => callbacks'[i].tx \notin ledger.invalidTx]_vars

\* "current wallet balance, not including transactions known to be invalid".
InvalidNotCounted ==
    Idle => \A o \in ledger.utxos : TransactionIsValid(ledger, height, allTx, o[1])

\* "writes unspent outputs to utxos": none of them is in the set of spent outputs.
UtxosUnspent == ledger.utxos \cap ledger.spentOutputs = {}

\* "when a wallet address is used in a transaction, generate a new address to replace it".
GapKept == Idle => \A c \in Chains : HasGap(ledger.usedAddrs, c, GapLimit[c], chain[c])

=============================================================================
