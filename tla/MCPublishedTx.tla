--------------------------- MODULE MCPublishedTx ---------------------------
(* Small instances of BRPublishedTx for TLC. *)
EXTENDS BRPublishedTx, TLC

PeerSymmetry == Permutations(Peers)

\* Two attempts at the same transaction.
RetryOf == [c1 |-> "t", c2 |-> "t"]
OneOf == [c1 |-> "t"]
NoInputs == [t \in Tx |-> {}]
\* A transaction and one that spends its change.
ChainOf == [c1 |-> "u", c2 |-> "t"]
ChainInputs == [u |-> {}, t |-> {"u"}]
=============================================================================
