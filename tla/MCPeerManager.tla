--------------------------- MODULE MCPeerManager ---------------------------
(* Small instances of BRPeerManager for TLC. *)
EXTENDS BRPeerManager, TLC

Symmetric == Permutations(Peers) \cup Permutations(Workers)

\* No guard reads syncState, and neither do the invariants checked with this view.
Unreported == <<peer, manager, thread>>
=============================================================================
