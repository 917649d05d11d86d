---------------------------- MODULE MCBlockChain ----------------------------
(* Small block trees for TLC. *)
EXTENDS BRBlockChain, TLC

Mined(prev, height, txs) ==
    [prev |-> prev, height |-> height, txs |-> txs, valid |-> TRUE, old |-> FALSE]

\* Two branches after the first block; u is in both, at different heights, and w in one.
ForkData ==
    [g  |-> Mined(NoBlock, 0, {}),
     a1 |-> Mined("g", 1, {"t"}),
     a2 |-> Mined("a1", 2, {"u", "w"}),
     b2 |-> Mined("a1", 2, {"v"}),
     b3 |-> Mined("b2", 3, {"u"})]

\* A checkpoint at height 2, with a fork below it, a block that differs from it, and blocks of two
\* branches above it, one of them over a week old and one with a wrong difficulty target.
CheckpointData ==
    [g  |-> Mined(NoBlock, 0, {}),
     a1 |-> Mined("g", 1, {"t"}),
     c1 |-> Mined("g", 1, {"v"}),
     c2 |-> Mined("c1", 2, {}),
     a2 |-> [Mined("a1", 2, {"u"}) EXCEPT !.old = TRUE],
     a3 |-> Mined("a2", 3, {"v"}),
     x3 |-> [Mined("a2", 3, {}) EXCEPT !.valid = FALSE],
     a4 |-> Mined("a3", 4, {})]

\* Difficulty transitions at heights 2 and 4; the fork is about the second of them.
TransitionData ==
    [g  |-> Mined(NoBlock, 0, {}),
     a1 |-> Mined("g", 1, {"t"}),
     a2 |-> Mined("a1", 2, {}),
     a3 |-> Mined("a2", 3, {"u"}),
     a4 |-> Mined("a3", 4, {"v", "w"}),
     b4 |-> Mined("a3", 4, {}),
     b5 |-> Mined("b4", 5, {"v"})]

\* Two branches from the start, of which the first is overtaken and wins in the end.
BackData ==
    [g  |-> Mined(NoBlock, 0, {}),
     a1 |-> Mined("g", 1, {"t"}),
     a2 |-> Mined("a1", 2, {}),
     a3 |-> Mined("a2", 3, {}),
     b1 |-> Mined("g", 1, {}),
     b2 |-> Mined("b1", 2, {})]

\* The peers are alike: no property tells them apart.
PeerSymmetry == Permutations(Peers)
=============================================================================
