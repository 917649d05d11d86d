----------------------------- MODULE MCDatabase -----------------------------
(* A small block tree for TLC. *)
EXTENDS CoreDatabase, TLC

Mined(prev, h, txs) == [prev |-> prev, height |-> h, txs |-> txs]

\* A difficulty transition at height 2, and a fork after the first block: t is below it, u on both
\* branches at different heights, v on one.
ForkData ==
    [g  |-> Mined(NoBlock, 0, {}),
     a1 |-> Mined("g", 1, {"t"}),
     a2 |-> Mined("a1", 2, {"u", "v"}),
     b2 |-> Mined("a1", 2, {}),
     b3 |-> Mined("b2", 3, {"u"})]

\* The peers are alike: no property tells them apart.
PeerSymmetry == Permutations(Peers)
=============================================================================
