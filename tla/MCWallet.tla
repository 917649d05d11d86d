------------------------------ MODULE MCWallet ------------------------------
(* Small families of transactions for TLC. *)
EXTENDS BRWallet

Pay(c, i, n) == [addr |-> <<c, i>>, amount |-> n]

\* A transaction that is standard and not locked.
Plain(in, out) ==
    [inputs |-> in, outputs |-> out, nonStandard |-> FALSE, lockHeight |-> 0, lockClock |-> 0]

OneAddressGaps == [c \in Chains |-> 1]

\* A receipt, two transactions of the wallet's owner that spend it (from two devices), and
\* a spender of the change of the first.
DoubleSpendTx ==
    [a |-> Plain({<<"f", 1>>}, <<Pay("external", 0, 5)>>),
     b |-> Plain({<<"a", 1>>}, <<Pay("other", 0, 2), Pay("internal", 0, 3)>>),
     c |-> Plain({<<"a", 1>>}, <<Pay("other", 1, 4)>>),
     d |-> Plain({<<"b", 2>>}, <<Pay("external", 0, 1)>>)]

\* A receipt, a replaceable one of an address further on, and a spender of both that a clock time
\* locks and that has an output to no address.
ReplaceableTx ==
    [a |-> Plain({<<"f", 1>>}, <<Pay("external", 0, 5)>>),
     r |-> [Plain({<<"f", 2>>}, <<Pay("external", 1, 4)>>) EXCEPT !.nonStandard = TRUE],
     s |-> [Plain({<<"a", 1>>, <<"r", 1>>},
                  <<Pay("internal", 0, 6), [addr |-> NoAddr, amount |-> 2]>>) EXCEPT !.lockClock = 1]]

\* A receipt, and a spender of it that a clock time locks.
TimeLockedTx ==
    [a |-> Plain({<<"f", 1>>}, <<Pay("external", 0, 5)>>),
     l |-> [Plain({<<"a", 1>>}, <<Pay("internal", 0, 4)>>) EXCEPT !.lockClock = 1]]

\* Two receipts, a replaceable spender of the first with change, and a receipt that no block of
\* the instance may hold.
MixedTx ==
    [a |-> Plain({<<"f", 1>>}, <<Pay("external", 0, 5)>>),
     b |-> Plain({<<"f", 2>>}, <<Pay("external", 0, 7)>>),
     r |-> [Plain({<<"a", 1>>}, <<Pay("internal", 0, 4)>>) EXCEPT !.nonStandard = TRUE],
     l |-> [Plain({<<"f", 3>>}, <<Pay("external", 0, 5)>>) EXCEPT !.lockHeight = 7]]

\* A payment, a double spend of its input, and a spender of its output.
MisorderTx ==
    [p |-> Plain({<<"f", 1>>}, <<Pay("external", 0, 5)>>),
     q |-> Plain({<<"f", 1>>}, <<Pay("external", 0, 5)>>),
     c |-> Plain({<<"p", 1>>}, <<Pay("external", 0, 4)>>)]
=============================================================================
