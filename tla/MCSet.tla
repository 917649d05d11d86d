-------------------------------- MODULE MCSet --------------------------------
(* Small instances of BRSet for TLC. *)
EXTENDS BRSet

\* Four transactions, of which one is met in two copies.
SomeItems == {<<1, "a">>, <<1, "b">>, <<2, "a">>, <<3, "a">>, <<4, "a">>}

SomeOrders == {<< <<1, "b">>, <<2, "a">> >>, << <<3, "a">>, <<1, "a">>, <<4, "a">> >>}

\* No guard reads the last call; the steps that make it are all checked.
Uncalled == <<hash, set>>
=============================================================================
