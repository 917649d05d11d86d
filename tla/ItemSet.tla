------------------------------ MODULE ItemSet ------------------------------
(***************************************************************************)
(* What Modules/core/BRSet.h promises: a set of items, of which no two are *)
(* equal for the eq function it was made with.  Items are pairs, equal if  *)
(* their first parts are: transactions with the same hash, say.            *)
(***************************************************************************)
CONSTANTS Items, NULL

VARIABLES
    members,   \* the items in the set
    call       \* the last operation, its argument and the item it returned

vars == <<members, call>>

Eq(a, b) == a[1] = b[1]

In(item, set) == \E m \in set : Eq(m, item)

Equal(item) == IF In(item, members) THEN CHOOSE m \in members : Eq(m, item) ELSE NULL

Called(op, arg, ret) == [op |-> op, arg |-> arg, ret |-> ret]

Init == members = {} /\ call = Called("New", {}, NULL)

\* "adds given item to set or replaces an equivalent existing item and returns item replaced if any"
Add(item) ==
    /\ members' = {m \in members : ~Eq(m, item)} \cup {item}
    /\ call' = Called("Add", {item}, Equal(item))

\* "removes item equivalent to given item from set and returns item removed if any"
Remove(item) ==
    /\ members' = {m \in members : ~Eq(m, item)}
    /\ call' = Called("Remove", {item}, Equal(item))

Clear == members' = {} /\ call' = Called("Clear", {}, NULL)

\* "adds or replaces items from otherSet into set"
Union(other) ==
    /\ members' = {m \in members : ~In(m, other)} \cup other
    /\ call' = Called("Union", other, NULL)

\* "removes items contained in otherSet from set"
Minus(other) ==
    /\ members' = {m \in members : ~In(m, other)}
    /\ call' = Called("Minus", other, NULL)

\* "removes items not contained in otherSet from set"
Intersect(other) ==
    /\ members' = {m \in members : In(m, other)}
    /\ call' = Called("Intersect", other, NULL)

Sets == {S \in SUBSET Items : \A a, b \in S : Eq(a, b) => a = b}

Next ==
    \/ \E item \in Items : Add(item) \/ Remove(item)
    \/ Clear
    \/ \E other \in Sets : Union(other) \/ Minus(other) \/ Intersect(other)

Spec == Init /\ [][Next]_vars
=============================================================================
