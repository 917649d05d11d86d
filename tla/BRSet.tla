------------------------------- MODULE BRSet -------------------------------
(***************************************************************************)
(* The hash table of Modules/core/BRSet.c, in which the wallet finds       *)
(* transactions, spent outputs and addresses and the peer manager blocks:  *)
(* linear probing, growth, and removal that moves the items after the      *)
(* hole.  Each operation is one step, for its callers hold their lock.     *)
(*                                                                         *)
(* The hash function is any function: it is chosen at the beginning.  A    *)
(* second set is given by the items added to it, one after the other.      *)
(***************************************************************************)
EXTENDS Integers, Sequences, FiniteSets, FiniteSetsExt, Functions

CONSTANTS
    Items,        \* pairs; two items are equal, for eq, if their first parts are
    NULL,
    Hashes,       \* the values of the hash function
    Capacities,   \* bound: the capacities a set is made with
    Orders,       \* bound: the second sets, as sequences of items
    MaxSize       \* the buckets that Items need

Class(item) == item[1]

Classes == {Class(item) : item \in Items}

\* "starting with 1, multiply by 3/2, round up, then find next largest prime"
tableSizes ==
    <<1, 3, 7, 13, 23, 37, 59, 97, 149, 227, 347, 523, 787, 1187, 1783, 2677, 4019, 6037, 9059, 13591,
      20389, 30593, 45887, 68863, 103307, 154981, 232487, 348739, 523129, 784697, 1177067, 1765609,
      2648419, 3972643, 5958971, 8938469, 13407707, 20111563, 30167359, 45251077, 67876637, 101814991,
      152722489, 229083739, 343625629, 515438447, 773157683, 1159736527, 1739604799>>

\* "limit load factor to 2/3"
Limit(size) == ((size + 2) \div 3) * 2

\* One of the sizes is large enough for all items, and the second sets are sets.  (The two largest
\* sizes, past TLC's integers, are left out.)
ASSUME SetAssumption ==
    /\ NULL \notin Items
    /\ \A item \in Items : item = <<item[1], item[2]>>
    /\ Hashes \subseteq Nat /\ Capacities \subseteq Nat
    /\ IsFiniteSet(Classes)
    /\ \E n \in 2..Len(tableSizes) :
          /\ MaxSize = tableSizes[n] /\ Cardinality(Classes) <= Limit(MaxSize)
          /\ \A capacity \in Capacities : capacity <= tableSizes[n - 1]
    /\ \A order \in Orders :
          order \in Seq(Items) /\ \A i, j \in DOMAIN order : Class(order[i]) = Class(order[j]) => i = j

VARIABLES
    hash,    \* the hash function
    set,     \* [table, size, itemCount]
    call     \* the last operation, its argument and the item it returned

vars == <<hash, set, call>>

Eq(a, b) == Class(a) = Class(b)

-----------------------------------------------------------------------------
(* The operations, on a set s. *)

\* _BRSetInit: the size after the first that is not smaller than the capacity.
New(capacity) ==
    LET i    == Min({n \in 1..Len(tableSizes) : tableSizes[n] >= capacity})
        size == tableSizes[i + 1]
    IN  [table |-> [b \in 0..(size - 1) |-> NULL], size |-> size, itemCount |-> 0]

\* The bucket where probing for the item ends: it is empty or has an equal item.
Probe(s, item) ==
    LET bucket(d) == (hash[Class(item)] + d) % s.size
        Stops(d)  == s.table[bucket(d)] = NULL \/ Eq(s.table[bucket(d)], item)
    IN  bucket(Min({d \in 0..(s.size - 1) : Stops(d)}))

\* BRSetGet
Get(s, item) == s.table[Probe(s, item)]

\* BRSetContains
Contains(s, item) == Get(s, item) # NULL

\* The items in the table.
Held(s) == {s.table[i] : i \in 0..(s.size - 1)} \ {NULL}

\* BRSetAll and BRSetApply: the items in the order of the table.
AppendAny(items, t) == IF t = NULL THEN items ELSE Append(items, t)

All(s) ==
    LET all[n \in 0..s.size] == IF n = 0 THEN << >> ELSE AppendAny(all[n - 1], s.table[n - 1])
    IN  all[s.size]

\* Mutant: an item that is replaced is counted again.
PlaceCounts(s, item) ==
    LET i == Probe(s, item)
    IN  [s EXCEPT !.itemCount = @ + 1, !.table[i] = item]

\* BRSetAdd, but for the growth.
Place(s, item) ==
    LET i == Probe(s, item)
    IN  [s EXCEPT !.itemCount = IF s.table[i] = NULL THEN @ + 1 ELSE @, !.table[i] = item]

PlaceAny(s, t) == IF t = NULL THEN s ELSE Place(s, t)

\* Mutant: the next size is asked for, and the one after it made.
GrowPast(s) ==
    LET new[n \in 0..s.size] == IF n = 0 THEN New(s.size + 1) ELSE PlaceAny(new[n - 1], s.table[n - 1])
    IN  new[s.size]

\* _BRSetGrow: the new table has room for all items.
Grow(s) ==
    LET new[n \in 0..s.size] == IF n = 0 THEN New(s.size) ELSE PlaceAny(new[n - 1], s.table[n - 1])
    IN  new[s.size]

AddTo(s, item) ==
    LET placed == Place(s, item)
    IN  IF placed.itemCount > Limit(s.size) THEN Grow(placed) ELSE placed

Emptied(s, i) == [s EXCEPT !.itemCount = @ - 1, !.table[i] = NULL]

\* Mutant: only the next bucket is moved.
CleanUpOne(s, i) ==
    IF s.table[i] = NULL THEN s ELSE AddTo(Emptied(s, i), s.table[i])

Moved(at) ==
    IF at.s.table[at.i] = NULL THEN at
    ELSE [s |-> AddTo(Emptied(at.s, at.i), at.s.table[at.i]), i |-> (at.i + 1) % at.s.size]

\* "hashtable cleanup": from the bucket i to the next empty one every item is taken out and added again.
CleanUp(s, i) ==
    LET at[n \in 0..s.size] == IF n = 0 THEN [s |-> s, i |-> i] ELSE Moved(at[n - 1])
    IN  at[s.size].s

\* BRSetRemove
RemoveFrom(s, item) ==
    LET i == Probe(s, item)
    IN  IF s.table[i] = NULL THEN s ELSE CleanUp(Emptied(s, i), (i + 1) % s.size)

AddAny(s, t) == IF t = NULL THEN s ELSE AddTo(s, t)

\* BRSetUnion
AddAll(s, other) ==
    LET sum[n \in 0..other.size] == IF n = 0 THEN s ELSE AddAny(sum[n - 1], other.table[n - 1])
    IN  sum[other.size]

RemoveAny(s, t) == IF t = NULL THEN s ELSE RemoveFrom(s, t)

\* BRSetMinus
RemoveAll(s, other) ==
    LET rest[n \in 0..other.size] == IF n = 0 THEN s ELSE RemoveAny(rest[n - 1], other.table[n - 1])
    IN  rest[other.size]

\* Mutant: the scan goes on to the next bucket, also after a removal.
ComparedSkips(at, other) ==
    IF at.i = at.s.size THEN at
    ELSE LET t == at.s.table[at.i]
         IN  [s |-> IF t # NULL /\ ~Contains(other, t) THEN RemoveFrom(at.s, t) ELSE at.s, i |-> at.i + 1]

\* A removal may move another item into the bucket, which is then looked at again.
Compared(at, other) ==
    IF at.i = at.s.size THEN at
    ELSE LET t == at.s.table[at.i]
         IN  IF t # NULL /\ ~Contains(other, t)
                THEN [s |-> RemoveFrom(at.s, t), i |-> at.i] ELSE [s |-> at.s, i |-> at.i + 1]

\* BRSetIntersect
Intersection(s, other) ==
    LET at[n \in 0..(s.size + s.itemCount)] ==
            IF n = 0 THEN [s |-> s, i |-> 0] ELSE Compared(at[n - 1], other)
    IN  at[s.size + s.itemCount].s

\* BRSetIntersects
Intersects(s, other) ==
    \E i \in 0..(other.size - 1) : other.table[i] # NULL /\ Contains(s, other.table[i])

\* Mutant: the item itself is found again.
IterateAgain(s, previous) ==
    LET first == IF previous = NULL THEN 0 ELSE Probe(s, previous)
        rest  == {i \in first..(s.size - 1) : s.table[i] # NULL}
    IN  IF rest = {} THEN NULL ELSE s.table[Min(rest)]

\* BRSetIterate
Iterate(s, previous) ==
    LET first == IF previous = NULL THEN 0 ELSE Probe(s, previous) + 1
        rest  == {i \in first..(s.size - 1) : s.table[i] # NULL}
    IN  IF rest = {} THEN NULL ELSE s.table[Min(rest)]

-----------------------------------------------------------------------------
(* The set, used. *)

Called(op, arg, ret) == [op |-> op, arg |-> arg, ret |-> ret]

Init ==
    /\ hash \in [Classes -> Hashes]
    /\ \E capacity \in Capacities : set = New(capacity)
    /\ call = Called("New", {}, NULL)

Add(item) ==
    /\ set' = AddTo(set, item)
    /\ call' = Called("Add", {item}, Get(set, item))
    /\ UNCHANGED hash

Remove(item) ==
    /\ set' = RemoveFrom(set, item)
    /\ call' = Called("Remove", {item}, Get(set, item))
    /\ UNCHANGED hash

\* BRSetClear
Clear ==
    /\ set' = [set EXCEPT !.table = [b \in 0..(set.size - 1) |-> NULL], !.itemCount = 0]
    /\ call' = Called("Clear", {}, NULL)
    /\ UNCHANGED hash

\* A second set with its items added in some order.
Other(order) ==
    LET made[n \in 0..Len(order)] == IF n = 0 THEN New(0) ELSE AddTo(made[n - 1], order[n])
    IN  made[Len(order)]

Union(order) ==
    /\ set' = AddAll(set, Other(order))
    /\ call' = Called("Union", Range(order), NULL)
    /\ UNCHANGED hash

Minus(order) ==
    /\ set' = RemoveAll(set, Other(order))
    /\ call' = Called("Minus", Range(order), NULL)
    /\ UNCHANGED hash

Intersect(order) ==
    /\ set' = Intersection(set, Other(order))
    /\ call' = Called("Intersect", Range(order), NULL)
    /\ UNCHANGED hash

Next ==
    \/ \E item \in Items : Add(item) \/ Remove(item)
    \/ Clear
    \/ \E order \in Orders : Union(order) \/ Minus(order) \/ Intersect(order)

Spec == Init /\ [][Next]_vars

-----------------------------------------------------------------------------

TypeOK ==
    /\ hash \in [Classes -> Hashes]
    /\ set.size \in Range(tableSizes) /\ set.size <= MaxSize
    /\ set.table \in [0..(set.size - 1) -> Items \cup {NULL}]
    /\ set.itemCount \in 0..set.size
    /\ call.arg \subseteq Items /\ call.ret \in Items \cup {NULL}

Members == Held(set)

(***************************************************************************)
(* Every operation does to the items in the table what BRSet.h says it     *)
(* does to the set, and returns the item it says, whatever the hash        *)
(* function, the growth and the order in which items were moved.           *)
(***************************************************************************)
Abstract == INSTANCE ItemSet WITH members <- Members

ImplementsItemSet == Abstract!Spec

(***************************************************************************)
(* Between two operations a bucket is empty, so that probing for an item   *)
(* that is not there comes to an end, and BRSetCount counts the items.     *)
(***************************************************************************)
ProbesEnd ==
    /\ \E i \in 0..(set.size - 1) : set.table[i] = NULL
    /\ set.itemCount = Cardinality(Members)

\* BRSetGet finds every item in the table, BRSetIntersects agrees with the sets, and nothing else is
\* found: no removal has left a hole between an item and its hash.
GetFinds ==
    /\ \A item \in Items :
          Get(set, item) = IF \E m \in Members : Eq(m, item)
                              THEN CHOOSE m \in Members : Eq(m, item) ELSE NULL
    /\ \A order \in Orders :
          Intersects(set, Other(order)) <=> \E m \in Members, i \in DOMAIN order : Eq(m, order[i])

\* BRSetIterate, from NULL until it returns NULL, comes to every item once, in the order of BRSetAll.
IteratesAll ==
    LET all == All(set)
        n   == Len(all)
    IN  /\ Iterate(set, NULL) = IF n = 0 THEN NULL ELSE all[1]
        /\ \A i \in 1..n : Iterate(set, all[i]) = IF i = n THEN NULL ELSE all[i + 1]
=============================================================================
