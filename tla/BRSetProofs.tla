---------------------------- MODULE BRSetProofs ----------------------------
(***************************************************************************)
(* The hash table implements a set, for any items, hash function and       *)
(* sequence of operations.  The invariant that carries the proof is that   *)
(* no empty bucket lies between the hash of an item and its bucket; the    *)
(* clean-up after a removal breaks it, for the items that it has not yet   *)
(* moved, and establishes it again before it ends.                         *)
(***************************************************************************)
EXTENDS BRSet, FiniteSetTheorems, SequenceTheorems, NaturalsInduction, WellFoundedInduction, TLAPS

-----------------------------------------------------------------------------
(* Numbers. *)

LEMMA LeastNumber ==
    ASSUME NEW T, T \subseteq Nat, T # {}
    PROVE  \E n \in T : \A m \in T : n <= m
<1> DEFINE R == OpToRel(<, Nat)
<1>1. \A x, y \in Nat : x < y => <<x, y>> \in R
  BY DEF OpToRel
<1>2. IsWellFoundedOn(R, Nat)
  BY NatLessThanWellFounded
<1> HIDE DEF R
<1>3. PICK x \in T : \A y \in T : ~ (<<y, x>> \in R)
  BY <1>2, WFMin
<1>4. \A y \in T : ~ (y < x)
  BY <1>1, <1>3
<1>5. \A y \in T : x <= y
  BY <1>4
<1> QED
  BY <1>3, <1>5

\* What holds 0 and, with a number, the next one holds all of them.
LEMMA NumberInduction ==
    ASSUME NEW S, 0 \in S, \A n \in Nat : n \in S => n + 1 \in S
    PROVE  Nat \subseteq S
<1> SUFFICES ASSUME Nat \ S # {}
             PROVE  FALSE
  OBVIOUS
<1>1. PICK n \in Nat \ S : \A m \in Nat \ S : n <= m
  BY LeastNumber
<1>2. n # 0 /\ n - 1 \in Nat
  OBVIOUS
<1>3. n - 1 \in S
  BY <1>1, <1>2
<1> QED
  BY <1>1, <1>2, <1>3

\* The least number of a set.
LEMMA MinIs ==
    ASSUME NEW S, S \subseteq Nat, S # {}
    PROVE  Min(S) \in S /\ \A m \in S : Min(S) <= m
  BY LeastNumber DEF Min

LEMMA DivMod ==
    ASSUME NEW h \in Nat, NEW n \in Nat, n > 0
    PROVE  h \div n \in Int /\ (h % n) \in 0..(n - 1) /\ h = n * (h \div n) + (h % n)
  OBVIOUS

LEMMA ModIs ==
    ASSUME NEW h \in Nat, NEW n \in Nat, n > 0, NEW q \in Int, NEW r \in Int, h = n * q + r, 0 <= r, r < n
    PROVE  (h % n) = r
  OBVIOUS

LEMMA ModPlus ==
    ASSUME NEW h \in Nat, NEW n \in Nat, n > 0, NEW d \in 0..(n - 1)
    PROVE  ((h + d) % n) = IF (h % n) + d < n THEN (h % n) + d ELSE (h % n) + d - n
<1> PICK q \in Int : q = h \div n
  BY DivMod
<1> PICK r \in 0..(n - 1) : r = (h % n)
  BY DivMod
<1>1. h = n * q + r
  BY DivMod
<1>2. n * (q + 1) = n * q + n
  OBVIOUS
<1>3. CASE r + d < n
  <2>1. h + d = n * q + (r + d)
    BY <1>1
  <2> QED
    BY <2>1, <1>3, ModIs
<1>4. CASE ~(r + d < n)
  <2> PICK k \in Int : k = q + 1
    OBVIOUS
  <2> PICK m \in Int : m = r + d - n
    OBVIOUS
  <2> PICK e \in Nat : e = h + d
    OBVIOUS
  <2>1. e = n * k + m /\ 0 <= m /\ m < n
    BY <1>1, <1>2, <1>4
  <2>2. (e % n) = m
    BY <2>1, ModIs
  <2> QED
    BY <2>2, <1>4
<1> QED
  BY <1>3, <1>4

-----------------------------------------------------------------------------
(* The sizes of a table. *)

Sizes == {tableSizes[n] : n \in 2..Len(tableSizes)}

LEMMA SizesAre ==
    /\ Len(tableSizes) = 49
    /\ \A n \in 1..Len(tableSizes) : tableSizes[n] \in Nat /\ tableSizes[n] > 0
    /\ \A n \in 2..Len(tableSizes) : tableSizes[n - 1] < tableSizes[n]
<1>1. Len(tableSizes) = 49
  BY DEF tableSizes
<1>2. \A n \in 1..Len(tableSizes) : tableSizes[n] \in Nat /\ tableSizes[n] > 0
  BY DEF tableSizes
<1>3. \A n \in 2..Len(tableSizes) : tableSizes[n - 1] < tableSizes[n]
  BY DEF tableSizes
<1> QED
  BY <1>1, <1>2, <1>3

\* The limit leaves a bucket empty.
LEMMA LimitIs ==
    ASSUME NEW size \in Sizes
    PROVE  size \in Nat /\ size > 0 /\ Limit(size) \in Nat /\ Limit(size) < size
<1>1. PICK n \in 2..Len(tableSizes) : size = tableSizes[n]
  BY DEF Sizes
<1>2. size \in Nat /\ size > 0
  BY <1>1, SizesAre
<1>3. Limit(size) \in Nat
  BY <1>2 DEF Limit
<1>4. \A k \in 2..Len(tableSizes) : Limit(tableSizes[k]) < tableSizes[k]
  BY DEF tableSizes, Limit
<1> QED
  BY <1>1, <1>2, <1>3, <1>4

\* The next size has room for the items that make a table grow: the new table does not grow while
\* they are added to it.
LEMMA LimitGrows ==
    \A n \in 3..Len(tableSizes) : Limit(tableSizes[n - 1]) + 1 <= Limit(tableSizes[n])
  BY DEF tableSizes, Limit

LEMMA SizesIncrease ==
    ASSUME NEW m \in 1..Len(tableSizes), NEW n \in 1..Len(tableSizes), m < n
    PROVE  tableSizes[m] < tableSizes[n]
<1> DEFINE K == {k \in Nat : m + 1 + k <= Len(tableSizes) => tableSizes[m] < tableSizes[m + 1 + k]}
<1> USE SizesAre
<1>1. 0 \in K
  OBVIOUS
<1>2. ASSUME NEW k \in Nat, k \in K
      PROVE  k + 1 \in K
  <2> SUFFICES ASSUME m + 1 + (k + 1) <= Len(tableSizes)
               PROVE  tableSizes[m] < tableSizes[m + 1 + (k + 1)]
    OBVIOUS
  <2> PICK j \in 2..Len(tableSizes) : j = m + 1 + (k + 1)
    OBVIOUS
  <2>1. j - 1 = m + 1 + k /\ j - 1 \in 1..Len(tableSizes)
    OBVIOUS
  <2>2. tableSizes[m] < tableSizes[j - 1]
    BY <1>2, <2>1
  <2>3. tableSizes[j - 1] < tableSizes[j]
    OBVIOUS
  <2> QED
    BY <2>1, <2>2, <2>3
<1>3. \A k \in Nat : k \in K
  <2> HIDE DEF K
  <2> QED
    BY <1>1, <1>2, NumberInduction
<1>4. n - m - 1 \in Nat /\ m + 1 + (n - m - 1) = n
  OBVIOUS
<1> QED
  BY <1>3, <1>4

LEMMA LimitIncreases ==
    ASSUME NEW m \in 2..Len(tableSizes), NEW n \in 2..Len(tableSizes), m <= n
    PROVE  Limit(tableSizes[m]) <= Limit(tableSizes[n])
<1> DEFINE K == {k \in Nat : m + k <= Len(tableSizes) => Limit(tableSizes[m]) <= Limit(tableSizes[m + k])}
<1>1. \A j \in 2..Len(tableSizes) : Limit(tableSizes[j]) \in Nat
  BY LimitIs DEF Sizes
<1>2. 0 \in K
  BY <1>1, SizesAre
<1>3. ASSUME NEW k \in Nat, k \in K
      PROVE  k + 1 \in K
  <2> SUFFICES ASSUME m + (k + 1) <= Len(tableSizes)
               PROVE  Limit(tableSizes[m]) <= Limit(tableSizes[m + (k + 1)])
    OBVIOUS
  <2> PICK j \in 3..Len(tableSizes) : j = m + (k + 1)
    BY SizesAre
  <2>1. j - 1 = m + k /\ j - 1 \in 2..Len(tableSizes) /\ j \in 2..Len(tableSizes)
    BY SizesAre
  <2>2. Limit(tableSizes[m]) <= Limit(tableSizes[j - 1])
    BY <1>3, <2>1, SizesAre
  <2>3. Limit(tableSizes[j - 1]) + 1 <= Limit(tableSizes[j])
    BY LimitGrows
  <2>4. Limit(tableSizes[j - 1]) \in Nat /\ Limit(tableSizes[j]) \in Nat /\ Limit(tableSizes[m]) \in Nat
    BY <1>1, <2>1
  <2> QED
    BY <2>2, <2>3, <2>4
<1>4. \A k \in Nat : k \in K
  <2> HIDE DEF K
  <2> QED
    BY <1>2, <1>3, NumberInduction
<1>5. n - m \in Nat /\ m + (n - m) = n
  BY SizesAre
<1> QED
  BY <1>4, <1>5, SizesAre

-----------------------------------------------------------------------------
(* A table, and the way from the hash of an item to its bucket. *)

Tables ==
    UNION {[table : [0..(n - 1) -> Items \cup {NULL}], size : {n}, itemCount : Nat] : n \in Sizes}

LEMMA TableIs ==
    ASSUME NEW s \in Tables
    PROVE  /\ s.size \in Sizes /\ s.itemCount \in Nat
           /\ s.table \in [0..(s.size - 1) -> Items \cup {NULL}]
           /\ s = [table |-> s.table, size |-> s.size, itemCount |-> s.itemCount]
<1>1. PICK n \in Sizes : s \in [table : [0..(n - 1) -> Items \cup {NULL}], size : {n}, itemCount : Nat]
  BY DEF Tables
<1> QED
  BY <1>1

LEMMA TableMade ==
    ASSUME NEW n \in Sizes, NEW t \in [0..(n - 1) -> Items \cup {NULL}], NEW c \in Nat
    PROVE  [table |-> t, size |-> n, itemCount |-> c] \in Tables
<1>1. [table |-> t, size |-> n, itemCount |-> c]
         \in [table : [0..(n - 1) -> Items \cup {NULL}], size : {n}, itemCount : Nat]
  OBVIOUS
<1> QED
  BY <1>1 DEF Tables

LEMMA TableSize ==
    ASSUME NEW s \in Tables
    PROVE  s.size \in Nat /\ s.size > 0 /\ Limit(s.size) \in Nat /\ Limit(s.size) < s.size
  BY TableIs, LimitIs

LEMMA BucketIs ==
    ASSUME NEW s \in Tables, NEW i \in 0..(s.size - 1), s.table[i] # NULL
    PROVE  s.table[i] \in Items
  BY TableIs

\* The steps from the bucket x to the bucket y of n.
Steps(n, x, y) == IF x <= y THEN y - x ELSE y - x + n

Home(s, item) == hash[Class(item)] % s.size

Stops(s, item, i) == s.table[i] = NULL \/ Eq(s.table[i], item)

Hashed == hash \in [Classes -> Hashes]

LEMMA HomeIs ==
    ASSUME NEW s \in Tables, NEW item \in Items, Hashed
    PROVE  hash[Class(item)] \in Nat /\ Home(s, item) \in 0..(s.size - 1)
<1>1. Class(item) \in Classes
  BY DEF Classes
<1>2. hash[Class(item)] \in Nat
  BY <1>1, SetAssumption DEF Hashed
<1> QED
  BY <1>2, TableSize, DivMod DEF Home

LEMMA StepsAre ==
    ASSUME NEW n \in Nat, NEW x \in 0..(n - 1), NEW d \in 0..(n - 1), NEW y,
           y = IF x + d < n THEN x + d ELSE x + d - n
    PROVE  y \in 0..(n - 1) /\ Steps(n, x, y) = d
<1>1. CASE x + d < n
  BY <1>1 DEF Steps
<1>2. CASE ~(x + d < n)
  BY <1>2 DEF Steps
<1> QED
  BY <1>1, <1>2

LEMMA StepsLead ==
    ASSUME NEW n \in Nat, NEW x \in 0..(n - 1), NEW y \in 0..(n - 1)
    PROVE  /\ Steps(n, x, y) \in 0..(n - 1)
           /\ y = IF x + Steps(n, x, y) < n THEN x + Steps(n, x, y) ELSE x + Steps(n, x, y) - n
<1>1. CASE x <= y
  BY <1>1 DEF Steps
<1>2. CASE ~(x <= y)
  BY <1>2 DEF Steps
<1> QED
  BY <1>1, <1>2

\* Probing ends in the first bucket, from the hash on, that stops it.
LEMMA ProbeIs ==
    ASSUME NEW s \in Tables, NEW item \in Items, NEW b \in 0..(s.size - 1), Hashed, Stops(s, item, b)
    PROVE  /\ Probe(s, item) \in 0..(s.size - 1) /\ Stops(s, item, Probe(s, item))
           /\ \A i \in 0..(s.size - 1) : Stops(s, item, i) =>
                 Steps(s.size, Home(s, item), Probe(s, item)) <= Steps(s.size, Home(s, item), i)
<1> PICK n \in Nat : n = s.size /\ n > 0
  BY TableSize
<1> PICK h \in Nat : h = hash[Class(item)]
  BY HomeIs
<1> PICK x \in 0..(n - 1) : x = Home(s, item)
  BY HomeIs
<1> DEFINE bucket(d) == (h + d) % n
           S == {d \in 0..(n - 1) : Stops(s, item, bucket(d))}
<1>1. \A d \in 0..(n - 1) : bucket(d) = IF x + d < n THEN x + d ELSE x + d - n
  BY ModPlus DEF Home
<1>2. Probe(s, item) = bucket(Min(S))
  BY DEF Probe, Stops
<1> HIDE DEF bucket
<1>3. \A d \in 0..(n - 1) : bucket(d) \in 0..(n - 1) /\ Steps(n, x, bucket(d)) = d
  <2> TAKE d \in 0..(n - 1)
  <2> PICK y : y = bucket(d)
    OBVIOUS
  <2>1. y = IF x + d < n THEN x + d ELSE x + d - n
    BY <1>1
  <2>2. y \in 0..(n - 1) /\ Steps(n, x, y) = d
    BY <2>1, StepsAre
  <2> QED
    BY <2>2
<1>4. \A i \in 0..(n - 1) : Steps(n, x, i) \in 0..(n - 1) /\ bucket(Steps(n, x, i)) = i
  <2> TAKE i \in 0..(n - 1)
  <2> PICK d \in 0..(n - 1) : d = Steps(n, x, i)
    BY StepsLead
  <2>1. i = IF x + d < n THEN x + d ELSE x + d - n
    BY StepsLead
  <2>2. bucket(d) = i
    BY <1>1, <2>1
  <2> QED
    BY <2>2
<1>5. \A i \in 0..(n - 1) : Stops(s, item, i) => Steps(n, x, i) \in S
  BY <1>4
<1>6. Min(S) \in S /\ \A d \in S : Min(S) <= d
  <2>1. S \subseteq Nat /\ S # {}
    BY <1>5
  <2> HIDE DEF S
  <2> QED
    BY <2>1, MinIs
<1>7. PICK d \in S : d = Min(S)
  BY <1>6
<1>8. Probe(s, item) \in 0..(n - 1) /\ Stops(s, item, Probe(s, item))
  BY <1>2, <1>3, <1>7
<1>9. Steps(n, x, Probe(s, item)) = d
  BY <1>2, <1>3, <1>7
<1>10. \A i \in 0..(n - 1) : Stops(s, item, i) => d <= Steps(n, x, i)
  BY <1>5, <1>6, <1>7
<1> QED
  BY <1>8, <1>9, <1>10

-----------------------------------------------------------------------------
(* The invariant of a table. *)

Full(s) == {i \in 0..(s.size - 1) : s.table[i] # NULL}

\* No two buckets hold equal items.
Unique(s) ==
    \A i, j \in 0..(s.size - 1) :
        s.table[i] # NULL /\ s.table[j] # NULL /\ Eq(s.table[i], s.table[j]) => i = j

\* No empty bucket lies between the hash of an item and its bucket.
Reached(s) ==
    \A i, z \in 0..(s.size - 1) :
        s.table[i] # NULL /\ s.table[z] = NULL =>
            Steps(s.size, Home(s, s.table[i]), i) < Steps(s.size, Home(s, s.table[i]), z)

\* What the clean-up after a removal keeps all the time.
Plain(s) == s \in Tables /\ Unique(s) /\ s.itemCount = Cardinality(Full(s))

Good(s) == Plain(s) /\ Reached(s) /\ s.itemCount <= Limit(s.size)

LEMMA FullFinite ==
    ASSUME NEW s \in Tables
    PROVE  IsFiniteSet(Full(s)) /\ Cardinality(Full(s)) \in Nat
<1>1. s.size - 1 \in Int
  BY TableSize
<1>2. IsFiniteSet(0..(s.size - 1))
  BY <1>1, FS_Interval
<1>3. Full(s) \in SUBSET (0..(s.size - 1))
  BY DEF Full
<1> QED
  BY <1>2, <1>3, FS_Subset, FS_CardinalityType

\* A table with fewer items than buckets has an empty one, where probing ends.
LEMMA SomeEmpty ==
    ASSUME NEW s, Plain(s), s.itemCount < s.size
    PROVE  \E z \in 0..(s.size - 1) : s.table[z] = NULL
<1> SUFFICES ASSUME \A z \in 0..(s.size - 1) : s.table[z] # NULL
             PROVE  FALSE
  OBVIOUS
<1>1. s.size \in Nat /\ s.size > 0
  BY TableSize DEF Plain
<1>2. Full(s) = 0..(s.size - 1)
  BY DEF Full
<1>3. Cardinality(0..(s.size - 1)) = s.size
  <2> PICK n \in Int : n = s.size - 1
    BY <1>1
  <2> PICK a \in Int : a = 0
    OBVIOUS
  <2>1. Cardinality(a..n) = IF a > n THEN 0 ELSE n - a + 1
    BY FS_Interval
  <2> QED
    BY <1>1, <2>1
<1> QED
  BY <1>1, <1>2, <1>3 DEF Plain

\* BRSetCount: the number of buckets in use is the number of items.
LEMMA HeldCount ==
    ASSUME NEW s, Plain(s)
    PROVE  IsFiniteSet(Held(s)) /\ Cardinality(Held(s)) = s.itemCount
<1> DEFINE f == [i \in Full(s) |-> s.table[i]]
<1>1. f \in [Full(s) -> Held(s)]
  BY DEF Full, Held
<1>2. \A i, j \in Full(s) : f[i] = f[j] => i = j
  BY DEF Plain, Unique, Full, Eq
<1>3. \A m \in Held(s) : \E i \in Full(s) : f[i] = m
  BY DEF Held, Full
<1> HIDE DEF f
<1>4. f \in Bijection(Full(s), Held(s))
  BY <1>1, <1>2, <1>3 DEF Bijection, Injection, Surjection, IsInjective
<1>5. ExistsBijection(Full(s), Held(s))
  BY <1>4 DEF ExistsBijection
<1>6. IsFiniteSet(Full(s))
  BY FullFinite DEF Plain
<1> QED
  BY <1>5, <1>6, FS_Bijection DEF Plain

\* There are never more items than classes.
LEMMA ClassCount ==
    ASSUME NEW s, Plain(s)
    PROVE  s.itemCount <= Cardinality(Classes)
<1> DEFINE f == [i \in Full(s) |-> Class(s.table[i])]
<1>1. f \in [Full(s) -> Classes]
  <2>1. \A i \in Full(s) : s.table[i] \in Items
    BY BucketIs DEF Full, Plain
  <2> QED
    BY <2>1 DEF Classes
<1>2. \A i, j \in Full(s) : f[i] = f[j] => i = j
  BY DEF Plain, Unique, Full, Eq
<1> HIDE DEF f
<1>3. f \in Injection(Full(s), Classes)
  BY <1>1, <1>2 DEF Injection, IsInjective
<1> QED
  BY <1>3, SetAssumption, FS_Injection DEF Plain

LEMMA HeldItems ==
    ASSUME NEW s \in Tables
    PROVE  Held(s) \subseteq Items
  BY BucketIs DEF Held

-----------------------------------------------------------------------------
(* A bucket is written. *)

\* s2 is s with t, an item or NULL, in the bucket q.
Written(s, q, t, s2) ==
    /\ s2 \in Tables /\ s2.size = s.size
    /\ s2.table[q] = t
    /\ \A i \in 0..(s.size - 1) : i # q => s2.table[i] = s.table[i]

LEMMA PlaceWrites ==
    ASSUME NEW s \in Tables, NEW item \in Items, Probe(s, item) \in 0..(s.size - 1)
    PROVE  /\ Written(s, Probe(s, item), item, Place(s, item))
           /\ Place(s, item).itemCount =
                 IF s.table[Probe(s, item)] = NULL THEN s.itemCount + 1 ELSE s.itemCount
<1> PICK q \in 0..(s.size - 1) : q = Probe(s, item)
  OBVIOUS
<1> PICK c \in Nat : c = IF s.table[q] = NULL THEN s.itemCount + 1 ELSE s.itemCount
  BY TableIs
<1> PICK t \in [0..(s.size - 1) -> Items \cup {NULL}] : t = [s.table EXCEPT ![q] = item]
  BY TableIs
<1> PICK s2 : s2 = [table |-> t, size |-> s.size, itemCount |-> c]
  OBVIOUS
<1>1. Place(s, item) = s2
  <2> PICK a \in [0..(s.size - 1) -> Items \cup {NULL}], n \in Sizes, k \in Nat :
              s = [table |-> a, size |-> n, itemCount |-> k]
    BY TableIs
  <2>1. Place(s, item) = [s EXCEPT !.itemCount = c, !.table[q] = item]
    BY DEF Place
  <2> QED
    BY <2>1
<1>2. s2 \in Tables
  BY TableIs, TableMade
<1>3. s2.table = t /\ s2.size = s.size /\ s2.itemCount = c
  OBVIOUS
<1>4. t[q] = item /\ \A i \in 0..(s.size - 1) : i # q => t[i] = s.table[i]
  BY TableIs
<1> QED
  BY <1>1, <1>2, <1>3, <1>4 DEF Written

LEMMA EmptiedWrites ==
    ASSUME NEW s, NEW q \in 0..(s.size - 1), Plain(s), s.table[q] # NULL
    PROVE  /\ Written(s, q, NULL, Emptied(s, q))
           /\ Emptied(s, q).itemCount = s.itemCount - 1 /\ s.itemCount >= 1
<1> USE DEF Plain
<1>1. s.itemCount >= 1
  <2>1. q \in Full(s)
    BY DEF Full
  <2> QED
    BY <2>1, FullFinite, FS_EmptySet
<1> PICK c \in Nat : c = s.itemCount - 1
  BY <1>1, TableIs
<1> PICK t \in [0..(s.size - 1) -> Items \cup {NULL}] : t = [s.table EXCEPT ![q] = NULL]
  BY TableIs
<1> PICK s2 : s2 = [table |-> t, size |-> s.size, itemCount |-> c]
  OBVIOUS
<1>2. Emptied(s, q) = s2
  <2> PICK a \in [0..(s.size - 1) -> Items \cup {NULL}], n \in Sizes, k \in Nat :
              s = [table |-> a, size |-> n, itemCount |-> k]
    BY TableIs
  <2>1. Emptied(s, q) = [s EXCEPT !.itemCount = c, !.table[q] = NULL]
    BY DEF Emptied
  <2> QED
    BY <2>1
<1>3. s2 \in Tables
  BY TableIs, TableMade
<1>4. s2.table = t /\ s2.size = s.size /\ s2.itemCount = c
  OBVIOUS
<1>5. t[q] = NULL /\ \A i \in 0..(s.size - 1) : i # q => t[i] = s.table[i]
  BY TableIs
<1> QED
  BY <1>1, <1>2, <1>3, <1>4, <1>5 DEF Written

\* An item is put into an empty bucket.
LEMMA Fills ==
    ASSUME NEW s, NEW q \in 0..(s.size - 1), NEW item \in Items, NEW s2,
           Plain(s), Written(s, q, item, s2), s.table[q] = NULL, s2.itemCount = s.itemCount + 1,
           \A m \in Held(s) : ~Eq(m, item)
    PROVE  Plain(s2) /\ Held(s2) = Held(s) \cup {item}
<1>1. item # NULL
  BY SetAssumption
<1>2. s2 \in Tables
  BY DEF Written
<1>3. Full(s2) = Full(s) \cup {q} /\ q \notin Full(s)
  BY <1>1 DEF Full, Written
<1>4. s2.itemCount = Cardinality(Full(s2))
  BY <1>3, FullFinite, FS_AddElement DEF Plain
<1>5. \A i \in 0..(s.size - 1) : s.table[i] # NULL => s.table[i] \in Held(s)
  BY DEF Held
<1>6. Unique(s2)
  BY <1>5 DEF Plain, Unique, Written, Eq
<1>7. Held(s2) = Held(s) \cup {item}
  BY <1>1 DEF Held, Written
<1> QED
  BY <1>2, <1>4, <1>6, <1>7 DEF Plain

\* An item takes the place of an equal one.
LEMMA Replaces ==
    ASSUME NEW s, NEW q \in 0..(s.size - 1), NEW item \in Items, NEW s2,
           Plain(s), Written(s, q, item, s2), s.table[q] # NULL, s2.itemCount = s.itemCount,
           Eq(s.table[q], item)
    PROVE  Plain(s2) /\ Held(s2) = {m \in Held(s) : ~Eq(m, item)} \cup {item}
<1>1. item # NULL
  BY SetAssumption
<1>2. s2 \in Tables
  BY DEF Written
<1>3. Full(s2) = Full(s)
  BY <1>1 DEF Full, Written
<1>4. Unique(s2)
  BY DEF Plain, Unique, Written, Eq
<1>5. \A i \in 0..(s.size - 1) : s.table[i] # NULL => (i # q <=> ~Eq(s.table[i], item))
  BY DEF Plain, Unique, Eq
<1>6. Held(s2) = {m \in Held(s) : ~Eq(m, item)} \cup {item}
  BY <1>1, <1>5 DEF Held, Written
<1> QED
  BY <1>2, <1>3, <1>4, <1>6 DEF Plain

\* A bucket is emptied.
LEMMA Empties ==
    ASSUME NEW s, NEW q \in 0..(s.size - 1), NEW s2,
           Plain(s), Written(s, q, NULL, s2), s.table[q] # NULL, s2.itemCount = s.itemCount - 1
    PROVE  Plain(s2) /\ Held(s2) = {m \in Held(s) : ~Eq(m, s.table[q])}
<1>1. s2 \in Tables
  BY DEF Written
<1>2. Full(s2) = Full(s) \ {q} /\ q \in Full(s)
  BY DEF Full, Written
<1>3. s2.itemCount = Cardinality(Full(s2))
  BY <1>2, FullFinite, FS_RemoveElement DEF Plain
<1>4. Unique(s2)
  BY DEF Plain, Unique, Written
<1>5. \A i \in 0..(s.size - 1) : s.table[i] # NULL => (i # q <=> ~Eq(s.table[i], s.table[q]))
  BY DEF Plain, Unique, Eq
<1>6. Held(s2) = {m \in Held(s) : ~Eq(m, s.table[q])}
  BY <1>5 DEF Held, Written
<1> QED
  BY <1>1, <1>3, <1>4, <1>6 DEF Plain

-----------------------------------------------------------------------------
(* An item is placed. *)

\* With no hole before an item, probing finds it.
LEMMA ProbeFinds ==
    ASSUME NEW s, NEW item \in Items, NEW j \in 0..(s.size - 1), Hashed, Plain(s), Reached(s),
           s.table[j] # NULL, Eq(s.table[j], item)
    PROVE  Probe(s, item) = j
<1>1. s \in Tables /\ Stops(s, item, j)
  BY DEF Plain, Stops
<1> PICK q : q = Probe(s, item)
  OBVIOUS
<1>2. /\ q \in 0..(s.size - 1) /\ Stops(s, item, q)
      /\ Steps(s.size, Home(s, item), q) <= Steps(s.size, Home(s, item), j)
  BY <1>1, ProbeIs
<1>3. Home(s, s.table[j]) = Home(s, item) /\ Home(s, item) \in 0..(s.size - 1)
  BY <1>1, HomeIs DEF Home, Eq
<1>4. s.table[q] # NULL
  <2> SUFFICES ASSUME s.table[q] = NULL PROVE FALSE
    OBVIOUS
  <2>1. Steps(s.size, Home(s, item), j) < Steps(s.size, Home(s, item), q)
    BY <1>2, <1>3 DEF Reached
  <2>2. Steps(s.size, Home(s, item), j) \in Int /\ Steps(s.size, Home(s, item), q) \in Int
    BY <1>1, <1>2, <1>3, TableSize DEF Steps
  <2> QED
    BY <1>2, <2>1, <2>2
<1> QED
  BY <1>2, <1>4 DEF Stops, Plain, Unique, Eq

\* Probing for an item that is not there ends in the first empty bucket.
LEMMA ProbeMisses ==
    ASSUME NEW s, NEW item \in Items, NEW z \in 0..(s.size - 1), Hashed, Plain(s), s.table[z] = NULL,
           \A m \in Held(s) : ~Eq(m, item)
    PROVE  /\ Probe(s, item) \in 0..(s.size - 1) /\ s.table[Probe(s, item)] = NULL
           /\ \A y \in 0..(s.size - 1) : s.table[y] = NULL =>
                 Steps(s.size, Home(s, item), Probe(s, item)) <= Steps(s.size, Home(s, item), y)
<1>1. s \in Tables /\ Stops(s, item, z)
  BY DEF Plain, Stops
<1>2. \A i \in 0..(s.size - 1) : Stops(s, item, i) <=> s.table[i] = NULL
  BY DEF Stops, Held
<1> QED
  BY <1>1, <1>2, ProbeIs

LEMMA StepsDiffer ==
    ASSUME NEW n \in Nat, NEW x \in 0..(n - 1), NEW y \in 0..(n - 1), NEW z \in 0..(n - 1),
           Steps(n, x, y) <= Steps(n, x, z), y # z
    PROVE  Steps(n, x, y) < Steps(n, x, z)
  BY DEF Steps

\* An item that is not in the table is put into the first empty bucket.
LEMMA PlaceNew ==
    ASSUME NEW s, NEW item \in Items, NEW z \in 0..(s.size - 1), Hashed, Plain(s), s.table[z] = NULL,
           \A m \in Held(s) : ~Eq(m, item)
    PROVE  /\ Plain(Place(s, item)) /\ Held(Place(s, item)) = Held(s) \cup {item}
           /\ Written(s, Probe(s, item), item, Place(s, item))
           /\ Place(s, item).itemCount = s.itemCount + 1
<1>1. s \in Tables /\ Probe(s, item) \in 0..(s.size - 1) /\ s.table[Probe(s, item)] = NULL
  BY ProbeMisses DEF Plain
<1>2. /\ Written(s, Probe(s, item), item, Place(s, item))
      /\ Place(s, item).itemCount = s.itemCount + 1
  BY <1>1, PlaceWrites
<1> QED
  BY <1>1, <1>2, Fills

LEMMA ReachedNew ==
    ASSUME NEW s, NEW item \in Items, NEW q \in 0..(s.size - 1), NEW s2, Hashed, s \in Tables, Reached(s),
           Written(s, q, item, s2), s.table[q] = NULL,
           \A y \in 0..(s.size - 1) : s.table[y] = NULL =>
                 Steps(s.size, Home(s, item), q) <= Steps(s.size, Home(s, item), y)
    PROVE  Reached(s2)
<1> SUFFICES ASSUME NEW i \in 0..(s.size - 1), NEW z \in 0..(s.size - 1),
                    s2.table[i] # NULL, s2.table[z] = NULL
             PROVE  Steps(s.size, Home(s, s2.table[i]), i) < Steps(s.size, Home(s, s2.table[i]), z)
  BY DEF Reached, Written, Home
<1>1. z # q /\ s.table[z] = NULL
  BY SetAssumption DEF Written
<1>2. CASE i = q
  BY <1>1, <1>2, StepsDiffer, HomeIs, TableSize DEF Written
<1>3. CASE i # q
  BY <1>1, <1>3 DEF Written, Reached
<1> QED
  BY <1>2, <1>3

\* An item that is in the table is replaced.
LEMMA PlaceOld ==
    ASSUME NEW s, NEW item \in Items, NEW j \in 0..(s.size - 1), Hashed, Plain(s), Reached(s),
           s.table[j] # NULL, Eq(s.table[j], item)
    PROVE  /\ Plain(Place(s, item)) /\ Reached(Place(s, item))
           /\ Held(Place(s, item)) = {m \in Held(s) : ~Eq(m, item)} \cup {item}
           /\ Place(s, item).size = s.size /\ Place(s, item).itemCount = s.itemCount
<1>1. s \in Tables /\ Probe(s, item) = j
  BY ProbeFinds DEF Plain
<1>2. Written(s, j, item, Place(s, item)) /\ Place(s, item).itemCount = s.itemCount
  BY <1>1, PlaceWrites
<1>3. Plain(Place(s, item)) /\ Held(Place(s, item)) = {m \in Held(s) : ~Eq(m, item)} \cup {item}
  BY <1>2, Replaces
<1> PICK s2 : s2 = Place(s, item)
  OBVIOUS
<1>4. Reached(s2)
  <2> SUFFICES ASSUME NEW i \in 0..(s.size - 1), NEW z \in 0..(s.size - 1),
                      s2.table[i] # NULL, s2.table[z] = NULL
               PROVE  Steps(s.size, Home(s, s2.table[i]), i) < Steps(s.size, Home(s, s2.table[i]), z)
    BY <1>2 DEF Reached, Written, Home
  <2>1. z # j /\ s.table[z] = NULL
    BY <1>2, SetAssumption DEF Written
  <2>2. s.table[i] # NULL /\ Home(s, s2.table[i]) = Home(s, s.table[i])
    BY <1>2 DEF Written, Home, Eq
  <2> QED
    BY <2>1, <2>2 DEF Reached
<1> QED
  BY <1>2, <1>3, <1>4 DEF Written

\* In either case the item is in the table then, and nothing that is equal to it.
LEMMA PlaceKeeps ==
    ASSUME NEW s, NEW item \in Items, Hashed, Plain(s), Reached(s), s.itemCount < s.size
    PROVE  /\ Plain(Place(s, item)) /\ Reached(Place(s, item))
           /\ Held(Place(s, item)) = {m \in Held(s) : ~Eq(m, item)} \cup {item}
           /\ Place(s, item).size = s.size
           /\ Place(s, item).itemCount \in {s.itemCount, s.itemCount + 1}
<1>1. CASE \E m \in Held(s) : Eq(m, item)
  <2>1. PICK j \in 0..(s.size - 1) : s.table[j] # NULL /\ Eq(s.table[j], item)
    BY <1>1 DEF Held
  <2> QED
    BY <2>1, PlaceOld
<1>2. CASE \A m \in Held(s) : ~Eq(m, item)
  <2>1. PICK z \in 0..(s.size - 1) : s.table[z] = NULL
    BY SomeEmpty
  <2>2. /\ Plain(Place(s, item)) /\ Held(Place(s, item)) = Held(s) \cup {item}
        /\ Written(s, Probe(s, item), item, Place(s, item))
        /\ Place(s, item).itemCount = s.itemCount + 1
    BY <1>2, <2>1, PlaceNew
  <2>3. {m \in Held(s) : ~Eq(m, item)} = Held(s)
    BY <1>2
  <2>4. Reached(Place(s, item))
    <3> PICK s2 : s2 = Place(s, item)
      OBVIOUS
    <3> PICK q \in 0..(s.size - 1) :
               /\ q = Probe(s, item) /\ s.table[q] = NULL
               /\ \A y \in 0..(s.size - 1) : s.table[y] = NULL =>
                     Steps(s.size, Home(s, item), q) <= Steps(s.size, Home(s, item), y)
      BY <1>2, <2>1, ProbeMisses
    <3>1. Written(s, q, item, s2) /\ s \in Tables
      BY <2>2 DEF Plain
    <3>2. Reached(s2)
      BY <3>1, ReachedNew
    <3> QED
      BY <3>2
  <2> QED
    BY <2>2, <2>3, <2>4 DEF Written
<1> QED
  BY <1>1, <1>2

-----------------------------------------------------------------------------
(* A loop: W[n] is what it has made after n steps, and R[n] what it may make. *)

LEMMA LoopHolds ==
    ASSUME NEW N \in Nat, NEW R, NEW W, W[0] \in R[0],
           \A n \in 1..N : W[n - 1] \in R[n - 1] => W[n] \in R[n]
    PROVE  \A n \in 0..N : W[n] \in R[n]
<1> DEFINE K == {k \in Nat : k <= N => W[k] \in R[k]}
<1>1. 0 \in K
  OBVIOUS
<1>2. ASSUME NEW k \in Nat, k \in K
      PROVE  k + 1 \in K
  <2> SUFFICES ASSUME k + 1 <= N PROVE W[k + 1] \in R[k + 1]
    OBVIOUS
  <2> PICK n \in 1..N : n = k + 1
    OBVIOUS
  <2>1. n - 1 = k /\ k <= N
    OBVIOUS
  <2>2. W[n - 1] \in R[n - 1]
    BY <1>2, <2>1
  <2> QED
    BY <2>2
<1>3. Nat \subseteq K
  <2> HIDE DEF K
  <2> QED
    BY <1>1, <1>2, NumberInduction
<1> QED
  BY <1>3

IsLoop(f, N, first, step) ==
    f = [n \in 0..N |-> IF n = 0 THEN first ELSE step[n][f[n - 1]]]

LEMMA LoopExists ==
    ASSUME NEW N \in Nat, NEW R, NEW first, NEW step, first \in R[0],
           \A n \in 1..N : \A x \in R[n - 1] : step[n][x] \in R[n]
    PROVE  \E f : IsLoop(f, N, first, step) /\ \A n \in 0..N : f[n] \in R[n]
<1> DEFINE e(f, n) == IF n = 0 THEN first ELSE step[n][f[n - 1]]
           K == {k \in Nat : \E f : \A n \in 0..N : n <= k => f[n] = e(f, n)}
           next(f) == [n \in 0..N |-> e(f, n)]
<1>1. ASSUME NEW k \in Nat, NEW f, \A n \in 0..N : n <= k => f[n] = e(f, n)
      PROVE  \A n \in 0..N : n <= k + 1 => next(f)[n] = e(next(f), n)
  <2> SUFFICES ASSUME NEW n \in 0..N, n <= k + 1
               PROVE  next(f)[n] = e(next(f), n)
    OBVIOUS
  <2>1. CASE n = 0
    BY <2>1
  <2>2. CASE n # 0
    <3>1. n - 1 \in 0..N /\ n - 1 <= k
      BY <2>2
    <3>2. next(f)[n - 1] = f[n - 1]
      BY <1>1, <3>1
    <3> QED
      BY <2>2, <3>2
  <2> QED
    BY <2>1, <2>2
<1>2. 0 \in K
  <2> DEFINE f == [n \in 0..N |-> first]
  <2>1. \A n \in 0..N : n <= 0 => f[n] = e(f, n)
    OBVIOUS
  <2> HIDE DEF f, e
  <2> QED
    BY <2>1
<1>3. ASSUME NEW k \in Nat, k \in K
      PROVE  k + 1 \in K
  <2>1. PICK f : \A n \in 0..N : n <= k => f[n] = e(f, n)
    BY <1>3
  <2>2. \A n \in 0..N : n <= k + 1 => next(f)[n] = e(next(f), n)
    BY <1>1, <2>1
  <2> HIDE DEF next, e
  <2> QED
    BY <2>2
<1>4. N \in K
  <2> HIDE DEF K
  <2> QED
    BY <1>2, <1>3, NumberInduction
<1>5. PICK f : \A n \in 0..N : n <= N => f[n] = e(f, n)
  BY <1>4
<1>6. \A n \in 0..N : next(f)[n] = f[n]
  BY <1>5
<1>7. \A n \in 0..N : n # 0 => n - 1 \in 0..N
  OBVIOUS
<1>8. \A n \in 0..N : e(next(f), n) = e(f, n)
  BY <1>6, <1>7
<1> DEFINE W == next(f)
<1>9. W = [n \in 0..N |-> e(W, n)]
  BY <1>8
<1> HIDE DEF W
<1>10. W = [n \in 0..N |-> IF n = 0 THEN first ELSE step[n][W[n - 1]]]
  BY <1>9
<1>11. W[0] \in R[0]
  BY <1>10
<1>12. \A n \in 1..N : W[n] = step[n][W[n - 1]]
  BY <1>10
<1>13. \A n \in 1..N : W[n - 1] \in R[n - 1] => W[n] \in R[n]
  BY <1>12
<1>14. \A n \in 0..N : W[n] \in R[n]
  BY <1>11, <1>13, LoopHolds
<1> QED
  BY <1>10, <1>14 DEF IsLoop

\* So for the loops of the operations: _BRSetGrow,
LEMMA GrowLoop ==
    ASSUME NEW s, NEW R, s.size \in Nat, New(s.size) \in R[0],
           \A n \in 1..s.size : \A x \in R[n - 1] : PlaceAny(x, s.table[n - 1]) \in R[n]
    PROVE  Grow(s) \in R[s.size]
<1> PICK N \in Nat : N = s.size
  OBVIOUS
<1> DEFINE step == [n \in 1..N |-> [x \in R[n - 1] |-> PlaceAny(x, s.table[n - 1])]]
           Is(f) == f = [n \in 0..N |-> IF n = 0 THEN New(s.size) ELSE PlaceAny(f[n - 1], s.table[n - 1])]
<1>1. \A n \in 1..N : \A x \in R[n - 1] : step[n][x] = PlaceAny(x, s.table[n - 1])
  OBVIOUS
<1> HIDE DEF step
<1>2. \A n \in 1..N : \A x \in R[n - 1] : step[n][x] \in R[n]
  BY <1>1
<1>3. PICK f : IsLoop(f, N, New(s.size), step) /\ \A n \in 0..N : f[n] \in R[n]
  BY <1>2, LoopExists
<1>4. \A n \in 1..N : n - 1 \in 0..N
  OBVIOUS
<1>5. \A n \in 1..N : step[n][f[n - 1]] = PlaceAny(f[n - 1], s.table[n - 1])
  BY <1>1, <1>3, <1>4
<1>6. Is(f)
  BY <1>3, <1>5 DEF IsLoop
<1> DEFINE W == CHOOSE g : Is(g)
<1>7. Is(W)
  <2> HIDE DEF Is
  <2> QED
    BY <1>6
<1>8. W[N] = Grow(s)
  BY DEF Grow
<1> HIDE DEF W
<1>9. W[0] = New(s.size) /\ \A n \in 1..N : W[n] = PlaceAny(W[n - 1], s.table[n - 1])
  BY <1>7
<1>10. \A n \in 1..N : W[n - 1] \in R[n - 1] => W[n] \in R[n]
  BY <1>9
<1>11. \A n \in 0..N : W[n] \in R[n]
  BY <1>9, <1>10, LoopHolds
<1> QED
  BY <1>8, <1>11

\* BRSetUnion,
LEMMA AddAllLoop ==
    ASSUME NEW s, NEW other, NEW R, other.size \in Nat, s \in R[0],
           \A n \in 1..other.size : \A x \in R[n - 1] : AddAny(x, other.table[n - 1]) \in R[n]
    PROVE  AddAll(s, other) \in R[other.size]
<1> PICK N \in Nat : N = other.size
  OBVIOUS
<1> DEFINE step == [n \in 1..N |-> [x \in R[n - 1] |-> AddAny(x, other.table[n - 1])]]
           Is(f) == f = [n \in 0..N |-> IF n = 0 THEN s ELSE AddAny(f[n - 1], other.table[n - 1])]
<1>1. \A n \in 1..N : \A x \in R[n - 1] : step[n][x] = AddAny(x, other.table[n - 1])
  OBVIOUS
<1> HIDE DEF step
<1>2. \A n \in 1..N : \A x \in R[n - 1] : step[n][x] \in R[n]
  BY <1>1
<1>3. PICK f : IsLoop(f, N, s, step) /\ \A n \in 0..N : f[n] \in R[n]
  BY <1>2, LoopExists
<1>4. \A n \in 1..N : n - 1 \in 0..N
  OBVIOUS
<1>5. \A n \in 1..N : step[n][f[n - 1]] = AddAny(f[n - 1], other.table[n - 1])
  BY <1>1, <1>3, <1>4
<1>6. Is(f)
  BY <1>3, <1>5 DEF IsLoop
<1> DEFINE W == CHOOSE g : Is(g)
<1>7. Is(W)
  <2> HIDE DEF Is
  <2> QED
    BY <1>6
<1>8. W[N] = AddAll(s, other)
  BY DEF AddAll
<1> HIDE DEF W
<1>9. W[0] = s /\ \A n \in 1..N : W[n] = AddAny(W[n - 1], other.table[n - 1])
  BY <1>7
<1>10. \A n \in 1..N : W[n - 1] \in R[n - 1] => W[n] \in R[n]
  BY <1>9
<1>11. \A n \in 0..N : W[n] \in R[n]
  BY <1>9, <1>10, LoopHolds
<1> QED
  BY <1>8, <1>11

\* BRSetMinus,
LEMMA RemoveAllLoop ==
    ASSUME NEW s, NEW other, NEW R, other.size \in Nat, s \in R[0],
           \A n \in 1..other.size : \A x \in R[n - 1] : RemoveAny(x, other.table[n - 1]) \in R[n]
    PROVE  RemoveAll(s, other) \in R[other.size]
<1> PICK N \in Nat : N = other.size
  OBVIOUS
<1> DEFINE step == [n \in 1..N |-> [x \in R[n - 1] |-> RemoveAny(x, other.table[n - 1])]]
           Is(f) == f = [n \in 0..N |-> IF n = 0 THEN s ELSE RemoveAny(f[n - 1], other.table[n - 1])]
<1>1. \A n \in 1..N : \A x \in R[n - 1] : step[n][x] = RemoveAny(x, other.table[n - 1])
  OBVIOUS
<1> HIDE DEF step
<1>2. \A n \in 1..N : \A x \in R[n - 1] : step[n][x] \in R[n]
  BY <1>1
<1>3. PICK f : IsLoop(f, N, s, step) /\ \A n \in 0..N : f[n] \in R[n]
  BY <1>2, LoopExists
<1>4. \A n \in 1..N : n - 1 \in 0..N
  OBVIOUS
<1>5. \A n \in 1..N : step[n][f[n - 1]] = RemoveAny(f[n - 1], other.table[n - 1])
  BY <1>1, <1>3, <1>4
<1>6. Is(f)
  BY <1>3, <1>5 DEF IsLoop
<1> DEFINE W == CHOOSE g : Is(g)
<1>7. Is(W)
  <2> HIDE DEF Is
  <2> QED
    BY <1>6
<1>8. W[N] = RemoveAll(s, other)
  BY DEF RemoveAll
<1> HIDE DEF W
<1>9. W[0] = s /\ \A n \in 1..N : W[n] = RemoveAny(W[n - 1], other.table[n - 1])
  BY <1>7
<1>10. \A n \in 1..N : W[n - 1] \in R[n - 1] => W[n] \in R[n]
  BY <1>9
<1>11. \A n \in 0..N : W[n] \in R[n]
  BY <1>9, <1>10, LoopHolds
<1> QED
  BY <1>8, <1>11

\* the making of a second set,
LEMMA OtherLoop ==
    ASSUME NEW order, NEW R, Len(order) \in Nat, New(0) \in R[0],
           \A n \in 1..Len(order) : \A x \in R[n - 1] : AddTo(x, order[n]) \in R[n]
    PROVE  Other(order) \in R[Len(order)]
<1> PICK N \in Nat : N = Len(order)
  OBVIOUS
<1> DEFINE step == [n \in 1..N |-> [x \in R[n - 1] |-> AddTo(x, order[n])]]
           Is(f) == f = [n \in 0..N |-> IF n = 0 THEN New(0) ELSE AddTo(f[n - 1], order[n])]
<1>1. \A n \in 1..N : \A x \in R[n - 1] : step[n][x] = AddTo(x, order[n])
  OBVIOUS
<1> HIDE DEF step
<1>2. \A n \in 1..N : \A x \in R[n - 1] : step[n][x] \in R[n]
  BY <1>1
<1>3. PICK f : IsLoop(f, N, New(0), step) /\ \A n \in 0..N : f[n] \in R[n]
  BY <1>2, LoopExists
<1>4. \A n \in 1..N : n - 1 \in 0..N
  OBVIOUS
<1>5. \A n \in 1..N : step[n][f[n - 1]] = AddTo(f[n - 1], order[n])
  BY <1>1, <1>3, <1>4
<1>6. Is(f)
  BY <1>3, <1>5 DEF IsLoop
<1> DEFINE W == CHOOSE g : Is(g)
<1>7. Is(W)
  <2> HIDE DEF Is
  <2> QED
    BY <1>6
<1>8. W[N] = Other(order)
  BY DEF Other
<1> HIDE DEF W
<1>9. W[0] = New(0) /\ \A n \in 1..N : W[n] = AddTo(W[n - 1], order[n])
  BY <1>7
<1>10. \A n \in 1..N : W[n - 1] \in R[n - 1] => W[n] \in R[n]
  BY <1>9
<1>11. \A n \in 0..N : W[n] \in R[n]
  BY <1>9, <1>10, LoopHolds
<1> QED
  BY <1>8, <1>11

\* BRSetAll,
LEMMA AllLoop ==
    ASSUME NEW s, NEW R, s.size \in Nat, << >> \in R[0],
           \A n \in 1..s.size : \A x \in R[n - 1] : AppendAny(x, s.table[n - 1]) \in R[n]
    PROVE  All(s) \in R[s.size]
<1> PICK N \in Nat : N = s.size
  OBVIOUS
<1> DEFINE step == [n \in 1..N |-> [x \in R[n - 1] |-> AppendAny(x, s.table[n - 1])]]
           Is(f) == f = [n \in 0..N |-> IF n = 0 THEN << >> ELSE AppendAny(f[n - 1], s.table[n - 1])]
<1>1. \A n \in 1..N : \A x \in R[n - 1] : step[n][x] = AppendAny(x, s.table[n - 1])
  OBVIOUS
<1> HIDE DEF step
<1>2. \A n \in 1..N : \A x \in R[n - 1] : step[n][x] \in R[n]
  BY <1>1
<1>3. PICK f : IsLoop(f, N, << >>, step) /\ \A n \in 0..N : f[n] \in R[n]
  BY <1>2, LoopExists
<1>4. \A n \in 1..N : n - 1 \in 0..N
  OBVIOUS
<1>5. \A n \in 1..N : step[n][f[n - 1]] = AppendAny(f[n - 1], s.table[n - 1])
  BY <1>1, <1>3, <1>4
<1>6. Is(f)
  BY <1>3, <1>5 DEF IsLoop
<1> DEFINE W == CHOOSE g : Is(g)
<1>7. Is(W)
  <2> HIDE DEF Is
  <2> QED
    BY <1>6
<1>8. W[N] = All(s)
  BY DEF All
<1> HIDE DEF W
<1>9. W[0] = << >> /\ \A n \in 1..N : W[n] = AppendAny(W[n - 1], s.table[n - 1])
  BY <1>7
<1>10. \A n \in 1..N : W[n - 1] \in R[n - 1] => W[n] \in R[n]
  BY <1>9
<1>11. \A n \in 0..N : W[n] \in R[n]
  BY <1>9, <1>10, LoopHolds
<1> QED
  BY <1>8, <1>11

\* the clean-up of BRSetRemove
LEMMA CleanUpLoop ==
    ASSUME NEW s, NEW i, NEW R, s.size \in Nat, [s |-> s, i |-> i] \in R[0],
           \A n \in 1..s.size : \A x \in R[n - 1] : Moved(x) \in R[n]
    PROVE  \E at \in R[s.size] : CleanUp(s, i) = at.s
<1> PICK N \in Nat : N = s.size
  OBVIOUS
<1> DEFINE step == [n \in 1..N |-> [x \in R[n - 1] |-> Moved(x)]]
           Is(f) == f = [n \in 0..N |-> IF n = 0 THEN [s |-> s, i |-> i] ELSE Moved(f[n - 1])]
<1>1. \A n \in 1..N : \A x \in R[n - 1] : step[n][x] = Moved(x)
  OBVIOUS
<1> HIDE DEF step
<1>2. \A n \in 1..N : \A x \in R[n - 1] : step[n][x] \in R[n]
  BY <1>1
<1>3. PICK f : IsLoop(f, N, [s |-> s, i |-> i], step) /\ \A n \in 0..N : f[n] \in R[n]
  BY <1>2, LoopExists
<1>4. \A n \in 1..N : n - 1 \in 0..N
  OBVIOUS
<1>5. \A n \in 1..N : step[n][f[n - 1]] = Moved(f[n - 1])
  BY <1>1, <1>3, <1>4
<1>6. Is(f)
  BY <1>3, <1>5 DEF IsLoop
<1> DEFINE W == CHOOSE g : Is(g)
<1>7. Is(W)
  <2> HIDE DEF Is
  <2> QED
    BY <1>6
<1>8. W[N].s = CleanUp(s, i)
  BY DEF CleanUp
<1> HIDE DEF W
<1>9. W[0] = [s |-> s, i |-> i] /\ \A n \in 1..N : W[n] = Moved(W[n - 1])
  BY <1>7
<1>10. \A n \in 1..N : W[n - 1] \in R[n - 1] => W[n] \in R[n]
  BY <1>9
<1>11. \A n \in 0..N : W[n] \in R[n]
  BY <1>9, <1>10, LoopHolds
<1> QED
  BY <1>8, <1>11

\* and BRSetIntersect.
LEMMA IntersectionLoop ==
    ASSUME NEW s, NEW other, NEW R, s.size + s.itemCount \in Nat, [s |-> s, i |-> 0] \in R[0],
           \A n \in 1..(s.size + s.itemCount) : \A x \in R[n - 1] : Compared(x, other) \in R[n]
    PROVE  \E at \in R[s.size + s.itemCount] : Intersection(s, other) = at.s
<1> PICK N \in Nat : N = s.size + s.itemCount
  OBVIOUS
<1> DEFINE step == [n \in 1..N |-> [x \in R[n - 1] |-> Compared(x, other)]]
           Is(f) == f = [n \in 0..N |-> IF n = 0 THEN [s |-> s, i |-> 0] ELSE Compared(f[n - 1], other)]
<1>1. \A n \in 1..N : \A x \in R[n - 1] : step[n][x] = Compared(x, other)
  OBVIOUS
<1> HIDE DEF step
<1>2. \A n \in 1..N : \A x \in R[n - 1] : step[n][x] \in R[n]
  BY <1>1
<1>3. PICK f : IsLoop(f, N, [s |-> s, i |-> 0], step) /\ \A n \in 0..N : f[n] \in R[n]
  BY <1>2, LoopExists
<1>4. \A n \in 1..N : n - 1 \in 0..N
  OBVIOUS
<1>5. \A n \in 1..N : step[n][f[n - 1]] = Compared(f[n - 1], other)
  BY <1>1, <1>3, <1>4
<1>6. Is(f)
  BY <1>3, <1>5 DEF IsLoop
<1> DEFINE W == CHOOSE g : Is(g)
<1>7. Is(W)
  <2> HIDE DEF Is
  <2> QED
    BY <1>6
<1>8. W[N].s = Intersection(s, other)
  BY DEF Intersection
<1> HIDE DEF W
<1>9. W[0] = [s |-> s, i |-> 0] /\ \A n \in 1..N : W[n] = Compared(W[n - 1], other)
  BY <1>7
<1>10. \A n \in 1..N : W[n - 1] \in R[n - 1] => W[n] \in R[n]
  BY <1>9
<1>11. \A n \in 0..N : W[n] \in R[n]
  BY <1>9, <1>10, LoopHolds
<1> QED
  BY <1>8, <1>11

-----------------------------------------------------------------------------
(* A new table, and one that grows. *)

Blank(n) == [table |-> [b \in 0..(n - 1) |-> NULL], size |-> n, itemCount |-> 0]

LEMMA BlankIs ==
    ASSUME NEW n \in Sizes
    PROVE  Good(Blank(n)) /\ Held(Blank(n)) = {} /\ Blank(n).size = n
<1>1. n \in Nat /\ n > 0 /\ Limit(n) \in Nat
  BY LimitIs
<1> PICK t : t = [b \in 0..(n - 1) |-> NULL]
  OBVIOUS
<1>2. t \in [0..(n - 1) -> Items \cup {NULL}] /\ \A b \in 0..(n - 1) : t[b] = NULL
  OBVIOUS
<1> PICK s : s = [table |-> t, size |-> n, itemCount |-> 0]
  OBVIOUS
<1>3. s \in Tables
  BY <1>2, TableMade
<1>4. s.table = t /\ s.size = n /\ s.itemCount = 0
  OBVIOUS
<1>5. Full(s) = {} /\ Held(s) = {} /\ Unique(s) /\ Reached(s)
  BY <1>2, <1>4 DEF Full, Held, Unique, Reached
<1>6. Cardinality(Full(s)) = 0
  BY <1>5, FS_EmptySet
<1>7. Good(s)
  BY <1>1, <1>3, <1>4, <1>5, <1>6 DEF Good, Plain
<1> QED
  BY <1>4, <1>5, <1>7 DEF Blank

\* The sizes that are not smaller than the capacity.
Enough(capacity) == {n \in 1..Len(tableSizes) : tableSizes[n] >= capacity}

LEMMA NewIs ==
    ASSUME NEW capacity \in Nat, NEW n \in 2..Len(tableSizes), capacity <= tableSizes[n - 1]
    PROVE  /\ New(capacity) = Blank(tableSizes[Min(Enough(capacity)) + 1])
           /\ Min(Enough(capacity)) \in 1..(n - 1) /\ tableSizes[Min(Enough(capacity))] >= capacity
<1>1. New(capacity) = Blank(tableSizes[Min(Enough(capacity)) + 1])
  BY DEF New, Blank, Enough
<1>2. n - 1 \in Enough(capacity)
  BY SizesAre DEF Enough
<1>3. Enough(capacity) \subseteq Nat
  BY DEF Enough
<1>4. Min(Enough(capacity)) \in Enough(capacity) /\ Min(Enough(capacity)) <= n - 1
  BY <1>2, <1>3, MinIs
<1>5. Min(Enough(capacity)) \in 1..(n - 1) /\ tableSizes[Min(Enough(capacity))] >= capacity
  BY <1>4 DEF Enough
<1> QED
  BY <1>1, <1>5

\* A set is made empty, and no larger than the items need.
LEMMA NewFits ==
    ASSUME NEW capacity \in Capacities \cup {0}
    PROVE  Good(New(capacity)) /\ Held(New(capacity)) = {} /\ New(capacity).size <= MaxSize
<1>1. PICK n \in 2..Len(tableSizes) : MaxSize = tableSizes[n] /\ \A c \in Capacities : c <= tableSizes[n - 1]
  BY SetAssumption
<1>2. capacity \in Nat /\ capacity <= tableSizes[n - 1]
  <2>1. n - 1 \in 1..Len(tableSizes)
    BY SizesAre
  <2>2. tableSizes[n - 1] \in Nat
    BY <2>1, SizesAre
  <2> QED
    BY <1>1, <2>2, SetAssumption
<1>3. PICK k \in 1..(n - 1) : New(capacity) = Blank(tableSizes[k + 1])
  BY <1>2, NewIs
<1>4. k + 1 \in 2..Len(tableSizes) /\ k + 1 <= n
  BY SizesAre
<1>5. tableSizes[k + 1] <= tableSizes[n]
  <2>1. CASE k + 1 = n
    BY <2>1, SizesAre
  <2>2. CASE k + 1 < n
    <3>1. k + 1 \in 1..Len(tableSizes) /\ n \in 1..Len(tableSizes)
      BY <1>4, SizesAre
    <3>2. tableSizes[k + 1] < tableSizes[n]
      BY <2>2, <3>1, SizesIncrease
    <3> QED
      BY <3>1, <3>2, SizesAre
  <2> QED
    BY <1>4, <2>1, <2>2
<1>6. tableSizes[k + 1] \in Sizes
  BY <1>4 DEF Sizes
<1> QED
  BY <1>1, <1>3, <1>5, <1>6, BlankIs

\* A table grows to the next size.
LEMMA NewGrows ==
    ASSUME NEW k \in 2..(Len(tableSizes) - 1)
    PROVE  New(tableSizes[k]) = Blank(tableSizes[k + 1])
<1>1. k + 1 \in 2..Len(tableSizes) /\ (k + 1) - 1 = k /\ k \in 1..Len(tableSizes)
  BY SizesAre
<1>2. tableSizes[k] \in Nat /\ tableSizes[k] <= tableSizes[(k + 1) - 1]
  BY <1>1, SizesAre
<1>3. /\ New(tableSizes[k]) = Blank(tableSizes[Min(Enough(tableSizes[k])) + 1])
      /\ Min(Enough(tableSizes[k])) \in 1..((k + 1) - 1)
      /\ tableSizes[Min(Enough(tableSizes[k]))] >= tableSizes[k]
  BY <1>1, <1>2, NewIs
<1> PICK i \in 1..k : i = Min(Enough(tableSizes[k]))
  BY <1>1, <1>3
<1>4. i = k
  <2> SUFFICES ASSUME i < k PROVE FALSE
    OBVIOUS
  <2>1. i \in 1..Len(tableSizes)
    BY <1>1
  <2>2. tableSizes[i] < tableSizes[k]
    BY <1>1, <2>1, SizesIncrease
  <2> QED
    BY <1>1, <1>3, <2>1, <2>2, SizesAre
<1> QED
  BY <1>3, <1>4

\* The items in the first n buckets.
First(s, n) == {s.table[i] : i \in 0..(n - 1)} \ {NULL}

LEMMA FirstIs ==
    ASSUME NEW s, NEW n \in Nat, n > 0, n <= s.size, s.size \in Nat
    PROVE  /\ First(s, 0) = {} /\ First(s, s.size) = Held(s) /\ First(s, n) \subseteq Held(s)
           /\ s.table[n - 1] = NULL => First(s, n) = First(s, n - 1)
           /\ s.table[n - 1] # NULL => First(s, n) = First(s, n - 1) \cup {s.table[n - 1]}
<1>1. First(s, 0) = {}
  BY DEF First
<1>2. First(s, s.size) = Held(s) /\ First(s, n) \subseteq Held(s)
  BY DEF First, Held
<1>3. 0..(n - 1) = (0..((n - 1) - 1)) \cup {n - 1}
  OBVIOUS
<1>4. First(s, n) = ({s.table[i] : i \in 0..((n - 1) - 1)} \cup {s.table[n - 1]}) \ {NULL}
  BY <1>3 DEF First
<1> QED
  BY <1>1, <1>2, <1>4 DEF First

\* Equal items in different buckets there are none.
LEMMA FirstUnique ==
    ASSUME NEW s, NEW n \in Nat, n > 0, n <= s.size, s.size \in Nat, Unique(s), s.table[n - 1] # NULL
    PROVE  {m \in First(s, n - 1) : ~Eq(m, s.table[n - 1])} = First(s, n - 1)
<1>1. \A i \in 0..((n - 1) - 1) : s.table[i] # NULL => ~Eq(s.table[i], s.table[n - 1])
  BY DEF Unique
<1> QED
  BY <1>1 DEF First

\* _BRSetGrow keeps the items.
LEMMA GrowKeeps ==
    ASSUME NEW s, NEW k \in 2..(Len(tableSizes) - 1), Hashed, Plain(s), s.size = tableSizes[k],
           s.itemCount <= Limit(s.size) + 1
    PROVE  Good(Grow(s)) /\ Held(Grow(s)) = Held(s) /\ Grow(s).size = tableSizes[k + 1]
<1> DEFINE next == tableSizes[k + 1]
           Q(n) == {x \in Tables : Good(x) /\ x.size = next /\ Held(x) = First(s, n)}
           R == [n \in 0..s.size |-> Q(n)]
<1>1. s \in Tables /\ s.size \in Nat /\ s.size > 0
  BY TableSize DEF Plain
<1>2. next \in Sizes /\ s.itemCount <= Limit(next)
  <2>1. k + 1 \in 3..Len(tableSizes) /\ k + 1 \in 2..Len(tableSizes) /\ (k + 1) - 1 = k
    BY SizesAre
  <2>2. next \in Sizes
    BY <2>1 DEF Sizes
  <2>3. Limit(tableSizes[k]) + 1 <= Limit(next)
    BY <2>1, LimitGrows
  <2> QED
    BY <1>1, <2>2, <2>3, LimitIs, TableSize, TableIs
<1>3. New(s.size) \in R[0]
  <2>1. Good(New(s.size)) /\ Held(New(s.size)) = {} /\ New(s.size).size = next
    BY <1>2, BlankIs, NewGrows
  <2>2. First(s, 0) = {}
    BY DEF First
  <2>3. New(s.size) \in Tables
    BY <2>1 DEF Good, Plain
  <2>4. New(s.size) \in Q(0)
    BY <2>1, <2>2, <2>3
  <2> QED
    BY <1>1, <2>4
<1>4. ASSUME NEW n \in 1..s.size, NEW x \in R[n - 1]
      PROVE  PlaceAny(x, s.table[n - 1]) \in R[n]
  <2> PICK t : t = s.table[n - 1]
    OBVIOUS
  <2>1. /\ n \in Nat /\ n > 0 /\ n <= s.size /\ n \in 0..s.size
        /\ n - 1 \in 0..s.size /\ n - 1 \in 0..(s.size - 1)
    BY <1>1
  <2>2. x \in Tables /\ Good(x) /\ x.size = next /\ Held(x) = First(s, n - 1)
    BY <1>4, <2>1
  <2> SUFFICES PlaceAny(x, t) \in Q(n)
    BY <2>1
  <2> HIDE DEF R
  <2>3. CASE t = NULL
    <3>1. First(s, n) = First(s, n - 1)
      BY <1>1, <2>1, <2>3, FirstIs
    <3> QED
      BY <2>2, <2>3, <3>1 DEF PlaceAny
  <2>4. CASE t # NULL
    <3>1. t \in Items
      BY <1>1, <2>1, <2>4, BucketIs
    <3>2. x.itemCount < x.size
      BY <2>2, TableSize, TableIs DEF Good
    <3>3. /\ Plain(Place(x, t)) /\ Reached(Place(x, t)) /\ Place(x, t).size = x.size
          /\ Held(Place(x, t)) = {m \in Held(x) : ~Eq(m, t)} \cup {t}
      BY <2>2, <3>1, <3>2, PlaceKeeps DEF Good
    <3>4. Held(Place(x, t)) = First(s, n)
      <4>1. First(s, n) = First(s, n - 1) \cup {t}
        BY <1>1, <2>1, <2>4, FirstIs
      <4>2. {m \in First(s, n - 1) : ~Eq(m, t)} = First(s, n - 1)
        BY <1>1, <2>1, <2>4, FirstUnique DEF Plain
      <4> QED
        BY <2>2, <3>3, <4>1, <4>2
    <3>5. Place(x, t).itemCount <= s.itemCount
      <4>1. Held(Place(x, t)) \in SUBSET Held(s)
        BY <1>1, <2>1, <3>4, FirstIs
      <4> QED
        BY <3>3, <4>1, HeldCount, FS_Subset
    <3>6. Place(x, t) \in Tables
      BY <3>3 DEF Plain
    <3>7. Place(x, t).itemCount <= Limit(next)
      BY <1>1, <1>2, <3>5, <3>6, LimitIs, TableIs
    <3> QED
      BY <2>2, <2>4, <3>3, <3>4, <3>6, <3>7 DEF PlaceAny, Good
  <2> QED
    BY <2>3, <2>4
<1>5. Grow(s) \in R[s.size]
  <2> HIDE DEF R
  <2> QED
    BY <1>1, <1>3, <1>4, GrowLoop
<1> QED
  BY <1>1, <1>5, FirstIs

-----------------------------------------------------------------------------
(* BRSetAdd. *)

Fits(s) == Good(s) /\ s.size <= MaxSize

\* The item is in the table then, and nothing that is equal to it; the table grows as far as the
\* items need.
LEMMA AddToKeeps ==
    ASSUME NEW s, NEW item \in Items, Hashed, Fits(s)
    PROVE  /\ Fits(AddTo(s, item))
           /\ Held(AddTo(s, item)) = {m \in Held(s) : ~Eq(m, item)} \cup {item}
<1> PICK p : p = Place(s, item)
  OBVIOUS
<1>1. s \in Tables /\ s.itemCount \in Nat /\ s.size \in Nat /\ Limit(s.size) \in Nat /\ s.itemCount < s.size
  BY TableSize, TableIs DEF Fits, Good, Plain
<1>2. /\ Plain(p) /\ Reached(p) /\ Held(p) = {m \in Held(s) : ~Eq(m, item)} \cup {item}
      /\ p.size = s.size /\ p.itemCount \in {s.itemCount, s.itemCount + 1}
  BY <1>1, PlaceKeeps DEF Fits, Good
<1>3. CASE ~(p.itemCount > Limit(s.size))
  <2>1. AddTo(s, item) = p
    BY <1>3 DEF AddTo
  <2>2. Good(p)
    BY <1>1, <1>2, <1>3 DEF Good
  <2> QED
    BY <1>2, <2>1, <2>2 DEF Fits
<1>4. CASE p.itemCount > Limit(s.size)
  <2>1. AddTo(s, item) = Grow(p)
    BY <1>4 DEF AddTo
  <2>2. p.itemCount <= Limit(p.size) + 1
    BY <1>1, <1>2 DEF Fits, Good
  <2>3. PICK m \in 2..Len(tableSizes) : MaxSize = tableSizes[m] /\ Cardinality(Classes) <= Limit(MaxSize)
    BY SetAssumption
  <2>4. PICK k \in 2..Len(tableSizes) : s.size = tableSizes[k]
    BY <1>1, TableIs DEF Sizes
  <2>5. Limit(tableSizes[k]) < Limit(tableSizes[m])
    <3>1. p.itemCount <= Cardinality(Classes) /\ Cardinality(Classes) \in Nat
      BY <1>2, ClassCount, SetAssumption, FS_CardinalityType
    <3>2. Limit(tableSizes[m]) \in Nat
      BY LimitIs DEF Sizes
    <3> QED
      BY <1>1, <1>2, <1>4, <2>3, <2>4, <3>1, <3>2
  <2>6. k < m
    <3> SUFFICES ASSUME m <= k PROVE FALSE
      BY SizesAre
    <3>1. Limit(tableSizes[m]) <= Limit(tableSizes[k])
      BY LimitIncreases
    <3>2. Limit(tableSizes[m]) \in Nat /\ Limit(tableSizes[k]) \in Nat
      BY LimitIs DEF Sizes
    <3> QED
      BY <2>5, <3>1, <3>2
  <2>7. k \in 2..(Len(tableSizes) - 1)
    BY <2>6, SizesAre
  <2>8. Good(Grow(p)) /\ Held(Grow(p)) = Held(p) /\ Grow(p).size = tableSizes[k + 1]
    BY <1>2, <2>2, <2>4, <2>7, GrowKeeps
  <2>9. tableSizes[k + 1] <= tableSizes[m]
    <3>1. k + 1 \in 1..Len(tableSizes) /\ m \in 1..Len(tableSizes)
      BY <2>6, SizesAre
    <3>2. CASE k + 1 = m
      BY <3>1, <3>2, SizesAre
    <3>3. CASE k + 1 < m
      <4>1. tableSizes[k + 1] < tableSizes[m]
        BY <3>1, <3>3, SizesIncrease
      <4> QED
        BY <3>1, <4>1, SizesAre
    <3> QED
      BY <2>6, <3>2, <3>3, SizesAre
  <2> QED
    BY <1>2, <2>1, <2>3, <2>8, <2>9 DEF Fits
<1> QED
  BY <1>3, <1>4

-----------------------------------------------------------------------------
(* The clean-up of BRSetRemove. *)

\* The next bucket.
LEMMA NextIs ==
    ASSUME NEW n \in Nat, NEW c \in 0..(n - 1)
    PROVE  ((c + 1) % n) = IF c + 1 < n THEN c + 1 ELSE 0
<1> PICK h \in Nat : h = c + 1
  OBVIOUS
<1>1. CASE h < n
  <2>1. h = n * 0 + h
    OBVIOUS
  <2> QED
    BY <1>1, <2>1, ModIs
<1>2. CASE ~(h < n)
  <2>1. h = n * 1 + 0 /\ n > 0
    BY <1>2
  <2> QED
    BY <1>2, <2>1, ModIs
<1> QED
  BY <1>1, <1>2

\* Every item is found, but those from the cursor c to the next empty bucket that are behind a hole
\* between the bucket p, whose item was removed, and the cursor.
Behind(s, p, c) ==
    \A j, z \in 0..(s.size - 1) : s.table[j] # NULL /\ s.table[z] = NULL =>
        \/ Steps(s.size, Home(s, s.table[j]), j) < Steps(s.size, Home(s, s.table[j]), z)
        \/ /\ Steps(s.size, p, z) < Steps(s.size, p, c)
           /\ \A y \in 0..(s.size - 1) : s.table[y] = NULL => Steps(s.size, c, j) < Steps(s.size, c, y)

LEMMA StepsInt ==
    ASSUME NEW n \in Nat, NEW x \in 0..(n - 1), NEW y \in 0..(n - 1)
    PROVE  Steps(n, x, y) \in 0..(n - 1) /\ Steps(n, x, x) = 0
  BY DEF Steps

\* The bucket before the first is the last.
LEMMA StepsRound ==
    ASSUME NEW n \in Nat, NEW p \in 0..(n - 1), NEW d, NEW j \in 0..(n - 1), j # p,
           d = IF p + 1 < n THEN p + 1 ELSE 0
    PROVE  Steps(n, d, j) < Steps(n, d, p)
  BY DEF Steps

LEMMA StepsNext ==
    ASSUME NEW n \in Nat, NEW c \in 0..(n - 1), NEW d, NEW j \in 0..(n - 1), NEW y \in 0..(n - 1),
           d = IF c + 1 < n THEN c + 1 ELSE 0, j # c, Steps(n, c, j) < Steps(n, c, y)
    PROVE  Steps(n, d, j) < Steps(n, d, y)
  BY DEF Steps

LEMMA StepsFrom ==
    ASSUME NEW n \in Nat, NEW h \in 0..(n - 1), NEW p \in 0..(n - 1), NEW j \in 0..(n - 1),
           NEW y \in 0..(n - 1), Steps(n, h, p) < Steps(n, h, j), Steps(n, h, j) < Steps(n, h, y)
    PROVE  Steps(n, p, j) < Steps(n, p, y)
  BY DEF Steps

\* The removal makes the hole p, and the clean-up starts behind it.
LEMMA BehindFirst ==
    ASSUME NEW s, NEW p \in 0..(s.size - 1), NEW e \in 0..(s.size - 1), NEW s2, NEW d,
           Hashed, s \in Tables, Reached(s), Written(s, p, NULL, s2), s.table[p] # NULL, s.table[e] = NULL,
           d = IF p + 1 < s.size THEN p + 1 ELSE 0
    PROVE  Behind(s2, p, d) /\ Steps(s.size, p, d) = 1 /\ Steps(s.size, p, d) <= Steps(s.size, p, e)
<1> PICK n \in Nat : n = s.size /\ n > 0
  BY TableSize
<1>1. d \in 0..(n - 1) /\ Steps(n, p, d) = 1 /\ Steps(n, p, d) <= Steps(n, p, e)
  BY DEF Steps
<1>2. ASSUME NEW j \in 0..(n - 1), NEW z \in 0..(n - 1), s2.table[j] # NULL, s2.table[z] = NULL,
             ~(Steps(n, Home(s, s2.table[j]), j) < Steps(n, Home(s, s2.table[j]), z))
      PROVE  /\ Steps(n, p, z) < Steps(n, p, d)
             /\ \A y \in 0..(n - 1) : s2.table[y] = NULL => Steps(n, d, j) < Steps(n, d, y)
  <2>1. j # p /\ s.table[j] = s2.table[j] /\ s.table[j] # NULL
    BY <1>2 DEF Written
  <2> PICK h \in 0..(n - 1) : h = Home(s, s.table[j])
    BY <2>1, BucketIs, HomeIs
  <2>2. \A y \in 0..(n - 1) : s.table[y] = NULL => Steps(n, h, j) < Steps(n, h, y)
    BY <2>1 DEF Reached
  <2>3. z = p
    BY <1>2, <2>1, <2>2 DEF Written
  <2>4. Steps(n, p, z) < Steps(n, p, d)
    BY <1>1, <2>3, StepsInt
  <2>5. Steps(n, h, p) < Steps(n, h, j)
    BY <1>2, <2>1, <2>3 DEF Steps
  <2>6. ASSUME NEW y \in 0..(n - 1), s2.table[y] = NULL
        PROVE  Steps(n, d, j) < Steps(n, d, y)
    <3>1. CASE y = p
      BY <2>1, <3>1, StepsRound
    <3>2. CASE y # p
      <4>1. s.table[y] = NULL
        BY <2>6, <3>2 DEF Written
      <4>2. Steps(n, p, j) < Steps(n, p, y)
        BY <2>2, <2>5, <4>1, StepsFrom
      <4> QED
        BY <2>1, <4>2, StepsNext
    <3> QED
      BY <3>1, <3>2
  <2> QED
    BY <2>4, <2>6
<1>3. s2.size = n /\ \A t : Home(s2, t) = Home(s, t)
  BY DEF Written, Home
<1>4. Behind(s2, p, d)
  BY <1>2, <1>3 DEF Behind
<1> QED
  BY <1>1, <1>4

\* The item at the cursor c is taken out and put into the bucket q, the first empty one from its hash.
Moves(s, p, c, e, q, s2) ==
    /\ s \in Tables /\ s2.size = s.size
    /\ p \in 0..(s.size - 1) /\ c \in 0..(s.size - 1) /\ e \in 0..(s.size - 1) /\ q \in 0..(s.size - 1)
    /\ s.table[c] # NULL /\ s.table[e] = NULL /\ (q = c \/ s.table[q] = NULL)
    /\ Steps(s.size, p, c) <= Steps(s.size, p, e) /\ Behind(s, p, c)
    /\ s2.table[q] = s.table[c] /\ (q # c => s2.table[c] = NULL)
    /\ \A i \in 0..(s.size - 1) : i # c /\ i # q => s2.table[i] = s.table[i]
    /\ \A y \in 0..(s.size - 1) : s.table[y] = NULL \/ y = c =>
          Steps(s.size, Home(s, s.table[c]), q) <= Steps(s.size, Home(s, s.table[c]), y)

\* It moves back, to the hole at most, and not into the bucket e that ends the clean-up.
LEMMA MovesBack ==
    ASSUME NEW s, NEW p, NEW c, NEW e, NEW q, NEW s2, Hashed, Moves(s, p, c, e, q, s2)
    PROVE  Steps(s.size, p, q) <= Steps(s.size, p, c) /\ q # e /\ c # e /\ s2.table[e] = NULL
<1> PICK n \in Nat : n = s.size /\ n > 0
  BY TableSize DEF Moves
<1>1. p \in 0..(n - 1) /\ c \in 0..(n - 1) /\ e \in 0..(n - 1) /\ q \in 0..(n - 1) /\ s.table[c] # NULL
  BY DEF Moves
<1>2. c # e
  BY DEF Moves
<1> PICK h \in 0..(n - 1) : h = Home(s, s.table[c])
  BY BucketIs, HomeIs DEF Moves
<1>3. Steps(n, h, q) <= Steps(n, h, c)
  BY <1>1 DEF Moves
<1>4. Steps(n, p, c) \in Int /\ Steps(n, p, q) \in Int
  BY <1>1 DEF Steps
<1>5. CASE q = c
  <2>1. s2.table[e] = NULL
    BY <1>1, <1>2, <1>5 DEF Moves
  <2> QED
    BY <1>4, <1>2, <1>5, <2>1
<1>6. CASE q # c
  <2>1. s.table[q] = NULL
    BY <1>6 DEF Moves
  <2>2. ~(Steps(n, h, c) < Steps(n, h, q))
    BY <1>1, <1>3, StepsInt
  <2>3. Steps(n, p, q) < Steps(n, p, c)
    BY <1>1, <2>1, <2>2 DEF Moves, Behind
  <2>4. Steps(n, p, c) <= Steps(n, p, e)
    BY DEF Moves
  <2>5. q # e
    BY <1>4, <2>3, <2>4
  <2>6. s2.table[e] = NULL
    BY <1>1, <1>2, <2>5 DEF Moves
  <2> QED
    BY <1>4, <1>2, <2>3, <2>5, <2>6
<1> QED
  BY <1>5, <1>6

LEMMA BehindNext ==
    ASSUME NEW s, NEW p, NEW c, NEW e, NEW q, NEW s2, NEW d, Hashed, Moves(s, p, c, e, q, s2),
           d = IF c + 1 < s.size THEN c + 1 ELSE 0
    PROVE  /\ Behind(s2, p, d)
           /\ Steps(s.size, p, d) = Steps(s.size, p, c) + 1 /\ Steps(s.size, p, d) <= Steps(s.size, p, e)
<1> PICK n \in Nat : n = s.size /\ n > 0
  BY TableSize DEF Moves
<1>1. p \in 0..(n - 1) /\ c \in 0..(n - 1) /\ e \in 0..(n - 1) /\ q \in 0..(n - 1) /\ s.table[c] # NULL
  BY DEF Moves
<1>2. d \in 0..(n - 1) /\ c # e /\ Steps(n, p, c) <= Steps(n, p, e)
  BY <1>1 DEF Moves
<1>3. Steps(n, p, d) = Steps(n, p, c) + 1 /\ Steps(n, p, d) <= Steps(n, p, e)
  BY <1>1, <1>2 DEF Steps
<1>4. ASSUME NEW j \in 0..(n - 1), NEW z \in 0..(n - 1), s2.table[j] # NULL, s2.table[z] = NULL,
             ~(Steps(n, Home(s, s2.table[j]), j) < Steps(n, Home(s, s2.table[j]), z))
      PROVE  /\ Steps(n, p, z) < Steps(n, p, d)
             /\ \A y \in 0..(n - 1) : s2.table[y] = NULL => Steps(n, d, j) < Steps(n, d, y)
  <2>1. z # q /\ (s.table[z] = NULL \/ z = c)
    BY <1>1, <1>4 DEF Moves
  <2>2. j # q
    <3> SUFFICES ASSUME j = q PROVE FALSE
      OBVIOUS
    <3> PICK h \in 0..(n - 1) : h = Home(s, s.table[c])
      BY BucketIs, HomeIs DEF Moves
    <3>1. Steps(n, h, q) <= Steps(n, h, z) /\ s2.table[q] = s.table[c]
      BY <2>1 DEF Moves
    <3>2. Steps(n, h, q) < Steps(n, h, z)
      BY <1>1, <2>1, <3>1, StepsDiffer
    <3> QED
      BY <1>4, <3>1, <3>2
  <2>3. j # c /\ s2.table[j] = s.table[j]
    BY <1>4, <2>2 DEF Moves
  <2> PICK h \in 0..(n - 1) : h = Home(s, s.table[j])
    BY <1>4, <2>3, BucketIs, HomeIs DEF Moves
  <2>4. \A y \in 0..(n - 1) : s.table[y] = NULL =>
           \/ Steps(n, h, j) < Steps(n, h, y)
           \/ /\ Steps(n, p, y) < Steps(n, p, c)
              /\ \A x \in 0..(n - 1) : s.table[x] = NULL => Steps(n, c, j) < Steps(n, c, x)
    BY <1>4, <2>3 DEF Moves, Behind
  <2>5. ~(Steps(n, h, j) < Steps(n, h, z))
    BY <1>4, <2>3
  <2>6. Steps(n, p, c) \in Int /\ Steps(n, p, z) \in Int
    BY <1>1 DEF Steps
  <2>7. Steps(n, p, z) < Steps(n, p, d)
    <3>1. CASE z = c
      BY <1>3, <2>6, <3>1
    <3>2. CASE z # c
      <4>1. Steps(n, p, z) < Steps(n, p, c)
        BY <2>1, <2>4, <2>5, <3>2
      <4> QED
        BY <1>3, <2>6, <4>1
    <3> QED
      BY <3>1, <3>2
  <2>8. \A y \in 0..(n - 1) : s.table[y] = NULL => Steps(n, c, j) < Steps(n, c, y)
    <3>1. CASE z = c
      <4>1. Steps(n, h, c) < Steps(n, h, j)
        BY <1>1, <2>3, <2>5, <3>1 DEF Steps
      <4> TAKE y \in 0..(n - 1)
      <4> HAVE s.table[y] = NULL
      <4>2. CASE Steps(n, h, j) < Steps(n, h, y)
        BY <1>1, <4>1, <4>2, StepsFrom
      <4>3. CASE ~(Steps(n, h, j) < Steps(n, h, y))
        BY <2>4, <4>3
      <4> QED
        BY <4>2, <4>3
    <3>2. CASE z # c
      BY <2>1, <2>4, <2>5, <3>2
    <3> QED
      BY <3>1, <3>2
  <2>9. ASSUME NEW y \in 0..(n - 1), s2.table[y] = NULL
        PROVE  Steps(n, d, j) < Steps(n, d, y)
    <3>1. CASE y = c
      BY <1>1, <2>3, <3>1, StepsRound
    <3>2. CASE y # c
      <4>1. s.table[y] = NULL
        BY <1>1, <2>9, <3>2 DEF Moves
      <4> QED
        BY <1>1, <2>3, <2>8, <4>1, StepsNext
    <3> QED
      BY <3>1, <3>2
  <2> QED
    BY <2>7, <2>9
<1>5. s2.size = n /\ \A t : Home(s2, t) = Home(s, t)
  BY DEF Moves, Home
<1>6. Behind(s2, p, d)
  BY <1>4, <1>5 DEF Behind
<1> QED
  BY <1>3, <1>6

\* What the clean-up keeps: the items, their number, and the bucket e, where it ends at the latest.
\* No item that was at p or behind it comes before p.
Cleaning(at, s, p, e) ==
    /\ Plain(at.s) /\ at.s.size = s.size /\ at.s.itemCount = s.itemCount /\ Held(at.s) = Held(s)
    /\ at.i \in 0..(s.size - 1) /\ First(at.s, p) \subseteq First(s, p)
    /\ at.s.table[e] = NULL /\ Steps(s.size, p, at.i) <= Steps(s.size, p, e)
    /\ Behind(at.s, p, at.i)

LEMMA MovedKeeps ==
    ASSUME NEW at, NEW s0, NEW p \in 0..(s0.size - 1), NEW e \in 0..(s0.size - 1), Hashed,
           Cleaning(at, s0, p, e), at.s.table[at.i] # NULL, s0.itemCount <= Limit(s0.size)
    PROVE  /\ Cleaning(Moved(at), s0, p, e)
           /\ Steps(s0.size, p, Moved(at).i) = Steps(s0.size, p, at.i) + 1
<1> PICK s \in Tables : s = at.s
  BY DEF Cleaning, Plain
<1> PICK n \in Nat : n = s.size /\ n > 0
  BY TableSize
<1>1. s0.size = n /\ p \in 0..(n - 1) /\ e \in 0..(n - 1) /\ Plain(s) /\ s.itemCount <= Limit(n)
  BY DEF Cleaning
<1> PICK c \in 0..(n - 1) : c = at.i
  BY <1>1 DEF Cleaning
<1> PICK t \in Items : t = s.table[c]
  BY BucketIs
<1> PICK s1 : s1 = Emptied(s, c)
  OBVIOUS
<1> PICK q : q = Probe(s1, t)
  OBVIOUS
<1> PICK s2 : s2 = Place(s1, t)
  OBVIOUS
<1> PICK d : d = (c + 1) % n
  OBVIOUS
<1>2. Written(s, c, NULL, s1) /\ s1.itemCount = s.itemCount - 1
  BY <1>1, EmptiedWrites
<1>3. Plain(s1) /\ Held(s1) = {m \in Held(s) : ~Eq(m, t)}
  BY <1>1, <1>2, Empties
<1>4. s1.size = n /\ s1.table[c] = NULL /\ \A m \in Held(s1) : ~Eq(m, t)
  BY <1>2, <1>3 DEF Written
<1>5. Plain(s2) /\ Held(s2) = Held(s1) \cup {t} /\ Written(s1, q, t, s2) /\ s2.itemCount = s1.itemCount + 1
  BY <1>3, <1>4, PlaceNew
<1>6. /\ q \in 0..(n - 1) /\ s1.table[q] = NULL
      /\ \A y \in 0..(n - 1) : s1.table[y] = NULL => Steps(n, Home(s1, t), q) <= Steps(n, Home(s1, t), y)
  BY <1>3, <1>4, ProbeMisses
<1>7. s2.itemCount = s.itemCount
  BY <1>2, <1>5, TableIs
<1>8. AddTo(s1, t) = s2
  BY <1>1, <1>4, <1>7, TableIs, TableSize DEF AddTo
<1>9. Moved(at).s = s2 /\ Moved(at).i = d
  BY <1>8 DEF Moved
<1>10. Moves(s, p, c, e, q, s2)
  <2>1. s2.size = n /\ s2.table[q] = t /\ \A i \in 0..(n - 1) : i # q => s2.table[i] = s1.table[i]
    BY <1>4, <1>5 DEF Written
  <2>2. \A i \in 0..(n - 1) : i # c => s1.table[i] = s.table[i]
    BY <1>2 DEF Written
  <2>3. s.table[e] = NULL /\ Steps(n, p, c) <= Steps(n, p, e) /\ Behind(s, p, c)
    BY <1>1 DEF Cleaning
  <2>4. Home(s1, t) = Home(s, t)
    BY <1>4 DEF Home
  <2>5. q = c \/ s.table[q] = NULL
    BY <1>6, <2>2
  <2>6. q # c => s2.table[c] = NULL
    BY <1>4, <2>1
  <2>7. \A i \in 0..(n - 1) : i # c /\ i # q => s2.table[i] = s.table[i]
    BY <2>1, <2>2
  <2>8. \A y \in 0..(n - 1) : s.table[y] = NULL \/ y = c => Steps(n, Home(s, t), q) <= Steps(n, Home(s, t), y)
    BY <1>4, <1>6, <2>2, <2>4
  <2>9. s.table[c] # NULL
    OBVIOUS
  <2> QED
    BY <1>1, <1>6, <2>1, <2>3, <2>5, <2>6, <2>7, <2>8, <2>9 DEF Moves
<1>11. Steps(n, p, q) <= Steps(n, p, c) /\ s2.table[e] = NULL
  BY <1>10, MovesBack
<1>12. d = IF c + 1 < n THEN c + 1 ELSE 0
  BY NextIs
<1>13. Behind(s2, p, d) /\ Steps(n, p, d) = Steps(n, p, c) + 1 /\ Steps(n, p, d) <= Steps(n, p, e)
  BY <1>10, <1>12, BehindNext
<1>14. Held(s2) = Held(s)
  <2>1. t # NULL
    BY SetAssumption
  <2>2. t \in Held(s)
    BY <2>1 DEF Held
  <2>3. ASSUME NEW i \in 0..(n - 1), s.table[i] # NULL, Eq(s.table[i], t)
        PROVE  s.table[i] = t
    BY <1>1, <2>1, <2>3 DEF Plain, Unique
  <2>4. \A m \in Held(s) : Eq(m, t) => m = t
    BY <2>3 DEF Held
  <2> QED
    BY <1>3, <1>5, <2>2, <2>4
<1>15. First(s2, p) \subseteq First(s, p)
  <2> SUFFICES ASSUME NEW i \in 0..(p - 1), s2.table[i] # NULL
               PROVE  s2.table[i] \in First(s, p)
    BY DEF First
  <2>1. CASE i = q
    <3>1. c \in 0..(p - 1)
      BY <1>1, <1>11, <2>1 DEF Steps
    <3>2. s2.table[i] = s.table[c]
      BY <1>10, <2>1 DEF Moves
    <3> QED
      BY <2>1, <3>1, <3>2 DEF First
  <2>2. CASE i # q
    <3>1. i # c /\ i \in 0..(n - 1)
      BY <1>1, <1>10, <2>2 DEF Moves
    <3>2. s2.table[i] = s.table[i]
      BY <1>10, <2>2, <3>1 DEF Moves
    <3> QED
      BY <3>2 DEF First
  <2> QED
    BY <2>1, <2>2
<1>16. s2.size = n /\ d \in 0..(n - 1)
  BY <1>10, <1>12 DEF Moves
<1> QED
  BY <1>1, <1>5, <1>7, <1>9, <1>11, <1>13, <1>14, <1>15, <1>16 DEF Cleaning

\* When the cursor comes to an empty bucket, no item is behind a hole.
LEMMA CleanedUp ==
    ASSUME NEW at, NEW s0, NEW p, NEW e, Hashed, Cleaning(at, s0, p, e), at.s.table[at.i] = NULL
    PROVE  Reached(at.s)
<1> PICK n \in Nat : n = at.s.size
  BY TableSize DEF Cleaning, Plain
<1> PICK c \in 0..(n - 1) : c = at.i
  BY DEF Cleaning
<1>1. Behind(at.s, p, c)
  BY DEF Cleaning
<1>2. \A j \in 0..(n - 1) : ~(Steps(n, c, j) < Steps(n, c, c))
  BY DEF Steps
<1> QED
  BY <1>1, <1>2 DEF Behind, Reached

\* The clean-up ends there.
LEMMA CleanUpKeeps ==
    ASSUME NEW s0, NEW p \in 0..(s0.size - 1), NEW e \in 0..(s0.size - 1), NEW d, Hashed,
           Cleaning([s |-> s0, i |-> d], s0, p, e), Steps(s0.size, p, d) = 1,
           s0.itemCount <= Limit(s0.size)
    PROVE  /\ Good(CleanUp(s0, d)) /\ CleanUp(s0, d).size = s0.size /\ Held(CleanUp(s0, d)) = Held(s0)
           /\ First(CleanUp(s0, d), p) \subseteq First(s0, p)
<1> DEFINE Q(n) == {at \in [s : Tables, i : 0..(s0.size - 1)] :
                       /\ Cleaning(at, s0, p, e)
                       /\ at.s.table[at.i] = NULL \/ Steps(s0.size, p, at.i) = n + 1}
           R == [n \in 0..s0.size |-> Q(n)]
<1>1. s0 \in Tables /\ d \in 0..(s0.size - 1)
  BY DEF Cleaning, Plain
<1>2. s0.size \in Nat /\ s0.size > 0
  BY <1>1, TableSize
<1>3. [s |-> s0, i |-> d] \in R[0]
  <2>1. [s |-> s0, i |-> d] \in Q(0)
    BY <1>1
  <2> QED
    BY <1>2, <2>1
<1>4. ASSUME NEW n \in 1..s0.size, NEW at \in R[n - 1]
      PROVE  Moved(at) \in R[n]
  <2>1. n \in 0..s0.size /\ n - 1 \in 0..s0.size /\ (n - 1) + 1 = n
    BY <1>2
  <2>2. /\ at \in [s : Tables, i : 0..(s0.size - 1)] /\ Cleaning(at, s0, p, e)
        /\ at.s.table[at.i] = NULL \/ Steps(s0.size, p, at.i) = n
    BY <1>4, <2>1
  <2>3. CASE at.s.table[at.i] = NULL
    <3>1. Moved(at) = at
      BY <2>3 DEF Moved
    <3> QED
      BY <2>1, <2>2, <2>3, <3>1
  <2>4. CASE at.s.table[at.i] # NULL
    <3>1. Cleaning(Moved(at), s0, p, e) /\ Steps(s0.size, p, Moved(at).i) = n + 1
      BY <2>2, <2>4, MovedKeeps
    <3>2. Moved(at) = [s |-> Moved(at).s, i |-> Moved(at).i]
      BY <2>4 DEF Moved
    <3>3. Moved(at).s \in Tables /\ Moved(at).i \in 0..(s0.size - 1)
      BY <3>1 DEF Cleaning, Plain
    <3> PICK at2 : at2 = Moved(at)
      OBVIOUS
    <3>4. at2 \in [s : Tables, i : 0..(s0.size - 1)]
      BY <3>2, <3>3
    <3>5. at2 \in Q(n)
      BY <3>1, <3>4
    <3> QED
      BY <2>1, <3>5
  <2> QED
    BY <2>3, <2>4
<1>5. PICK at \in R[s0.size] : CleanUp(s0, d) = at.s
  <2> HIDE DEF R
  <2> QED
    BY <1>2, <1>3, <1>4, CleanUpLoop
<1>6. Cleaning(at, s0, p, e) /\ (at.s.table[at.i] = NULL \/ Steps(s0.size, p, at.i) = s0.size + 1)
  BY <1>2, <1>5
<1>7. at.s.table[at.i] = NULL
  <2>1. at.i \in 0..(s0.size - 1)
    BY <1>6 DEF Cleaning
  <2>2. Steps(s0.size, p, at.i) # s0.size + 1
    BY <1>2, <2>1 DEF Steps
  <2> QED
    BY <1>6, <2>2
<1>8. Reached(at.s)
  BY <1>6, <1>7, CleanedUp
<1> QED
  BY <1>5, <1>6, <1>8 DEF Cleaning, Good

-----------------------------------------------------------------------------
(* BRSetRemove. *)

\* The item that is equal is taken out, and all others are found as before.
LEMMA RemoveKeeps ==
    ASSUME NEW s, NEW item \in Items, Hashed, Good(s)
    PROVE  /\ Good(RemoveFrom(s, item)) /\ RemoveFrom(s, item).size = s.size
           /\ Held(RemoveFrom(s, item)) = {m \in Held(s) : ~Eq(m, item)}
           /\ First(RemoveFrom(s, item), Probe(s, item)) \subseteq First(s, Probe(s, item))
<1> PICK p : p = Probe(s, item)
  OBVIOUS
<1>1. Plain(s) /\ s \in Tables /\ Reached(s) /\ s.itemCount <= Limit(s.size) /\ s.itemCount \in Nat
  BY TableIs DEF Good, Plain
<1> PICK n \in Nat : n = s.size /\ n > 0 /\ Limit(n) < n /\ Limit(n) \in Nat
  BY <1>1, TableSize
<1>2. PICK e \in 0..(n - 1) : s.table[e] = NULL
  BY <1>1, SomeEmpty
<1>3. p \in 0..(n - 1) /\ Stops(s, item, p)
  BY <1>1, <1>2, ProbeIs DEF Stops
<1>4. CASE s.table[p] = NULL
  <2>1. RemoveFrom(s, item) = s
    BY <1>4 DEF RemoveFrom
  <2>2. \A j \in 0..(n - 1) : s.table[j] # NULL => ~Eq(s.table[j], item)
    BY <1>1, <1>4, ProbeFinds
  <2>3. {m \in Held(s) : ~Eq(m, item)} = Held(s)
    BY <2>2 DEF Held
  <2> QED
    BY <2>1, <2>3
<1>5. CASE s.table[p] # NULL
  <2> PICK s0 : s0 = Emptied(s, p)
    OBVIOUS
  <2> PICK d : d = (p + 1) % n
    OBVIOUS
  <2>1. Written(s, p, NULL, s0) /\ s0.itemCount = s.itemCount - 1 /\ s.itemCount >= 1
    BY <1>1, <1>3, <1>5, EmptiedWrites
  <2>2. Plain(s0) /\ Held(s0) = {m \in Held(s) : ~Eq(m, s.table[p])}
    BY <1>1, <1>3, <1>5, <2>1, Empties
  <2>3. d = IF p + 1 < n THEN p + 1 ELSE 0
    BY <1>3, NextIs
  <2>4. Behind(s0, p, d) /\ Steps(n, p, d) = 1 /\ Steps(n, p, d) <= Steps(n, p, e)
    BY <1>1, <1>2, <1>3, <1>5, <2>1, <2>3, BehindFirst
  <2>5. s0.size = n /\ d \in 0..(n - 1) /\ e # p /\ s0.table[e] = NULL
    BY <1>2, <1>3, <1>5, <2>1, <2>3 DEF Written
  <2>6. Cleaning([s |-> s0, i |-> d], s0, p, e)
    BY <2>2, <2>4, <2>5 DEF Cleaning
  <2>7. s0.itemCount <= Limit(s0.size)
    BY <1>1, <2>1, <2>5
  <2>8. /\ Good(CleanUp(s0, d)) /\ CleanUp(s0, d).size = n /\ Held(CleanUp(s0, d)) = Held(s0)
        /\ First(CleanUp(s0, d), p) \subseteq First(s0, p)
    BY <1>3, <2>4, <2>5, <2>6, <2>7, CleanUpKeeps
  <2>9. RemoveFrom(s, item) = CleanUp(s0, d)
    BY <1>5 DEF RemoveFrom
  <2>10. First(s0, p) \subseteq First(s, p)
    BY <1>3, <2>1 DEF First, Written
  <2>11. Held(s0) = {m \in Held(s) : ~Eq(m, item)}
    BY <1>3, <1>5, <2>2 DEF Stops, Eq
  <2> QED
    BY <2>8, <2>9, <2>10, <2>11
<1> QED
  BY <1>4, <1>5

-----------------------------------------------------------------------------
(* BRSetGet. *)

In(item, S) == \E m \in S : Eq(m, item)

LEMMA GetHeld ==
    ASSUME NEW s, NEW item \in Items, NEW m \in Held(s), Hashed, Good(s), Eq(m, item)
    PROVE  Get(s, item) = m
<1>1. PICK j \in 0..(s.size - 1) : s.table[j] = m /\ s.table[j] # NULL
  BY DEF Held
<1>2. Probe(s, item) = j
  BY <1>1, ProbeFinds DEF Good
<1> QED
  BY <1>1, <1>2 DEF Get

LEMMA GetNone ==
    ASSUME NEW s, NEW item \in Items, Hashed, Good(s), ~In(item, Held(s))
    PROVE  Get(s, item) = NULL
<1>1. s \in Tables /\ Plain(s) /\ s.itemCount < s.size
  BY TableSize, TableIs DEF Good, Plain
<1>2. PICK z \in 0..(s.size - 1) : s.table[z] = NULL
  BY <1>1, SomeEmpty
<1> QED
  BY <1>1, <1>2, ProbeMisses DEF Get, In

LEMMA ContainsIs ==
    ASSUME NEW s, NEW item \in Items, Hashed, Good(s)
    PROVE  Contains(s, item) <=> In(item, Held(s))
<1>1. CASE In(item, Held(s))
  <2>1. PICK m \in Held(s) : Eq(m, item)
    BY <1>1 DEF In
  <2>2. Get(s, item) = m /\ m # NULL
    BY <2>1, GetHeld DEF Held
  <2> QED
    BY <1>1, <2>2 DEF Contains
<1>2. CASE ~In(item, Held(s))
  BY <1>2, GetNone DEF Contains
<1> QED
  BY <1>1, <1>2

\* Equal items of a table are one.
LEMMA HeldUnique ==
    ASSUME NEW s, NEW a \in Held(s), NEW b \in Held(s), Plain(s), Eq(a, b)
    PROVE  a = b
  BY DEF Held, Plain, Unique

-----------------------------------------------------------------------------
(* Two sets. *)

\* The second set has the items that were added to it.
LEMMA OtherIs ==
    ASSUME NEW order \in Orders, Hashed
    PROVE  Fits(Other(order)) /\ Held(Other(order)) = Range(order)
<1> DEFINE U(n) == {order[i] : i \in 1..n}
           Q(n) == {x \in Tables : Fits(x) /\ Held(x) = U(n)}
           R == [n \in 0..Len(order) |-> Q(n)]
<1>1. /\ order \in Seq(Items) /\ Len(order) \in Nat /\ DOMAIN order = 1..Len(order)
      /\ \A i, j \in 1..Len(order) : Eq(order[i], order[j]) => i = j
  BY SetAssumption, LenProperties DEF Eq
<1>2. New(0) \in R[0]
  <2>1. Fits(New(0)) /\ Held(New(0)) = {} /\ New(0) \in Tables
    BY NewFits DEF Fits, Good, Plain
  <2>2. U(0) = {}
    OBVIOUS
  <2>3. New(0) \in Q(0)
    BY <2>1, <2>2
  <2> QED
    BY <1>1, <2>3
<1>3. ASSUME NEW n \in 1..Len(order), NEW x \in R[n - 1]
      PROVE  AddTo(x, order[n]) \in R[n]
  <2>1. n \in 0..Len(order) /\ n - 1 \in 0..Len(order) /\ order[n] \in Items
    BY <1>1, ElementOfSeq
  <2>2. Fits(x) /\ Held(x) = U(n - 1)
    BY <1>3, <2>1
  <2>3. /\ Fits(AddTo(x, order[n]))
        /\ Held(AddTo(x, order[n])) = {m \in U(n - 1) : ~Eq(m, order[n])} \cup {order[n]}
    BY <2>1, <2>2, AddToKeeps
  <2>4. \A i \in 1..(n - 1) : ~Eq(order[i], order[n])
    BY <1>1
  <2>5. 1..n = (1..(n - 1)) \cup {n}
    OBVIOUS
  <2>6. U(n) = U(n - 1) \cup {order[n]} /\ {m \in U(n - 1) : ~Eq(m, order[n])} = U(n - 1)
    BY <2>4, <2>5
  <2>7. AddTo(x, order[n]) \in Tables
    BY <2>3 DEF Fits, Good, Plain
  <2>8. AddTo(x, order[n]) \in Q(n)
    BY <2>3, <2>6, <2>7
  <2> QED
    BY <2>1, <2>8
<1>4. Other(order) \in R[Len(order)]
  <2> HIDE DEF R
  <2> QED
    BY <1>1, <1>2, <1>3, OtherLoop
<1>5. U(Len(order)) = Range(order)
  BY <1>1 DEF Range
<1>6. Other(order) \in Q(Len(order))
  <2> PICK n \in Nat : n = Len(order)
    BY <1>1
  <2>1. n \in 0..n
    OBVIOUS
  <2> QED
    BY <1>4, <2>1
<1> QED
  BY <1>5, <1>6

\* What the loops over the second set know of its bucket n - 1.
LEMMA OtherBucket ==
    ASSUME NEW other, NEW n \in 1..other.size, Plain(other)
    PROVE  /\ n \in 0..other.size /\ n - 1 \in 0..other.size
           /\ other.table[n - 1] = NULL => First(other, n) = First(other, n - 1)
           /\ other.table[n - 1] # NULL => /\ other.table[n - 1] \in Items
                                           /\ First(other, n) = First(other, n - 1) \cup {other.table[n - 1]}
           /\ First(other, n - 1) \subseteq Held(other) /\ First(other, n) \subseteq Held(other)
<1>1. /\ other \in Tables /\ other.size \in Nat
      /\ n \in Nat /\ n > 0 /\ n <= other.size /\ n - 1 \in 0..(other.size - 1)
  BY TableSize DEF Plain
<1>2. /\ other.table[n - 1] = NULL => First(other, n) = First(other, n - 1)
      /\ other.table[n - 1] # NULL => First(other, n) = First(other, n - 1) \cup {other.table[n - 1]}
      /\ First(other, n) \subseteq Held(other)
  BY <1>1, FirstIs
<1>3. other.table[n - 1] # NULL => other.table[n - 1] \in Items
  BY <1>1, BucketIs
<1>4. First(other, n - 1) \subseteq Held(other)
  BY <1>2
<1> QED
  BY <1>1, <1>2, <1>3, <1>4

\* BRSetUnion
LEMMA AddAllIs ==
    ASSUME NEW s, NEW other, Hashed, Fits(s), Good(other)
    PROVE  /\ Fits(AddAll(s, other))
           /\ Held(AddAll(s, other)) = {m \in Held(s) : ~In(m, Held(other))} \cup Held(other)
<1> DEFINE V(n) == {m \in Held(s) : ~In(m, First(other, n))} \cup First(other, n)
           Q(n) == {x \in Tables : Fits(x) /\ Held(x) = V(n)}
           R == [n \in 0..other.size |-> Q(n)]
<1>1. Plain(other) /\ other.size \in Nat /\ other.size > 0
  BY TableSize DEF Good, Plain
<1>2. s \in R[0]
  <2>1. First(other, 0) = {}
    BY DEF First
  <2>2. V(0) = Held(s)
    BY <2>1 DEF In
  <2>3. s \in Q(0)
    BY <2>2 DEF Fits, Good, Plain
  <2> QED
    BY <1>1, <2>3
<1>3. ASSUME NEW n \in 1..other.size, NEW x \in R[n - 1]
      PROVE  AddAny(x, other.table[n - 1]) \in R[n]
  <2> PICK t : t = other.table[n - 1]
    OBVIOUS
  <2> PICK F : F = First(other, n - 1)
    OBVIOUS
  <2>1. n \in 0..other.size /\ n - 1 \in 0..other.size
    BY <1>1, OtherBucket
  <2>2. x \in Tables /\ Fits(x) /\ Held(x) = {m \in Held(s) : ~In(m, F)} \cup F
    BY <1>3, <2>1
  <2>3. CASE t = NULL
    <3>1. First(other, n) = F
      BY <1>1, <2>3, OtherBucket
    <3>2. x \in Q(n)
      BY <2>2, <3>1
    <3> QED
      BY <2>1, <2>3, <3>2 DEF AddAny
  <2>4. CASE t # NULL
    <3>1. t \in Items /\ First(other, n) = F \cup {t} /\ F \cup {t} \subseteq Held(other)
      BY <1>1, <2>4, OtherBucket
    <3>2. Fits(AddTo(x, t)) /\ Held(AddTo(x, t)) = {m \in Held(x) : ~Eq(m, t)} \cup {t}
      BY <2>2, <3>1, AddToKeeps
    <3>3. \A m \in F : Eq(m, t) => m = t
      BY <1>1, <3>1, HeldUnique
    <3>4. \A m : In(m, F \cup {t}) <=> In(m, F) \/ Eq(t, m)
      BY DEF In
    <3>5. Held(AddTo(x, t)) = {m \in Held(s) : ~In(m, F \cup {t})} \cup (F \cup {t})
      BY <2>2, <3>2, <3>3, <3>4 DEF Eq
    <3>6. AddTo(x, t) \in Tables
      BY <3>2 DEF Fits, Good, Plain
    <3>7. AddTo(x, t) \in Q(n)
      BY <3>1, <3>2, <3>5, <3>6
    <3> QED
      BY <2>1, <2>4, <3>7 DEF AddAny
  <2> QED
    BY <2>3, <2>4
<1>4. AddAll(s, other) \in R[other.size]
  <2> HIDE DEF R
  <2> QED
    BY <1>1, <1>2, <1>3, AddAllLoop
<1>5. First(other, other.size) = Held(other)
  BY DEF First, Held
<1> QED
  BY <1>1, <1>4, <1>5

\* BRSetMinus
LEMMA RemoveAllIs ==
    ASSUME NEW s, NEW other, Hashed, Fits(s), Good(other)
    PROVE  /\ Fits(RemoveAll(s, other))
           /\ Held(RemoveAll(s, other)) = {m \in Held(s) : ~In(m, Held(other))}
<1> DEFINE V(n) == {m \in Held(s) : ~In(m, First(other, n))}
           Q(n) == {x \in Tables : Fits(x) /\ Held(x) = V(n)}
           R == [n \in 0..other.size |-> Q(n)]
<1>1. Plain(other) /\ other.size \in Nat /\ other.size > 0
  BY TableSize DEF Good, Plain
<1>2. s \in R[0]
  <2>1. First(other, 0) = {}
    BY DEF First
  <2>2. V(0) = Held(s)
    BY <2>1 DEF In
  <2>3. s \in Q(0)
    BY <2>2 DEF Fits, Good, Plain
  <2> QED
    BY <1>1, <2>3
<1>3. ASSUME NEW n \in 1..other.size, NEW x \in R[n - 1]
      PROVE  RemoveAny(x, other.table[n - 1]) \in R[n]
  <2> PICK t : t = other.table[n - 1]
    OBVIOUS
  <2> PICK F : F = First(other, n - 1)
    OBVIOUS
  <2>1. n \in 0..other.size /\ n - 1 \in 0..other.size
    BY <1>1, OtherBucket
  <2>2. x \in Tables /\ Fits(x) /\ Held(x) = {m \in Held(s) : ~In(m, F)}
    BY <1>3, <2>1
  <2>3. CASE t = NULL
    <3>1. First(other, n) = F
      BY <1>1, <2>3, OtherBucket
    <3>2. x \in Q(n)
      BY <2>2, <3>1
    <3> QED
      BY <2>1, <2>3, <3>2 DEF RemoveAny
  <2>4. CASE t # NULL
    <3>1. t \in Items /\ First(other, n) = F \cup {t}
      BY <1>1, <2>4, OtherBucket
    <3>2. /\ Good(RemoveFrom(x, t)) /\ RemoveFrom(x, t).size = x.size
          /\ Held(RemoveFrom(x, t)) = {m \in Held(x) : ~Eq(m, t)}
      BY <2>2, <3>1, RemoveKeeps DEF Fits
    <3>3. \A m : In(m, F \cup {t}) <=> In(m, F) \/ Eq(t, m)
      BY DEF In
    <3>4. Held(RemoveFrom(x, t)) = {m \in Held(s) : ~In(m, F \cup {t})}
      BY <2>2, <3>2, <3>3 DEF Eq
    <3>5. RemoveFrom(x, t) \in Tables /\ Fits(RemoveFrom(x, t))
      BY <2>2, <3>2 DEF Fits, Good, Plain
    <3>6. RemoveFrom(x, t) \in Q(n)
      BY <3>1, <3>4, <3>5
    <3> QED
      BY <2>1, <2>4, <3>6 DEF RemoveAny
  <2> QED
    BY <2>3, <2>4
<1>4. RemoveAll(s, other) \in R[other.size]
  <2> HIDE DEF R
  <2> QED
    BY <1>1, <1>2, <1>3, RemoveAllLoop
<1>5. First(other, other.size) = Held(other)
  BY DEF First, Held
<1> QED
  BY <1>1, <1>4, <1>5

\* The scan of BRSetIntersect, with its cursor at at.i: what was passed is in the other set.
Comparing(at, s, other) ==
    /\ Good(at.s) /\ at.s.size = s.size /\ at.i \in 0..s.size
    /\ Held(at.s) \subseteq Held(s)
    /\ \A m \in Held(s) : In(m, Held(other)) => m \in Held(at.s)
    /\ \A m \in First(at.s, at.i) : In(m, Held(other))

\* A removal leaves what was passed, and one item less.
LEMMA ComparedRemoves ==
    ASSUME NEW at, NEW s, NEW other, Hashed, Comparing(at, s, other), Good(other), at.i # s.size,
           at.s.table[at.i] # NULL, ~Contains(other, at.s.table[at.i])
    PROVE  /\ Comparing(Compared(at, other), s, other) /\ Compared(at, other).i = at.i
           /\ Compared(at, other).s.itemCount = at.s.itemCount - 1
<1> PICK x : x = at.s
  OBVIOUS
<1>1. Good(x) /\ Plain(x) /\ x \in Tables /\ x.size = s.size
  BY DEF Comparing, Good, Plain
<1> PICK n \in Nat : n = x.size /\ n > 0
  BY <1>1, TableSize
<1> PICK i \in 0..(n - 1) : i = at.i
  BY <1>1 DEF Comparing
<1> PICK t \in Items : t = x.table[i]
  BY <1>1, BucketIs
<1> PICK r : r = RemoveFrom(x, t)
  OBVIOUS
<1>2. Probe(x, t) = i
  BY <1>1, ProbeFinds DEF Good, Eq
<1>3. Good(r) /\ r.size = n /\ Held(r) = {m \in Held(x) : ~Eq(m, t)} /\ First(r, i) \subseteq First(x, i)
  BY <1>1, <1>2, RemoveKeeps
<1>4. Compared(at, other) = [s |-> r, i |-> i]
  BY <1>1 DEF Compared
<1>5. ~In(t, Held(other))
  BY ContainsIs
<1>6. t \in Held(x) /\ \A m \in Held(x) : Eq(m, t) => m = t
  BY <1>1, HeldUnique DEF Held
<1>7. Held(r) = Held(x) \ {t}
  BY <1>3, <1>6 DEF Eq
<1>8. r.itemCount = x.itemCount - 1
  BY <1>1, <1>3, <1>6, <1>7, HeldCount, FS_RemoveElement DEF Good
<1>9. Held(r) \subseteq Held(s) /\ \A m \in Held(s) : In(m, Held(other)) => m \in Held(r)
  BY <1>5, <1>7 DEF Comparing
<1>10. \A m \in First(r, i) : In(m, Held(other))
  BY <1>3 DEF Comparing
<1> QED
  BY <1>1, <1>3, <1>4, <1>8, <1>9, <1>10 DEF Comparing

\* Otherwise the cursor goes on.
LEMMA ComparedPasses ==
    ASSUME NEW at, NEW s, NEW other, Hashed, Comparing(at, s, other), Good(other), at.i # s.size,
           ~(at.s.table[at.i] # NULL /\ ~Contains(other, at.s.table[at.i]))
    PROVE  /\ Comparing(Compared(at, other), s, other) /\ Compared(at, other).i = at.i + 1
           /\ Compared(at, other).s = at.s
<1> PICK x : x = at.s
  OBVIOUS
<1>1. Good(x) /\ Plain(x) /\ x \in Tables /\ x.size = s.size
  BY DEF Comparing, Good, Plain
<1> PICK n \in Nat : n = x.size /\ n > 0
  BY <1>1, TableSize
<1> PICK i \in 0..(n - 1) : i = at.i
  BY <1>1 DEF Comparing
<1>2. Compared(at, other) = [s |-> x, i |-> i + 1]
  BY <1>1 DEF Compared
<1> PICK k \in Nat : k = i + 1
  OBVIOUS
<1>3. k > 0 /\ k <= n /\ k - 1 = i /\ k \in 0..n
  OBVIOUS
<1>4. /\ x.table[i] = NULL => First(x, k) = First(x, i)
      /\ x.table[i] # NULL => First(x, k) = First(x, i) \cup {x.table[i]}
  BY <1>3, FirstIs
<1>5. x.table[i] # NULL => In(x.table[i], Held(other))
  BY <1>1, BucketIs, ContainsIs
<1>6. \A m \in First(x, k) : In(m, Held(other))
  BY <1>4, <1>5 DEF Comparing
<1> QED
  BY <1>1, <1>2, <1>3, <1>6 DEF Comparing

\* BRSetIntersect
LEMMA IntersectionIs ==
    ASSUME NEW s, NEW other, Hashed, Fits(s), Good(other)
    PROVE  /\ Fits(Intersection(s, other))
           /\ Held(Intersection(s, other)) = {m \in Held(s) : In(m, Held(other))}
<1>1. s \in Tables /\ Good(s) /\ Plain(s)
  BY DEF Fits, Good, Plain
<1> PICK size \in Nat : size = s.size
  BY <1>1, TableSize
<1> PICK count \in Nat : count = s.itemCount
  BY <1>1, TableIs
<1> PICK N \in Nat : N = size + count
  OBVIOUS
<1> DEFINE Q(n) == {at \in [s : Tables, i : 0..size] :
                       /\ Comparing(at, s, other)
                       /\ at.i = size \/ n <= at.i + count - at.s.itemCount}
           R == [n \in 0..N |-> Q(n)]
<1>2. [s |-> s, i |-> 0] \in R[0]
  <2> PICK at : at = [s |-> s, i |-> 0]
    OBVIOUS
  <2>1. at \in [s : Tables, i : 0..size] /\ at.s = s /\ at.i = 0
    BY <1>1
  <2>2. First(s, 0) = {}
    BY DEF First
  <2>3. Comparing(at, s, other)
    BY <1>1, <2>1, <2>2 DEF Comparing
  <2>4. at \in Q(0)
    BY <2>1, <2>3
  <2> QED
    BY <2>4
<1>3. ASSUME NEW n \in 1..N, NEW at \in R[n - 1]
      PROVE  Compared(at, other) \in R[n]
  <2>1. n \in 0..N /\ n - 1 \in 0..N
    OBVIOUS
  <2>2. /\ at \in [s : Tables, i : 0..size] /\ Comparing(at, s, other)
        /\ at.i = size \/ n - 1 <= at.i + count - at.s.itemCount
    BY <1>3, <2>1
  <2> PICK at2 : at2 = Compared(at, other)
    OBVIOUS
  <2> PICK c \in Nat : c = at.s.itemCount
    BY <2>2, TableIs
  <2> SUFFICES at2 \in Q(n)
    BY <2>1
  <2> HIDE DEF R
  <2>3. CASE at.i = size
    <3>1. at2 = at
      BY <2>2, <2>3 DEF Compared, Comparing
    <3> QED
      BY <2>2, <2>3, <3>1
  <2>4. CASE at.i # size
    <3>1. at2 = [s |-> at2.s, i |-> at2.i]
      BY <2>2, <2>4 DEF Compared, Comparing
    <3>2. Comparing(at2, s, other) /\ n <= at2.i + count - at2.s.itemCount
      <4>1. CASE at.s.table[at.i] # NULL /\ ~Contains(other, at.s.table[at.i])
        <5>1. Comparing(at2, s, other) /\ at2.i = at.i /\ at2.s.itemCount = c - 1
          BY <2>2, <2>4, <4>1, ComparedRemoves
        <5> QED
          BY <2>2, <2>4, <5>1
      <4>2. CASE ~(at.s.table[at.i] # NULL /\ ~Contains(other, at.s.table[at.i]))
        <5>1. Comparing(at2, s, other) /\ at2.i = at.i + 1 /\ at2.s = at.s
          BY <2>2, <2>4, <4>2, ComparedPasses
        <5> QED
          BY <2>2, <2>4, <5>1
      <4> QED
        BY <4>1, <4>2
    <3>3. at2.s \in Tables /\ at2.i \in 0..size
      BY <3>2 DEF Comparing, Good, Plain
    <3> QED
      BY <3>1, <3>2, <3>3
  <2> QED
    BY <2>3, <2>4
<1>4. PICK at \in R[N] : Intersection(s, other) = at.s
  <2> HIDE DEF R
  <2>1. s.size + s.itemCount \in Nat
    OBVIOUS
  <2> QED
    BY <1>2, <1>3, <2>1, IntersectionLoop
<1>5. Comparing(at, s, other) /\ (at.i = size \/ N <= at.i + count - at.s.itemCount)
  BY <1>4
<1>6. at.i = size
  <2>1. at.s.itemCount \in Nat /\ at.i \in 0..size
    BY <1>5, TableIs DEF Comparing, Good, Plain
  <2> QED
    BY <1>5, <2>1
<1>7. First(at.s, size) = Held(at.s)
  BY <1>5 DEF Comparing, First, Held
<1>8. Held(at.s) = {m \in Held(s) : In(m, Held(other))}
  BY <1>5, <1>6, <1>7 DEF Comparing
<1> QED
  BY <1>4, <1>5, <1>8 DEF Fits, Comparing

\* BRSetIntersects
LEMMA IntersectsIs ==
    ASSUME NEW s, NEW other, Hashed, Good(s), Good(other)
    PROVE  Intersects(s, other) <=> \E m \in Held(s), o \in Held(other) : Eq(m, o)
<1>1. other \in Tables
  BY DEF Good, Plain
<1>2. \A i \in 0..(other.size - 1) : other.table[i] # NULL =>
         other.table[i] \in Held(other) /\ (Contains(s, other.table[i]) <=> In(other.table[i], Held(s)))
  BY <1>1, BucketIs, ContainsIs DEF Held
<1>3. \A o \in Held(other) : \E i \in 0..(other.size - 1) : other.table[i] # NULL /\ other.table[i] = o
  BY DEF Held
<1>4. Intersects(s, other) <=> \E o \in Held(other) : In(o, Held(s))
  BY <1>2, <1>3 DEF Intersects
<1> QED
  BY <1>4 DEF In

-----------------------------------------------------------------------------
(* BRSetAll and BRSetIterate. *)

\* The items are those of the first n buckets, in their order: item k is the one of the bucket g[k].
Lists(items, g, s, n) ==
    /\ g \in [1..Len(items) -> 0..(n - 1)]
    /\ \A i, j \in 1..Len(items) : i < j => g[i] < g[j]
    /\ \A k \in 1..Len(items) : items[k] = s.table[g[k]] /\ s.table[g[k]] # NULL
    /\ \A b \in 0..(n - 1) : s.table[b] # NULL => \E k \in 1..Len(items) : g[k] = b

LEMMA ListsSame ==
    ASSUME NEW items \in Seq(Items), NEW g, NEW s, NEW n \in Nat, n > 0, Lists(items, g, s, n - 1),
           s.table[n - 1] = NULL
    PROVE  Lists(items, g, s, n)
<1>1. \A b \in 0..(n - 1) : s.table[b] # NULL => b \in 0..((n - 1) - 1)
  OBVIOUS
<1>2. 0..((n - 1) - 1) \subseteq 0..(n - 1)
  OBVIOUS
<1> QED
  BY <1>1, <1>2 DEF Lists

LEMMA ListsMore ==
    ASSUME NEW items \in Seq(Items), NEW g, NEW s, NEW n \in Nat, NEW t \in Items, n > 0,
           Lists(items, g, s, n - 1), s.table[n - 1] = t, t # NULL
    PROVE  \E g2 : Lists(Append(items, t), g2, s, n)
<1> PICK m \in Nat : m = Len(items)
  BY LenProperties
<1> PICK more : more = Append(items, t)
  OBVIOUS
<1>1. Len(more) = m + 1 /\ more[m + 1] = t /\ \A k \in 1..m : more[k] = items[k]
  BY AppendProperties
<1> PICK g2 : g2 = [k \in 1..(m + 1) |-> IF k = m + 1 THEN n - 1 ELSE g[k]]
  OBVIOUS
<1> PICK l \in Nat : l = n - 1
  OBVIOUS
<1>2. /\ g2[m + 1] = l
      /\ \A k \in 1..m : g2[k] = g[k] /\ g[k] \in 0..(l - 1) /\ g[k] < l
  <2>1. m + 1 \in 1..(m + 1) /\ \A k \in 1..m : k \in 1..(m + 1) /\ k # m + 1
    OBVIOUS
  <2>2. g2[m + 1] = l /\ \A k \in 1..m : g2[k] = g[k]
    BY <2>1
  <2>3. \A k \in 1..m : g[k] \in 0..(l - 1)
    BY DEF Lists
  <2> QED
    BY <2>2, <2>3
<1>3. g2 \in [1..(m + 1) -> 0..(n - 1)]
  <2>1. \A k \in 1..(m + 1) : k = m + 1 \/ k \in 1..m
    OBVIOUS
  <2>2. \A x \in 0..(l - 1) : x \in 0..l
    OBVIOUS
  <2>3. l \in 0..l
    OBVIOUS
  <2>4. ASSUME NEW k \in 1..(m + 1)
        PROVE  g2[k] \in 0..l
    <3>1. CASE k = m + 1
      BY <1>2, <2>3, <3>1
    <3>2. CASE k \in 1..m
      BY <1>2, <2>2, <3>2
    <3> QED
      BY <2>1, <3>1, <3>2
  <2> QED
    BY <2>4
<1>4. \A i, j \in 1..(m + 1) : i < j => g2[i] < g2[j]
  <2> SUFFICES ASSUME NEW i \in 1..(m + 1), NEW j \in 1..(m + 1), i < j
               PROVE  g2[i] < g2[j]
    OBVIOUS
  <2>1. i \in 1..m
    OBVIOUS
  <2>2. CASE j = m + 1
    BY <1>2, <2>1, <2>2
  <2>3. CASE j # m + 1
    <3>1. j \in 1..m
      BY <2>3
    <3> QED
      BY <1>2, <2>1, <3>1 DEF Lists
  <2> QED
    BY <2>2, <2>3
<1>5. ASSUME NEW k \in 1..(m + 1)
      PROVE  more[k] = s.table[g2[k]] /\ s.table[g2[k]] # NULL
  <2>1. CASE k = m + 1
    BY <1>1, <1>2, <2>1
  <2>2. CASE k # m + 1
    <3>1. k \in 1..m
      BY <2>2
    <3> QED
      BY <1>1, <1>2, <3>1 DEF Lists
  <2> QED
    BY <2>1, <2>2
<1>6. ASSUME NEW b \in 0..(n - 1), s.table[b] # NULL
      PROVE  \E k \in 1..(m + 1) : g2[k] = b
  <2>1. CASE b = n - 1
    BY <1>2, <2>1
  <2>2. CASE b # n - 1
    <3>1. b \in 0..((n - 1) - 1)
      BY <2>2
    <3>2. PICK k \in 1..m : g[k] = b
      BY <1>6, <3>1 DEF Lists
    <3>3. k \in 1..(m + 1) /\ g2[k] = b
      BY <1>2, <3>2
    <3> QED
      BY <3>3
  <2> QED
    BY <2>1, <2>2
<1>7. Lists(more, g2, s, n)
  BY <1>1, <1>3, <1>4, <1>5, <1>6 DEF Lists
<1> QED
  BY <1>7

\* BRSetAll
LEMMA AllIs ==
    ASSUME NEW s \in Tables
    PROVE  All(s) \in Seq(Items) /\ \E g : Lists(All(s), g, s, s.size)
<1> PICK N \in Nat : N = s.size
  BY TableSize
<1> DEFINE Q(n) == {x \in Seq(Items) : \E g : Lists(x, g, s, n)}
           R == [n \in 0..N |-> Q(n)]
<1>1. << >> \in R[0]
  <2> PICK x : x = << >>
    OBVIOUS
  <2>1. x \in Seq(Items) /\ Len(x) = 0
    BY EmptySeq
  <2> PICK g : g = [k \in {} |-> 0]
    OBVIOUS
  <2>2. Lists(x, g, s, 0)
    BY <2>1 DEF Lists
  <2>3. x \in Q(0)
    BY <2>1, <2>2
  <2> QED
    BY <2>3
<1>2. ASSUME NEW n \in 1..N, NEW x \in R[n - 1]
      PROVE  AppendAny(x, s.table[n - 1]) \in R[n]
  <2> PICK t : t = s.table[n - 1]
    OBVIOUS
  <2>1. n \in 0..N /\ n - 1 \in 0..N /\ n - 1 \in 0..(N - 1) /\ n \in Nat /\ n > 0
    OBVIOUS
  <2>2. x \in Seq(Items)
    BY <1>2, <2>1
  <2>3. PICK g : Lists(x, g, s, n - 1)
    BY <1>2, <2>1
  <2>4. CASE t = NULL
    <3>1. Lists(x, g, s, n)
      BY <2>1, <2>2, <2>3, <2>4, ListsSame
    <3> QED
      BY <2>1, <2>2, <2>4, <3>1 DEF AppendAny
  <2>5. CASE t # NULL
    <3>1. t \in Items
      BY <2>1, <2>5, BucketIs
    <3>2. \E g2 : Lists(Append(x, t), g2, s, n)
      BY <2>1, <2>2, <2>3, <2>5, <3>1, ListsMore
    <3>3. Append(x, t) \in Seq(Items)
      BY <2>2, <3>1, AppendProperties
    <3> QED
      BY <2>1, <2>5, <3>2, <3>3 DEF AppendAny
  <2> QED
    BY <2>4, <2>5
<1>3. All(s) \in R[N]
  <2> HIDE DEF R
  <2> QED
    BY <1>1, <1>2, AllLoop
<1> QED
  BY <1>3

\* The item of the next bucket in use, or none.
LEMMA IterateNext ==
    ASSUME NEW s, NEW previous, NEW first \in Nat, NEW b \in first..(s.size - 1), s.size \in Nat,
           first = IF previous = NULL THEN 0 ELSE Probe(s, previous) + 1,
           s.table[b] # NULL, \A i \in first..(s.size - 1) : s.table[i] # NULL => b <= i
    PROVE  Iterate(s, previous) = s.table[b]
<1> DEFINE rest == {i \in first..(s.size - 1) : s.table[i] # NULL}
<1>1. rest \subseteq Nat /\ b \in rest /\ \A i \in rest : b <= i
  OBVIOUS
<1>2. Min(rest) = b
  <2> HIDE DEF rest
  <2>1. Min(rest) \in rest /\ Min(rest) <= b
    BY <1>1, MinIs
  <2>2. b \in Nat /\ Min(rest) \in Nat /\ b <= Min(rest)
    BY <1>1, <2>1
  <2> QED
    BY <2>1, <2>2
<1> QED
  BY <1>1, <1>2 DEF Iterate

LEMMA IterateEnd ==
    ASSUME NEW s, NEW previous, NEW first \in Nat, s.size \in Nat,
           first = IF previous = NULL THEN 0 ELSE Probe(s, previous) + 1,
           \A i \in first..(s.size - 1) : s.table[i] = NULL
    PROVE  Iterate(s, previous) = NULL
  BY DEF Iterate

\* BRSetIterate goes through the items of BRSetAll.
LEMMA IteratesGood ==
    ASSUME NEW s, Hashed, Good(s)
    PROVE  /\ Iterate(s, NULL) = IF Len(All(s)) = 0 THEN NULL ELSE All(s)[1]
           /\ \A k \in 1..Len(All(s)) :
                 Iterate(s, All(s)[k]) = IF k = Len(All(s)) THEN NULL ELSE All(s)[k + 1]
<1>1. s \in Tables /\ Plain(s) /\ Reached(s)
  BY DEF Good, Plain
<1> PICK N \in Nat : N = s.size /\ N > 0
  BY <1>1, TableSize
<1> PICK all \in Seq(Items) : all = All(s)
  BY <1>1, AllIs
<1> PICK n \in Nat : n = Len(all)
  BY LenProperties
<1>2. PICK g : Lists(all, g, s, N)
  BY <1>1, AllIs
<1>3. /\ \A k \in 1..n : g[k] \in 0..(N - 1) /\ all[k] = s.table[g[k]] /\ s.table[g[k]] # NULL
      /\ \A i, j \in 1..n : i < j => g[i] < g[j]
      /\ \A b \in 0..(N - 1) : s.table[b] # NULL => \E k \in 1..n : g[k] = b
  BY <1>2 DEF Lists
<1>4. Iterate(s, NULL) = IF n = 0 THEN NULL ELSE all[1]
  <2>1. CASE n = 0
    <3>1. \A i \in 0..(N - 1) : s.table[i] = NULL
      BY <1>3, <2>1
    <3> QED
      BY <2>1, <3>1, IterateEnd
  <2>2. CASE n # 0
    <3>1. 1 \in 1..n
      BY <2>2
    <3>2. g[1] \in 0..(N - 1) /\ all[1] = s.table[g[1]] /\ s.table[g[1]] # NULL
      BY <1>3, <3>1
    <3>3. ASSUME NEW i \in 0..(N - 1), s.table[i] # NULL
          PROVE  g[1] <= i
      <4>1. PICK k \in 1..n : g[k] = i
        BY <1>3, <3>3
      <4>2. CASE k = 1
        BY <3>2, <4>1, <4>2
      <4>3. CASE k # 1
        <5>1. 1 < k
          BY <4>3
        <5>2. g[1] < g[k]
          BY <1>3, <3>1, <5>1
        <5> QED
          BY <3>2, <4>1, <5>2
      <4> QED
        BY <4>2, <4>3
    <3>4. Iterate(s, NULL) = s.table[g[1]]
      BY <3>2, <3>3, IterateNext
    <3> QED
      BY <2>2, <3>2, <3>4
  <2> QED
    BY <2>1, <2>2
<1>5. ASSUME NEW k \in 1..n
      PROVE  Iterate(s, all[k]) = IF k = n THEN NULL ELSE all[k + 1]
  <2> PICK b \in 0..(N - 1) : b = g[k] /\ all[k] = s.table[b] /\ s.table[b] # NULL
    BY <1>3
  <2>1. all[k] \in Items /\ Probe(s, all[k]) = b
    <3>1. all[k] \in Items
      BY <1>1, BucketIs
    <3> QED
      BY <1>1, <3>1, ProbeFinds DEF Eq
  <2> PICK first \in Nat : first = b + 1
    OBVIOUS
  <2>2. first = IF all[k] = NULL THEN 0 ELSE Probe(s, all[k]) + 1
    BY <2>1
  <2>3. CASE k = n
    <3>1. ASSUME NEW i \in first..(N - 1), s.table[i] # NULL
          PROVE  FALSE
      <4>1. PICK j \in 1..n : g[j] = i
        BY <1>3, <3>1
      <4>2. CASE j = k
        BY <4>1, <4>2
      <4>3. CASE j # k
        <5>1. j < k
          BY <2>3, <4>3
        <5>2. g[j] < g[k]
          BY <1>3, <5>1
        <5> QED
          BY <4>1, <5>2
      <4> QED
        BY <4>2, <4>3
    <3>2. Iterate(s, all[k]) = NULL
      BY <2>2, <3>1, IterateEnd
    <3> QED
      BY <2>3, <3>2
  <2>4. CASE k # n
    <3> PICK l \in 1..n : l = k + 1
      BY <2>4
    <3> PICK c \in 0..(N - 1) : c = g[l] /\ all[l] = s.table[c] /\ s.table[c] # NULL
      BY <1>3
    <3>1. c \in first..(N - 1)
      <4>1. k < l
        OBVIOUS
      <4>2. g[k] < g[l]
        BY <1>3, <4>1
      <4> QED
        BY <4>2
    <3>2. ASSUME NEW i \in first..(N - 1), s.table[i] # NULL
          PROVE  c <= i
      <4>1. i \in 0..(N - 1) /\ b < i
        OBVIOUS
      <4>2. PICK j \in 1..n : g[j] = i
        BY <1>3, <3>2, <4>1
      <4>3. CASE j < l
        <5>1. j = k \/ j < k
          BY <4>3
        <5>2. j < k => g[j] < g[k]
          BY <1>3
        <5> QED
          BY <4>1, <4>2, <5>1, <5>2
      <4>4. CASE j = l
        BY <4>2, <4>4
      <4>5. CASE l < j
        <5>1. g[l] < g[j]
          BY <1>3, <4>5
        <5> QED
          BY <4>1, <4>2, <5>1
      <4> QED
        BY <4>3, <4>4, <4>5
    <3>3. Iterate(s, all[k]) = s.table[c]
      BY <2>2, <3>1, <3>2, IterateNext
    <3> QED
      BY <2>4, <3>3
  <2> QED
    BY <2>3, <2>4
<1> QED
  BY <1>4, <1>5

-----------------------------------------------------------------------------
(* The specification. *)

IInv == Hashed /\ Fits(set) /\ call.arg \subseteq Items /\ call.ret \in Items \cup {NULL}

LEMMA GetIs ==
    ASSUME NEW s, NEW item \in Items, Hashed, Good(s)
    PROVE  /\ Get(s, item) = IF In(item, Held(s)) THEN CHOOSE m \in Held(s) : Eq(m, item) ELSE NULL
           /\ Get(s, item) \in Items \cup {NULL}
<1>1. CASE In(item, Held(s))
  <2> PICK m : m = CHOOSE x \in Held(s) : Eq(x, item)
    OBVIOUS
  <2>1. m \in Held(s) /\ Eq(m, item)
    BY <1>1 DEF In
  <2>2. Get(s, item) = m
    BY <2>1, GetHeld
  <2>3. m \in Items
    BY <2>1, HeldItems DEF Good, Plain
  <2> QED
    BY <1>1, <2>2, <2>3
<1>2. CASE ~In(item, Held(s))
  BY <1>2, GetNone
<1> QED
  BY <1>1, <1>2

\* The invariant of a table depends on the hash function, which no operation changes.
LEMMA FitsNext ==
    ASSUME NEW x, Hashed, Fits(x), set' = x, hash' = hash
    PROVE  (Hashed /\ Fits(set))'
<1>1. Hashed'
  BY DEF Hashed
<1>2. Reached(set)'
  BY DEF Reached, Fits, Good, Home, Class
<1>3. Plain(set)'
  BY DEF Plain, Unique, Full, Eq, Class, Fits, Good
<1> QED
  BY <1>1, <1>2, <1>3 DEF Fits, Good

LEMMA CalledIs ==
    ASSUME NEW op, NEW arg, NEW ret
    PROVE  Called(op, arg, ret).arg = arg /\ Called(op, arg, ret).ret = ret
  BY DEF Called

LEMMA OrderIs ==
    ASSUME NEW order \in Orders
    PROVE  Range(order) \subseteq Items /\ \A a, b \in Range(order) : Eq(a, b) => a = b
<1>1. order \in Seq(Items) /\ \A i, j \in DOMAIN order : Class(order[i]) = Class(order[j]) => i = j
  BY SetAssumption
<1>2. \A i \in DOMAIN order : order[i] \in Items
  BY <1>1, LenProperties, ElementOfSeq
<1> QED
  BY <1>1, <1>2 DEF Range, Eq

LEMMA ClearedIs ==
    ASSUME NEW t, NEW n, NEW k, NEW f, NEW s, NEW x, s = [table |-> t, size |-> n, itemCount |-> k],
           x = [s EXCEPT !.table = f, !.itemCount = 0]
    PROVE  x = [table |-> f, size |-> n, itemCount |-> 0]
  OBVIOUS

LEMMA ClearIs ==
    ASSUME NEW s, Fits(s)
    PROVE  LET cleared == [s EXCEPT !.table = [b \in 0..(s.size - 1) |-> NULL], !.itemCount = 0]
           IN  Fits(cleared) /\ Held(cleared) = {}
<1>1. s \in Tables /\ s.size \in Sizes /\ s.size <= MaxSize
  BY TableIs DEF Fits, Good, Plain
<1> PICK n \in Sizes : n = s.size
  BY <1>1
<1> PICK t \in [0..(n - 1) -> Items \cup {NULL}], k \in Nat : s = [table |-> t, size |-> n, itemCount |-> k]
  BY <1>1, TableIs
<1>2. [s EXCEPT !.table = [b \in 0..(s.size - 1) |-> NULL], !.itemCount = 0] = Blank(n)
  <2> PICK f : f = [b \in 0..(n - 1) |-> NULL]
    OBVIOUS
  <2> PICK x : x = [s EXCEPT !.table = f, !.itemCount = 0]
    OBVIOUS
  <2>1. x = [table |-> f, size |-> n, itemCount |-> 0]
    BY ClearedIs
  <2> QED
    BY <2>1 DEF Blank
<1>3. Good(Blank(n)) /\ Held(Blank(n)) = {} /\ Blank(n).size = n
  BY BlankIs
<1> QED
  BY <1>1, <1>2, <1>3 DEF Fits

\* What a step does to the set that the table stands for.
StepIs ==
    \/ \E item \in Items :
          /\ Held(set)' = {m \in Held(set) : ~Eq(m, item)} \cup {item}
          /\ call' = Called("Add", {item}, Get(set, item))
    \/ \E item \in Items :
          /\ Held(set)' = {m \in Held(set) : ~Eq(m, item)}
          /\ call' = Called("Remove", {item}, Get(set, item))
    \/ Held(set)' = {} /\ call' = Called("Clear", {}, NULL)
    \/ \E order \in Orders :
          /\ Held(set)' = {m \in Held(set) : ~In(m, Range(order))} \cup Range(order)
          /\ call' = Called("Union", Range(order), NULL)
    \/ \E order \in Orders :
          /\ Held(set)' = {m \in Held(set) : ~In(m, Range(order))}
          /\ call' = Called("Minus", Range(order), NULL)
    \/ \E order \in Orders :
          /\ Held(set)' = {m \in Held(set) : In(m, Range(order))}
          /\ call' = Called("Intersect", Range(order), NULL)

LEMMA HeldNext ==
    ASSUME NEW x, set' = x
    PROVE  Held(set)' = Held(x)
  BY DEF Held

LEMMA InitHolds == Init => IInv
<1> SUFFICES ASSUME Init PROVE IInv
  OBVIOUS
<1>1. PICK capacity \in Capacities : set = New(capacity)
  BY DEF Init
<1>2. Fits(set)
  BY <1>1, NewFits DEF Fits
<1>3. call.arg = {} /\ call.ret = NULL
  BY CalledIs DEF Init
<1> QED
  BY <1>2, <1>3 DEF Init, IInv, Hashed

LEMMA NextHolds == IInv /\ Next => IInv' /\ StepIs
<1> SUFFICES ASSUME IInv, Next PROVE IInv' /\ StepIs
  OBVIOUS
<1>1. Hashed /\ Fits(set) /\ Good(set)
  BY DEF IInv, Fits
<1>2. ASSUME NEW item \in Items, Add(item)
      PROVE  IInv' /\ StepIs
  <2> PICK x : x = AddTo(set, item)
    OBVIOUS
  <2>1. Fits(x) /\ Held(x) = {m \in Held(set) : ~Eq(m, item)} \cup {item}
    BY <1>1, AddToKeeps
  <2>2. set' = x /\ hash' = hash /\ call' = Called("Add", {item}, Get(set, item))
    BY <1>2 DEF Add
  <2>3. call'.arg = {item} /\ call'.ret = Get(set, item) /\ Get(set, item) \in Items \cup {NULL}
    BY <1>1, <2>2, CalledIs, GetIs
  <2>4. Held(set)' = Held(x)
    BY <2>2, HeldNext
  <2>5. (Hashed /\ Fits(set))'
    BY <1>1, <2>1, <2>2, FitsNext
  <2> QED
    BY <2>1, <2>2, <2>3, <2>4, <2>5 DEF IInv, StepIs
<1>3. ASSUME NEW item \in Items, Remove(item)
      PROVE  IInv' /\ StepIs
  <2> PICK x : x = RemoveFrom(set, item)
    OBVIOUS
  <2>1. Fits(x) /\ Held(x) = {m \in Held(set) : ~Eq(m, item)}
    BY <1>1, RemoveKeeps DEF Fits
  <2>2. set' = x /\ hash' = hash /\ call' = Called("Remove", {item}, Get(set, item))
    BY <1>3 DEF Remove
  <2>3. call'.arg = {item} /\ call'.ret = Get(set, item) /\ Get(set, item) \in Items \cup {NULL}
    BY <1>1, <2>2, CalledIs, GetIs
  <2>4. Held(set)' = Held(x)
    BY <2>2, HeldNext
  <2>5. (Hashed /\ Fits(set))'
    BY <1>1, <2>1, <2>2, FitsNext
  <2> QED
    BY <2>1, <2>2, <2>3, <2>4, <2>5 DEF IInv, StepIs
<1>4. ASSUME Clear
      PROVE  IInv' /\ StepIs
  <2> PICK x : x = [set EXCEPT !.table = [b \in 0..(set.size - 1) |-> NULL], !.itemCount = 0]
    OBVIOUS
  <2>1. Fits(x) /\ Held(x) = {}
    BY <1>1, ClearIs
  <2>2. set' = x /\ hash' = hash /\ call' = Called("Clear", {}, NULL)
    BY <1>4 DEF Clear
  <2>3. call'.arg = {} /\ call'.ret = NULL
    BY <2>2, CalledIs
  <2>4. Held(set)' = Held(x)
    BY <2>2, HeldNext
  <2>5. (Hashed /\ Fits(set))'
    BY <1>1, <2>1, <2>2, FitsNext
  <2> QED
    BY <2>1, <2>2, <2>3, <2>4, <2>5 DEF IInv, StepIs
<1>5. ASSUME NEW order \in Orders
      PROVE  Good(Other(order)) /\ Held(Other(order)) = Range(order) /\ Range(order) \subseteq Items
  BY <1>1, OtherIs, OrderIs DEF Fits
<1>6. ASSUME NEW order \in Orders, Union(order)
      PROVE  IInv' /\ StepIs
  <2> PICK x : x = AddAll(set, Other(order))
    OBVIOUS
  <2>1. Fits(x) /\ Held(x) = {m \in Held(set) : ~In(m, Range(order))} \cup Range(order)
    BY <1>1, <1>5, AddAllIs
  <2>2. set' = x /\ hash' = hash /\ call' = Called("Union", Range(order), NULL)
    BY <1>6 DEF Union
  <2>3. call'.arg = Range(order) /\ call'.ret = NULL
    BY <2>2, CalledIs
  <2>4. Held(set)' = Held(x)
    BY <2>2, HeldNext
  <2>5. (Hashed /\ Fits(set))'
    BY <1>1, <2>1, <2>2, FitsNext
  <2> QED
    BY <1>5, <2>1, <2>2, <2>3, <2>4, <2>5 DEF IInv, StepIs
<1>7. ASSUME NEW order \in Orders, Minus(order)
      PROVE  IInv' /\ StepIs
  <2> PICK x : x = RemoveAll(set, Other(order))
    OBVIOUS
  <2>1. Fits(x) /\ Held(x) = {m \in Held(set) : ~In(m, Range(order))}
    BY <1>1, <1>5, RemoveAllIs
  <2>2. set' = x /\ hash' = hash /\ call' = Called("Minus", Range(order), NULL)
    BY <1>7 DEF Minus
  <2>3. call'.arg = Range(order) /\ call'.ret = NULL
    BY <2>2, CalledIs
  <2>4. Held(set)' = Held(x)
    BY <2>2, HeldNext
  <2>5. (Hashed /\ Fits(set))'
    BY <1>1, <2>1, <2>2, FitsNext
  <2> QED
    BY <1>5, <2>1, <2>2, <2>3, <2>4, <2>5 DEF IInv, StepIs
<1>8. ASSUME NEW order \in Orders, Intersect(order)
      PROVE  IInv' /\ StepIs
  <2> PICK x : x = Intersection(set, Other(order))
    OBVIOUS
  <2>1. Fits(x) /\ Held(x) = {m \in Held(set) : In(m, Range(order))}
    BY <1>1, <1>5, IntersectionIs
  <2>2. set' = x /\ hash' = hash /\ call' = Called("Intersect", Range(order), NULL)
    BY <1>8 DEF Intersect
  <2>3. call'.arg = Range(order) /\ call'.ret = NULL
    BY <2>2, CalledIs
  <2>4. Held(set)' = Held(x)
    BY <2>2, HeldNext
  <2>5. (Hashed /\ Fits(set))'
    BY <1>1, <2>1, <2>2, FitsNext
  <2> QED
    BY <1>5, <2>1, <2>2, <2>3, <2>4, <2>5 DEF IInv, StepIs
<1> QED
  BY <1>2, <1>3, <1>4, <1>6, <1>7, <1>8 DEF Next

LEMMA StutterHolds == IInv /\ UNCHANGED vars => IInv'
<1> SUFFICES ASSUME IInv, UNCHANGED vars PROVE IInv'
  OBVIOUS
<1>1. set' = set /\ hash' = hash /\ call' = call
  BY DEF vars
<1>2. (Hashed /\ Fits(set))'
  BY <1>1, FitsNext DEF IInv
<1> QED
  BY <1>1, <1>2 DEF IInv

\* In every state the table is good: its items differ, they are counted, they fill no more buckets
\* than the limit, and no empty bucket lies between one of them and its hash.
THEOREM TableGood == Spec => []IInv
<1>1. IInv /\ [Next]_vars => IInv'
  BY NextHolds, StutterHolds
<1> QED
  BY <1>1, InitHolds, PTL DEF Spec

-----------------------------------------------------------------------------

\* The table has one of the sizes, and never more buckets than its items need.
THEOREM TypeCorrect == Spec => []TypeOK
<1>1. IInv => TypeOK
  <2> SUFFICES ASSUME IInv PROVE TypeOK
    OBVIOUS
  <2>1. /\ set \in Tables /\ set.itemCount <= Limit(set.size) /\ set.size <= MaxSize
        /\ hash \in [Classes -> Hashes]
    BY DEF IInv, Fits, Good, Plain, Hashed
  <2>2. set.size \in Range(tableSizes)
    <3>1. PICK n \in 2..Len(tableSizes) : set.size = tableSizes[n]
      BY <2>1, TableIs DEF Sizes
    <3>2. DOMAIN tableSizes = 1..Len(tableSizes)
      BY DEF tableSizes
    <3> QED
      BY <3>1, <3>2 DEF Range
  <2>3. set.itemCount \in 0..set.size /\ set.table \in [0..(set.size - 1) -> Items \cup {NULL}]
    BY <2>1, TableIs, TableSize
  <2> QED
    BY <2>1, <2>2, <2>3 DEF TypeOK, IInv
<1> QED
  BY <1>1, TableGood, PTL

\* Between two operations there is always an empty bucket, where probing for an item that is not there
\* ends, and BRSetCount is the number of items.
THEOREM ProbingEnds == Spec => []ProbesEnd
<1>1. IInv => ProbesEnd
  <2> SUFFICES ASSUME IInv PROVE ProbesEnd
    OBVIOUS
  <2>1. Plain(set) /\ set.itemCount < set.size
    BY TableIs, TableSize DEF IInv, Fits, Good, Plain
  <2> QED
    BY <2>1, SomeEmpty, HeldCount DEF ProbesEnd, Members
<1> QED
  BY <1>1, TableGood, PTL

\* BRSetGet finds an item if and only if one that is equal was added and not removed since, whatever
\* was moved meanwhile, and BRSetIntersects agrees with the sets.
THEOREM LookupFinds == Spec => []GetFinds
<1>1. IInv => GetFinds
  <2> SUFFICES ASSUME IInv PROVE GetFinds
    OBVIOUS
  <2>1. Hashed /\ Good(set)
    BY DEF IInv, Fits
  <2>2. ASSUME NEW item \in Items
        PROVE  Get(set, item) = IF \E m \in Members : Eq(m, item)
                                   THEN CHOOSE m \in Members : Eq(m, item) ELSE NULL
    BY <2>1, GetIs DEF Members, In
  <2>3. ASSUME NEW order \in Orders
        PROVE  Intersects(set, Other(order)) <=> \E m \in Members, i \in DOMAIN order : Eq(m, order[i])
    <3>1. Good(Other(order)) /\ Held(Other(order)) = Range(order)
      BY <2>1, OtherIs DEF Fits
    <3>2. Intersects(set, Other(order)) <=> \E m \in Held(set), o \in Range(order) : Eq(m, o)
      BY <2>1, <3>1, IntersectsIs
    <3> QED
      BY <3>2 DEF Members, Range
  <2> QED
    BY <2>2, <2>3 DEF GetFinds
<1> QED
  BY <1>1, TableGood, PTL

\* BRSetIterate comes to every item once, in the order of BRSetAll, and then to the end.
THEOREM IterationComplete == Spec => []IteratesAll
<1>1. IInv => IteratesAll
  BY IteratesGood DEF IInv, Fits, IteratesAll
<1> QED
  BY <1>1, TableGood, PTL

LEMMA StepRefines == IInv /\ StepIs => Abstract!Next
<1> SUFFICES ASSUME IInv, StepIs PROVE Abstract!Next
  OBVIOUS
<1>1. ASSUME NEW item \in Items
      PROVE  Get(set, item) = Abstract!Equal(item)
  BY GetIs DEF IInv, Fits, Abstract!Equal, Abstract!In, Abstract!Eq, In, Eq, Class, Members
<1>2. ASSUME NEW order \in Orders
      PROVE  Range(order) \in Abstract!Sets
  BY OrderIs DEF Abstract!Sets, Abstract!Eq, Eq, Class
<1>3. \A a, b : Abstract!Eq(a, b) <=> Eq(a, b)
  BY DEF Abstract!Eq, Eq, Class
<1>4. \A m, S : Abstract!In(m, S) <=> In(m, S)
  BY <1>3 DEF Abstract!In, In
<1>5. \A op, arg, ret : Called(op, arg, ret) = Abstract!Called(op, arg, ret)
  BY DEF Called, Abstract!Called
<1>6. ASSUME NEW item \in Items, Held(set)' = {m \in Held(set) : ~Eq(m, item)} \cup {item},
             call' = Called("Add", {item}, Get(set, item))
      PROVE  Abstract!Next
  <2>1. Abstract!Add(item)
    BY <1>1, <1>3, <1>5, <1>6 DEF Abstract!Add, Members
  <2> QED
    BY <2>1 DEF Abstract!Next
<1>7. ASSUME NEW item \in Items, Held(set)' = {m \in Held(set) : ~Eq(m, item)},
             call' = Called("Remove", {item}, Get(set, item))
      PROVE  Abstract!Next
  <2>1. Abstract!Remove(item)
    BY <1>1, <1>3, <1>5, <1>7 DEF Abstract!Remove, Members
  <2> QED
    BY <2>1 DEF Abstract!Next
<1>8. ASSUME Held(set)' = {}, call' = Called("Clear", {}, NULL)
      PROVE  Abstract!Next
  <2>1. Abstract!Clear
    BY <1>5, <1>8 DEF Abstract!Clear, Members
  <2> QED
    BY <2>1 DEF Abstract!Next
<1>9. ASSUME NEW order \in Orders,
             Held(set)' = {m \in Held(set) : ~In(m, Range(order))} \cup Range(order),
             call' = Called("Union", Range(order), NULL)
      PROVE  Abstract!Next
  <2>1. Abstract!Union(Range(order))
    BY <1>4, <1>5, <1>9 DEF Abstract!Union, Members
  <2> QED
    BY <1>2, <2>1 DEF Abstract!Next
<1>10. ASSUME NEW order \in Orders,
              Held(set)' = {m \in Held(set) : ~In(m, Range(order))},
              call' = Called("Minus", Range(order), NULL)
       PROVE  Abstract!Next
  <2>1. Abstract!Minus(Range(order))
    BY <1>4, <1>5, <1>10 DEF Abstract!Minus, Members
  <2> QED
    BY <1>2, <2>1 DEF Abstract!Next
<1>11. ASSUME NEW order \in Orders,
              Held(set)' = {m \in Held(set) : In(m, Range(order))},
              call' = Called("Intersect", Range(order), NULL)
       PROVE  Abstract!Next
  <2>1. Abstract!Intersect(Range(order))
    BY <1>4, <1>5, <1>11 DEF Abstract!Intersect, Members
  <2> QED
    BY <1>2, <2>1 DEF Abstract!Next
<1> QED
  BY <1>6, <1>7, <1>8, <1>9, <1>10, <1>11 DEF StepIs

\* The hash table implements a set: every operation does to its items what BRSet.h promises and returns
\* the item it says, for every hash function and whatever the table's growth and moves.
THEOREM SetImplemented == Spec => ImplementsItemSet
<1>1. Init => Abstract!Init
  <2> SUFFICES ASSUME Init PROVE Abstract!Init
    OBVIOUS
  <2>1. PICK capacity \in Capacities : set = New(capacity)
    BY DEF Init
  <2>2. Held(set) = {}
    BY <2>1, NewFits
  <2> QED
    BY <2>2 DEF Init, Abstract!Init, Members, Called, Abstract!Called
<1>2. IInv /\ [Next]_vars => [Abstract!Next]_(Abstract!vars)
  <2>1. IInv /\ Next => Abstract!Next
    BY NextHolds, StepRefines
  <2>2. UNCHANGED vars => UNCHANGED Abstract!vars
    BY DEF vars, Abstract!vars, Members, Held
  <2> QED
    BY <2>1, <2>2
<1> QED
  BY <1>1, <1>2, TableGood, PTL DEF Spec, ImplementsItemSet, Abstract!Spec

=============================================================================
