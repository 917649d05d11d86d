--------------------------- MODULE BRWalletProofs ---------------------------
(***************************************************************************)
(* The transaction list of BRWallet.tla is sorted by height, holds every   *)
(* transaction once and only transactions the wallet keeps, for any set of *)
(* transactions, any heights and any gap limits.                           *)
(***************************************************************************)
EXTENDS BRWallet, TLAPS

-----------------------------------------------------------------------------
(* Sequences. *)

\* An element of a sequence over S.
LEMMA ElementOf ==
    ASSUME NEW S, NEW s \in Seq(S), NEW i \in DOMAIN s
    PROVE  s[i] \in S
  OBVIOUS

\* The elements of a concatenation.
LEMMA ConcatFacts ==
    ASSUME NEW S, NEW u \in Seq(S), NEW v \in Seq(S)
    PROVE  /\ u \o v \in Seq(S)
           /\ Len(u \o v) = Len(u) + Len(v)
           /\ \A i \in 1..Len(u) : (u \o v)[i] = u[i]
           /\ \A i \in 1..Len(v) : (u \o v)[Len(u) + i] = v[i]
  OBVIOUS

\* The list r is s with t after its first p elements.
IsInsertion(S, s, p, t, r) ==
    /\ r \in Seq(S)
    /\ Len(r) = Len(s) + 1
    /\ \A i \in 1..p : r[i] = s[i]
    /\ r[p + 1] = t
    /\ \A i \in (p + 1)..Len(s) : r[i + 1] = s[i]

\* The list r is s without its k-th element.
IsRemoval(S, s, k, r) ==
    /\ r \in Seq(S)
    /\ Len(r) = Len(s) - 1
    /\ \A i \in 1..(k - 1) : r[i] = s[i]
    /\ \A i \in k..(Len(s) - 1) : r[i] = s[i + 1]

\* What InsertAt returns.
LEMMA InsertAtFacts ==
    ASSUME NEW S, NEW s \in Seq(S), NEW t \in S, NEW p \in 0..Len(s),
           NEW r, r = InsertAt(s, p + 1, t)
    PROVE  IsInsertion(S, s, p, t, r)
<1> DEFINE u == SubSeq(s, 1, p)
           v == SubSeq(s, p + 1, Len(s))
           w == u \o <<t>>
<1>1. u \in Seq(S) /\ Len(u) = p /\ \A i \in 1..p : u[i] = s[i]
  OBVIOUS
<1>2. v \in Seq(S) /\ Len(v) = Len(s) - p /\ \A i \in 1..(Len(s) - p) : v[i] = s[p + i]
  OBVIOUS
<1>3. r = w \o v
  <2>1. (p + 1) - 1 = p
    OBVIOUS
  <2> QED
    BY <2>1, Zenon DEF InsertAt
<1> HIDE DEF u, v
<1>4. /\ w \in Seq(S)
      /\ Len(w) = p + 1
      /\ w[p + 1] = t
      /\ \A i \in 1..p : w[i] = s[i]
  <2>1. <<t>> \in Seq(S) /\ Len(<<t>>) = 1 /\ <<t>>[1] = t
    OBVIOUS
  <2> QED
    BY <1>1, <2>1, ConcatFacts
<1> HIDE DEF w
<1>8. /\ r \in Seq(S)
      /\ Len(r) = Len(w) + Len(v)
      /\ \A i \in 1..Len(w) : r[i] = w[i]
      /\ \A i \in 1..Len(v) : r[Len(w) + i] = v[i]
  <2>1. w \in Seq(S) /\ v \in Seq(S)
    BY <1>2, <1>4
  <2>2. /\ w \o v \in Seq(S)
        /\ Len(w \o v) = Len(w) + Len(v)
        /\ \A i \in 1..Len(w) : (w \o v)[i] = w[i]
        /\ \A i \in 1..Len(v) : (w \o v)[Len(w) + i] = v[i]
    BY <2>1, ConcatFacts
  <2> QED
    BY <1>3, <2>2, Zenon
<1>5. r \in Seq(S) /\ Len(r) = Len(s) + 1
  BY <1>2, <1>4, <1>8
<1>6. \A i \in 1..(p + 1) : r[i] = w[i]
  BY <1>4, <1>8
<1>7. ASSUME NEW i \in (p + 1)..Len(s)
      PROVE  r[i + 1] = s[i]
  <2>1. i - p \in 1..Len(v) /\ Len(w) + (i - p) = i + 1 /\ p + (i - p) = i
    BY <1>2, <1>4
  <2>2. r[Len(w) + (i - p)] = v[i - p]
    BY <2>1, <1>8
  <2>3. v[i - p] = s[p + (i - p)]
    BY <1>2, <2>1
  <2> QED
    BY <2>1, <2>2, <2>3
<1> QED
  BY <1>4, <1>5, <1>6, <1>7 DEF IsInsertion

\* What RemoveAt returns.
LEMMA RemoveAtFacts ==
    ASSUME NEW S, NEW s \in Seq(S), NEW k \in 1..Len(s), NEW r, r = RemoveAt(s, k)
    PROVE  IsRemoval(S, s, k, r)
<1> DEFINE u == SubSeq(s, 1, k - 1)
           v == SubSeq(s, k + 1, Len(s))
<1>1. u \in Seq(S) /\ Len(u) = k - 1 /\ \A i \in 1..(k - 1) : u[i] = s[i]
  OBVIOUS
<1>2. v \in Seq(S) /\ Len(v) = Len(s) - k /\ \A i \in 1..(Len(s) - k) : v[i] = s[k + i]
  OBVIOUS
<1>3. r = u \o v
  BY Zenon DEF RemoveAt
<1> HIDE DEF u, v
<1>8. /\ r \in Seq(S)
      /\ Len(r) = Len(u) + Len(v)
      /\ \A i \in 1..Len(u) : r[i] = u[i]
      /\ \A i \in 1..Len(v) : r[Len(u) + i] = v[i]
  <2>1. u \in Seq(S) /\ v \in Seq(S)
    BY <1>1, <1>2
  <2>2. /\ u \o v \in Seq(S)
        /\ Len(u \o v) = Len(u) + Len(v)
        /\ \A i \in 1..Len(u) : (u \o v)[i] = u[i]
        /\ \A i \in 1..Len(v) : (u \o v)[Len(u) + i] = v[i]
    BY <2>1, ConcatFacts
  <2> QED
    BY <1>3, <2>2, Zenon
<1>4. r \in Seq(S) /\ Len(r) = Len(s) - 1 /\ \A i \in 1..(k - 1) : r[i] = s[i]
  BY <1>1, <1>2, <1>8
<1>5. ASSUME NEW i \in k..(Len(s) - 1)
      PROVE  r[i] = s[i + 1]
  <2>1. /\ i - (k - 1) \in 1..Len(v)
        /\ Len(u) + (i - (k - 1)) = i
        /\ k + (i - (k - 1)) = i + 1
    BY <1>1, <1>2
  <2>2. r[Len(u) + (i - (k - 1))] = v[i - (k - 1)]
    BY <2>1, <1>8
  <2>3. v[i - (k - 1)] = s[k + (i - (k - 1))]
    BY <1>2, <2>1
  <2> QED
    BY <2>1, <2>2, <2>3
<1> QED
  BY <1>4, <1>5 DEF IsRemoval

-----------------------------------------------------------------------------
(* Sorted lists of distinct elements. *)

Sorted(h, s) == \A i, j \in 1..Len(s) : i <= j => h[s[i]] <= h[s[j]]

Elements(s) == {s[i] : i \in 1..Len(s)}

Distinct(s) == \A i, j \in 1..Len(s) : s[i] = s[j] => i = j

\* Where the i-th element of a list with an insertion comes from.
ComesFrom(s, p, t, r, i) ==
    \/ i \in 1..p /\ i \in 1..Len(s) /\ r[i] = s[i]
    \/ i = p + 1 /\ r[i] = t
    \/ i - 1 \in (p + 1)..Len(s) /\ i - 1 \in 1..Len(s) /\ r[i] = s[i - 1]

LEMMA InsertionSources ==
    ASSUME NEW S, NEW s \in Seq(S), NEW t \in S, NEW p \in 0..Len(s), NEW r,
           IsInsertion(S, s, p, t, r), NEW i \in 1..Len(r)
    PROVE  ComesFrom(s, p, t, r, i)
<1>0. Len(s) \in Nat /\ p \in Nat /\ i \in Nat /\ i \in 1..(Len(s) + 1)
  BY DEF IsInsertion
<1>1. CASE i <= p
  <2>1. i \in 1..p /\ i \in 1..Len(s)
    BY <1>0, <1>1
  <2> QED
    BY <2>1, Zenon DEF IsInsertion, ComesFrom
<1>2. CASE i = p + 1
  BY <1>2, Zenon DEF IsInsertion, ComesFrom
<1>3. CASE i > p + 1
  <2>1. i - 1 \in (p + 1)..Len(s) /\ i - 1 \in 1..Len(s) /\ (i - 1) + 1 = i
    BY <1>0, <1>3
  <2>2. r[(i - 1) + 1] = s[i - 1]
    BY <2>1, Zenon DEF IsInsertion
  <2>3. r[i] = s[i - 1]
    BY <2>1, <2>2, Zenon
  <2> QED
    BY <2>1, <2>3, Zenon DEF ComesFrom
<1> QED
  BY <1>0, <1>1, <1>2, <1>3

\* An element goes between the smaller and the larger ones of a sorted list.
LEMMA InsertSorted ==
    ASSUME NEW S, NEW h \in [S -> Nat], NEW s \in Seq(S), NEW t \in S, NEW p \in 0..Len(s),
           Sorted(h, s),
           p > 0 => h[s[p]] <= h[t],
           \A i \in (p + 1)..Len(s) : h[s[i]] >= h[t],
           NEW r, r = InsertAt(s, p + 1, t)
    PROVE  Sorted(h, r)
<1>0. IsInsertion(S, s, p, t, r)
  BY InsertAtFacts, Zenon
<1>1. /\ r \in Seq(S) /\ Len(r) = Len(s) + 1
      /\ \A i \in 1..p : r[i] = s[i]
      /\ r[p + 1] = t
      /\ \A i \in (p + 1)..Len(s) : r[i + 1] = s[i]
  BY <1>0, Zenon DEF IsInsertion
<1>2. \A i \in 1..Len(s) : s[i] \in S /\ h[s[i]] \in Nat
  OBVIOUS
<1>3. ASSUME NEW i \in 1..p
      PROVE  h[s[i]] <= h[t]
  <2>1. p > 0 /\ p \in 1..Len(s) /\ i \in 1..Len(s) /\ i <= p
    OBVIOUS
  <2>2. h[s[i]] <= h[s[p]]
    BY <2>1, Zenon DEF Sorted
  <2>3. h[s[i]] \in Nat /\ h[s[p]] \in Nat /\ h[t] \in Nat
    BY <1>2, <2>1
  <2> QED
    BY <2>1, <2>2, <2>3
<1>4. ASSUME NEW i \in 1..Len(r)
      PROVE  ComesFrom(s, p, t, r, i)
  BY <1>0, InsertionSources, Zenon
<1> SUFFICES ASSUME NEW i \in 1..Len(r), NEW j \in 1..Len(r), i <= j
             PROVE  h[r[i]] <= h[r[j]]
  BY Zenon DEF Sorted
<1>5. p \in Nat /\ Len(s) \in Nat /\ i \in Nat /\ j \in Nat
  BY <1>1
<1>6. CASE j \in 1..p
  <2>1. i \in 1..p /\ i \in 1..Len(s) /\ j \in 1..Len(s)
    BY <1>5, <1>6
  <2>2. h[s[i]] <= h[s[j]]
    BY <2>1, Zenon DEF Sorted
  <2> QED
    BY <1>1, <1>6, <2>1, <2>2, Zenon
<1>7. CASE j = p + 1
  <2>1. CASE i = p + 1
    <3>1. h[t] \in Nat
      OBVIOUS
    <3>2. h[t] <= h[t]
      BY <3>1
    <3> QED
      BY <1>1, <1>7, <2>1, <3>2, Zenon
  <2>2. CASE i # p + 1
    <3>1. i \in 1..p
      BY <1>5, <1>7, <2>2
    <3> QED
      BY <1>1, <1>3, <1>7, <3>1, Zenon
  <2> QED
    BY <2>1, <2>2
<1>8. CASE j - 1 \in (p + 1)..Len(s) /\ j - 1 \in 1..Len(s) /\ r[j] = s[j - 1]
  <2>0. h[s[j - 1]] >= h[t] /\ h[s[j - 1]] \in Nat /\ h[t] \in Nat
    BY <1>2, <1>8
  <2>1. CASE i \in 1..p /\ i \in 1..Len(s) /\ r[i] = s[i]
    <3>1. i <= j - 1
      BY <1>5, <1>8, <2>1
    <3>2. h[s[i]] <= h[s[j - 1]]
      BY <1>8, <2>1, <3>1, Zenon DEF Sorted
    <3> QED
      BY <1>8, <2>1, <3>2, Zenon
  <2>2. CASE i = p + 1 /\ r[i] = t
    <3>1. h[t] <= h[s[j - 1]]
      BY <2>0
    <3> QED
      BY <1>8, <2>2, <3>1, Zenon
  <2>3. CASE i - 1 \in (p + 1)..Len(s) /\ i - 1 \in 1..Len(s) /\ r[i] = s[i - 1]
    <3>1. i - 1 <= j - 1
      BY <1>5
    <3>2. h[s[i - 1]] <= h[s[j - 1]]
      BY <1>8, <2>3, <3>1, Zenon DEF Sorted
    <3> QED
      BY <1>8, <2>3, <3>2, Zenon
  <2> QED
    BY <1>4, <2>1, <2>2, <2>3, Zenon DEF ComesFrom
<1> QED
  BY <1>4, <1>6, <1>7, <1>8, Zenon DEF ComesFrom

\* Inserting an element that is not there keeps the elements distinct, and adds just it.
LEMMA InsertDistinct ==
    ASSUME NEW S, NEW s \in Seq(S), NEW t \in S, NEW p \in 0..Len(s), Distinct(s),
           t \notin Elements(s),
           NEW r, r = InsertAt(s, p + 1, t)
    PROVE  /\ r \in Seq(S)
           /\ Distinct(r)
           /\ Elements(r) = Elements(s) \cup {t}
<1>0. IsInsertion(S, s, p, t, r)
  BY InsertAtFacts, Zenon
<1>9. \A i \in 1..Len(s) : s[i] # t
  BY Zenon DEF Elements
<1>1. /\ r \in Seq(S) /\ Len(r) = Len(s) + 1
      /\ \A i \in 1..p : r[i] = s[i]
      /\ r[p + 1] = t
      /\ \A i \in (p + 1)..Len(s) : r[i + 1] = s[i]
  BY <1>0, Zenon DEF IsInsertion
<1>2. ASSUME NEW i \in 1..Len(r)
      PROVE  ComesFrom(s, p, t, r, i)
  BY <1>0, InsertionSources, Zenon
<1>3. ASSUME NEW i \in 1..Len(r), NEW j \in 1..Len(r), r[i] = r[j]
      PROVE  i = j
  <2>0. i \in Nat /\ j \in Nat /\ p \in Nat /\ Len(s) \in Nat
    BY <1>1
  <2>1. CASE i \in 1..p /\ i \in 1..Len(s) /\ r[i] = s[i]
    <3>1. CASE j \in 1..p /\ j \in 1..Len(s) /\ r[j] = s[j]
      BY <1>3, <2>1, <3>1, Zenon DEF Distinct
    <3>2. CASE j = p + 1 /\ r[j] = t
      BY <1>3, <1>9, <2>1, <3>2, Zenon
    <3>3. CASE j - 1 \in (p + 1)..Len(s) /\ j - 1 \in 1..Len(s) /\ r[j] = s[j - 1]
      <4>1. i = j - 1
        BY <1>3, <2>1, <3>3, Zenon DEF Distinct
      <4> QED
        BY <2>0, <2>1, <3>3, <4>1
    <3> QED
      BY <1>2, <3>1, <3>2, <3>3, Zenon DEF ComesFrom
  <2>2. CASE i = p + 1 /\ r[i] = t
    <3>1. CASE j \in 1..p /\ j \in 1..Len(s) /\ r[j] = s[j]
      BY <1>3, <1>9, <2>2, <3>1, Zenon
    <3>2. CASE j = p + 1 /\ r[j] = t
      BY <2>2, <3>2
    <3>3. CASE j - 1 \in (p + 1)..Len(s) /\ j - 1 \in 1..Len(s) /\ r[j] = s[j - 1]
      BY <1>3, <1>9, <2>2, <3>3, Zenon
    <3> QED
      BY <1>2, <3>1, <3>2, <3>3, Zenon DEF ComesFrom
  <2>3. CASE i - 1 \in (p + 1)..Len(s) /\ i - 1 \in 1..Len(s) /\ r[i] = s[i - 1]
    <3>1. CASE j \in 1..p /\ j \in 1..Len(s) /\ r[j] = s[j]
      <4>1. i - 1 = j
        BY <1>3, <2>3, <3>1, Zenon DEF Distinct
      <4> QED
        BY <2>0, <2>3, <3>1, <4>1
    <3>2. CASE j = p + 1 /\ r[j] = t
      BY <1>3, <1>9, <2>3, <3>2, Zenon
    <3>3. CASE j - 1 \in (p + 1)..Len(s) /\ j - 1 \in 1..Len(s) /\ r[j] = s[j - 1]
      <4>1. i - 1 = j - 1
        BY <1>3, <2>3, <3>3, Zenon DEF Distinct
      <4> QED
        BY <2>0, <4>1
    <3> QED
      BY <1>2, <3>1, <3>2, <3>3, Zenon DEF ComesFrom
  <2> QED
    BY <1>2, <2>1, <2>2, <2>3, Zenon DEF ComesFrom
<1>4. ASSUME NEW i \in 1..Len(s)
      PROVE  \E j \in 1..Len(r) : r[j] = s[i]
  <2>0. i \in Nat /\ p \in Nat /\ Len(s) \in Nat
    OBVIOUS
  <2>1. CASE i <= p
    <3>1. i \in 1..p /\ i \in 1..Len(r)
      BY <1>1, <2>0, <2>1
    <3> QED
      BY <1>1, <3>1, Zenon
  <2>2. CASE i > p
    <3>1. i \in (p + 1)..Len(s) /\ i + 1 \in 1..Len(r)
      BY <1>1, <2>0, <2>2
    <3> QED
      BY <1>1, <3>1, Zenon
  <2> QED
    BY <2>0, <2>1, <2>2
<1>5. ASSUME NEW i \in 1..Len(r)
      PROVE  r[i] = t \/ \E j \in 1..Len(s) : s[j] = r[i]
  BY <1>2, Zenon DEF ComesFrom
<1>6. \E j \in 1..Len(r) : r[j] = t
  <2>1. p + 1 \in 1..Len(r)
    BY <1>1
  <2> QED
    BY <1>1, <2>1, Zenon
<1>7. Distinct(r)
  BY <1>3, Zenon DEF Distinct
<1>8. {r[i] : i \in 1..Len(r)} = {s[i] : i \in 1..Len(s)} \cup {t}
  <2>1. ASSUME NEW x \in {r[i] : i \in 1..Len(r)}
        PROVE  x \in {s[i] : i \in 1..Len(s)} \cup {t}
    <3>1. PICK i \in 1..Len(r) : x = r[i]
      BY Zenon
    <3> QED
      BY <1>5, <3>1, Zenon
  <2>2. ASSUME NEW x \in {s[i] : i \in 1..Len(s)} \cup {t}
        PROVE  x \in {r[i] : i \in 1..Len(r)}
    BY <1>4, <1>6, Zenon
  <2> QED
    BY <2>1, <2>2, Zenon
<1> QED
  BY <1>1, <1>7, <1>8, Zenon DEF Elements

\* The list r is sorted and holds what s holds, but for its k-th element, once each.
Removed(S, h, s, k, r) ==
    /\ r \in Seq(S)
    /\ Len(r) = Len(s) - 1
    /\ Distinct(r)
    /\ Sorted(h, s) => Sorted(h, r)
    /\ Elements(r) = Elements(s) \ {s[k]}

\* Removing one element of a list of distinct elements.
LEMMA RemoveKeeps ==
    ASSUME NEW S, NEW h \in [S -> Nat], NEW s \in Seq(S), NEW k \in 1..Len(s),
           Distinct(s), NEW r, r = RemoveAt(s, k)
    PROVE  Removed(S, h, s, k, r)
<1>1. /\ r \in Seq(S) /\ Len(r) = Len(s) - 1
      /\ \A i \in 1..(k - 1) : r[i] = s[i]
      /\ \A i \in k..(Len(s) - 1) : r[i] = s[i + 1]
  <2>1. IsRemoval(S, s, k, r)
    BY RemoveAtFacts, Zenon
  <2> QED
    BY <2>1, Zenon DEF IsRemoval
<1>2. ASSUME NEW i \in 1..Len(r)
      PROVE  \/ i < k /\ i \in 1..Len(s) /\ r[i] = s[i]
             \/ i >= k /\ i + 1 \in 1..Len(s) /\ r[i] = s[i + 1]
  <2>0. i \in Nat /\ k \in Nat /\ Len(s) \in Nat /\ i \in 1..(Len(s) - 1)
    BY <1>1
  <2>1. CASE i < k
    <3>1. i \in 1..(k - 1) /\ i \in 1..Len(s)
      BY <2>0, <2>1
    <3> QED
      BY <1>1, <2>1, <3>1, Zenon
  <2>2. CASE i >= k
    <3>1. i \in k..(Len(s) - 1) /\ i + 1 \in 1..Len(s)
      BY <2>0, <2>2
    <3> QED
      BY <1>1, <2>2, <3>1, Zenon
  <2> QED
    BY <2>0, <2>1, <2>2
<1>3. ASSUME NEW i \in 1..Len(r), NEW j \in 1..Len(r)
      PROVE  /\ r[i] = r[j] => i = j
             /\ r[i] # s[k]
             /\ Sorted(h, s) /\ i <= j => h[r[i]] <= h[r[j]]
  <2>0. i \in Nat /\ j \in Nat /\ k \in Nat
    BY <1>1
  <2> DEFINE f(m) == IF m < k THEN m ELSE m + 1
  <2>1. ASSUME NEW m \in 1..Len(r)
        PROVE  f(m) \in 1..Len(s) /\ r[m] = s[f(m)]
    <3>1. m \in Nat /\ (m >= k => ~(m < k))
      BY <1>1, <2>0
    <3>2. CASE m < k
      <4>1. m \in 1..Len(s) /\ r[m] = s[m]
        BY <1>2, <2>0, <3>1, <3>2
      <4> QED
        BY <3>2, <4>1, Zenon
    <3>3. CASE ~(m < k)
      <4>1. m + 1 \in 1..Len(s) /\ r[m] = s[m + 1]
        BY <1>2, <3>3, Zenon
      <4> QED
        BY <3>3, <4>1, Zenon
    <3> QED
      BY <3>2, <3>3
  <2>2. (f(i) = f(j) => i = j) /\ f(i) # k /\ (i <= j => f(i) <= f(j))
    BY <2>0
  <2> HIDE DEF f
  <2>3. (s[f(i)] = s[f(j)] => f(i) = f(j)) /\ s[f(i)] # s[k]
    BY <2>1, <2>2, Zenon DEF Distinct
  <2>4. Sorted(h, s) /\ i <= j => h[s[f(i)]] <= h[s[f(j)]]
    BY <2>1, <2>2, Zenon DEF Sorted
  <2> QED
    BY <2>1, <2>2, <2>3, <2>4, Zenon
<1>4. ASSUME NEW i \in 1..Len(s), i # k
      PROVE  \E j \in 1..Len(r) : r[j] = s[i]
  <2>0. i \in Nat /\ k \in Nat /\ Len(s) \in Nat
    OBVIOUS
  <2>1. CASE i < k
    <3>1. i \in 1..(k - 1) /\ i \in 1..Len(r)
      BY <1>1, <2>0, <2>1
    <3> QED
      BY <1>1, <3>1, Zenon
  <2>2. CASE i > k
    <3>1. i - 1 \in k..(Len(s) - 1) /\ i - 1 \in 1..Len(r) /\ (i - 1) + 1 = i
      BY <1>1, <2>0, <2>2
    <3>2. r[i - 1] = s[(i - 1) + 1]
      BY <1>1, <3>1, Zenon
    <3> QED
      BY <3>1, <3>2, Zenon
  <2> QED
    BY <1>4, <2>0, <2>1, <2>2
<1>5. \A i \in 1..Len(r) : \E j \in 1..Len(s) : s[j] = r[i]
  BY <1>2, Zenon
<1>6. Distinct(r) /\ (Sorted(h, s) => Sorted(h, r))
  BY <1>3, Zenon DEF Distinct, Sorted
<1>7. {r[i] : i \in 1..Len(r)} = {s[i] : i \in 1..Len(s)} \ {s[k]}
  <2>1. ASSUME NEW x \in {r[i] : i \in 1..Len(r)}
        PROVE  x \in {s[i] : i \in 1..Len(s)} \ {s[k]}
    <3>1. PICK i \in 1..Len(r) : x = r[i]
      BY Zenon
    <3> QED
      BY <1>3, <1>5, <3>1, Zenon
  <2>2. ASSUME NEW x \in {s[i] : i \in 1..Len(s)} \ {s[k]}
        PROVE  x \in {r[i] : i \in 1..Len(r)}
    <3>1. PICK i \in 1..Len(s) : x = s[i] /\ i # k
      BY Zenon
    <3> QED
      BY <1>4, <3>1, Zenon
  <2> QED
    BY <2>1, <2>2, Zenon
<1> QED
  BY <1>1, <1>6, <1>7, Zenon DEF Elements, Removed

-----------------------------------------------------------------------------
(* The wallet's order and its transactions. *)

\* _BRWalletTxCompare looks at the heights first.
LEMMA SortsAfterHeights ==
    ASSUME NEW h \in [Tx -> Nat], NEW known, NEW ch, NEW t1 \in Tx, NEW t2 \in Tx
    PROVE  /\ SortsAfter(h, known, ch, t1, t2) => h[t1] >= h[t2]
           /\ ~SortsAfter(h, known, ch, t1, t2) => h[t1] <= h[t2]
<1>1. h[t1] \in Nat /\ h[t2] \in Nat
  OBVIOUS
<1>2. h[t1] > h[t2] => TxIsAscending(h, known, t1, t2)
  BY DEF TxIsAscending
<1>3. TxIsAscending(h, known, t1, t2) => h[t1] >= h[t2]
  BY <1>1 DEF TxIsAscending
<1>4. ~TxIsAscending(h, known, t2, t1) => h[t1] >= h[t2]
  BY <1>1 DEF TxIsAscending
<1>5. TxIsAscending(h, known, t1, t2) => SortsAfter(h, known, ch, t1, t2)
  BY DEF SortsAfter
<1>6. SortsAfter(h, known, ch, t1, t2) =>
         TxIsAscending(h, known, t1, t2) \/ ~TxIsAscending(h, known, t2, t1)
  BY DEF SortsAfter
<1> QED
  BY <1>1, <1>2, <1>3, <1>4, <1>5, <1>6

\* The list r is sorted and holds what s holds, and t, once each.
Inserted(h, s, t, r) ==
    /\ r \in Seq(Tx)
    /\ Sorted(h, r)
    /\ Distinct(r)
    /\ Elements(r) = Elements(s) \cup {t}

\* _BRWalletInsertTx, for a transaction that is not in the list.
LEMMA InsertTx ==
    ASSUME NEW h \in [Tx -> Nat], NEW known, NEW ch, NEW s \in Seq(Tx), NEW t \in Tx,
           NEW p \in 0..Len(s), InsertPoint(h, known, ch, s, t, p),
           Sorted(h, s), Distinct(s), t \notin Elements(s),
           NEW r, r = InsertAt(s, p + 1, t)
    PROVE  Inserted(h, s, t, r)
<1>1. ASSUME p > 0
      PROVE  h[s[p]] <= h[t]
  <2>1. p \in 1..Len(s)
    BY <1>1
  <2>2. s[p] \in Tx /\ ~SortsAfter(h, known, ch, s[p], t)
    BY <1>1, <2>1 DEF InsertPoint
  <2> QED
    BY <2>2, SortsAfterHeights, Zenon
<1>2. ASSUME NEW i \in (p + 1)..Len(s)
      PROVE  h[s[i]] >= h[t]
  <2>1. i \in 1..Len(s)
    OBVIOUS
  <2>2. s[i] \in Tx /\ SortsAfter(h, known, ch, s[i], t)
    BY <2>1 DEF InsertPoint
  <2> QED
    BY <2>2, SortsAfterHeights, Zenon
<1>3. Sorted(h, r)
  BY <1>1, <1>2, InsertSorted, Zenon
<1>4. /\ r \in Seq(Tx)
      /\ Distinct(r)
      /\ Elements(r) = Elements(s) \cup {t}
  BY InsertDistinct, SMT
<1> QED
  BY <1>3, <1>4, Zenon DEF Inserted

\* Heights that agree on a list sort it the same way.
LEMMA SortedAgree ==
    ASSUME NEW g, NEW h, NEW s, Sorted(h, s), \A i \in 1..Len(s) : g[s[i]] = h[s[i]]
    PROVE  Sorted(g, s)
  BY Zenon DEF Sorted

\* An address of an output is a pair.
LEMMA AddressType ==
    ASSUME NEW t \in Tx, NEW o \in Outpoints(t)
    PROVE  o[1] = t /\ Address(o) \in STRING \X Nat
<1>1. TxData[t].outputs \in Seq([addr : STRING \X Nat, amount : Nat])
  BY OutputAssumption
<1>2. o[1] = t /\ o[2] \in DOMAIN TxData[t].outputs
  BY DEF Outpoints
<1>3. TxData[t].outputs[o[2]] \in [addr : STRING \X Nat, amount : Nat]
  BY <1>1, <1>2, ElementOf, Zenon
<1> QED
  BY <1>2, <1>3 DEF Address

\* Chain a is a beginning of chain b.
Grown(a, b) == \A c \in Chains : a[c] <= b[c]

\* More known transactions and more addresses: what was the wallet's still is.
LEMMA ContainsMono ==
    ASSUME NEW known \in SUBSET Tx, NEW more \in SUBSET Tx, known \subseteq more,
           NEW a \in [Chains -> Nat], NEW b \in [Chains -> Nat], Grown(a, b),
           NEW t \in Tx, ContainsTx(known, a, t)
    PROVE  ContainsTx(more, b, t)
<1>1. ASSUME NEW u \in Tx, NEW o \in Outpoints(u), Generated(a, Address(o))
      PROVE  Generated(b, Address(o))
  <2>1. Address(o) \in STRING \X Nat
    BY AddressType, Zenon
  <2>2. Address(o)[2] \in Nat /\ Address(o)[1] \in Chains /\ Address(o)[2] < a[Address(o)[1]]
    BY <1>1, <2>1 DEF Generated
  <2>3. a[Address(o)[1]] \in Nat /\ b[Address(o)[1]] \in Nat
        /\ a[Address(o)[1]] <= b[Address(o)[1]]
    BY <2>2 DEF Grown
  <2> QED
    BY <2>2, <2>3 DEF Generated
<1>2. CASE \E o \in Outpoints(t) : Generated(a, Address(o))
  BY <1>1, <1>2, Zenon DEF ContainsTx
<1>3. CASE \E o \in TxData[t].inputs :
              o[1] \in known /\ o \in Outpoints(o[1]) /\ Generated(a, Address(o))
  <2>1. PICK o \in TxData[t].inputs :
              o[1] \in known /\ o \in Outpoints(o[1]) /\ Generated(a, Address(o))
    BY <1>3
  <2>2. o[1] \in Tx /\ o[1] \in more
    BY <2>1
  <2>3. Generated(b, Address(o))
    BY <1>1, <2>1, <2>2, Zenon
  <2> QED
    BY <2>1, <2>2, <2>3, Zenon DEF ContainsTx
<1> QED
  BY <1>2, <1>3, Zenon DEF ContainsTx

\* Forgetting a transaction that is none of the wallet's changes nothing for the others.
LEMMA ContainsAfterFree ==
    ASSUME NEW known, NEW a, NEW x, ~ContainsTx(known, a, x), NEW t, ContainsTx(known, a, t)
    PROVE  t # x /\ ContainsTx(known \ {x}, a, t)
<1>1. CASE \E o \in Outpoints(t) : Generated(a, Address(o))
  BY <1>1, Zenon DEF ContainsTx
<1>2. CASE \E o \in TxData[t].inputs :
              o[1] \in known /\ o \in Outpoints(o[1]) /\ Generated(a, Address(o))
  <2>1. PICK o \in TxData[t].inputs :
              o[1] \in known /\ o \in Outpoints(o[1]) /\ Generated(a, Address(o))
    BY <1>2
  <2>2. o[1] # x
    BY <2>1, Zenon DEF ContainsTx
  <2> QED
    BY <2>1, <2>2, Zenon DEF ContainsTx
<1> QED
  BY <1>1, <1>2, Zenon DEF ContainsTx

-----------------------------------------------------------------------------
(* The inductive invariant. *)

IInv == TypeOK /\ HeightSorted /\ ListedOnceAndHeld

\* A height is a number no larger than TX_UNCONFIRMED.
LEMMA HeightType ==
    ASSUME NEW h \in [Tx -> Heights \cup {TX_UNCONFIRMED}]
    PROVE  h \in [Tx -> Nat] /\ \A t \in Tx : h[t] <= TX_UNCONFIRMED
  BY HeightAssumption DEF Heights

\* The invariant in the terms of the lemmas above.
LEMMA ListFacts ==
    ASSUME IInv
    PROVE  /\ transactions \in Seq(Tx)
           /\ height \in [Tx -> Nat]
           /\ \A t \in Tx : height[t] <= TX_UNCONFIRMED
           /\ Sorted(height, transactions)
           /\ Distinct(transactions)
           /\ Listed = Elements(transactions)
           /\ Listed \subseteq Tx
           /\ \A t \in Listed : t \in allTx /\ ContainsTx(allTx, chain, t)
<1>1. transactions \in Seq(Tx) /\ DOMAIN transactions = 1..Len(transactions)
  BY DEF IInv, TypeOK
<1>2. height \in [Tx -> Nat] /\ \A t \in Tx : height[t] <= TX_UNCONFIRMED
  BY HeightType, Zenon DEF IInv, TypeOK
<1>3. Sorted(height, transactions)
  BY Zenon DEF IInv, HeightSorted, Sorted
<1>4. Distinct(transactions) /\ \A t \in Listed : t \in allTx /\ ContainsTx(allTx, chain, t)
  BY Zenon DEF IInv, ListedOnceAndHeld, Distinct
<1>5. Listed = Elements(transactions)
  BY <1>1, Zenon DEF Listed, Elements
<1>6. Listed \subseteq Tx
  BY <1>4 DEF IInv, TypeOK
<1> QED
  BY <1>1, <1>2, <1>3, <1>4, <1>5, <1>6, Zenon

\* How the invariant of a new state is put together.
LEMMA ListBuild ==
    ASSUME TypeOK', Sorted(height', transactions'), Distinct(transactions'),
           \A t \in Elements(transactions') : t \in allTx' /\ ContainsTx(allTx', chain', t)
    PROVE  IInv'
<1>1. transactions' \in Seq(Tx) /\ DOMAIN transactions' = 1..Len(transactions')
  BY DEF TypeOK
<1>2. Listed' = Elements(transactions')
  BY <1>1, Zenon DEF Listed, Elements
<1>3. HeightSorted'
  BY Zenon DEF HeightSorted, Sorted
<1>4. ListedOnceAndHeld'
  BY <1>2, Zenon DEF ListedOnceAndHeld, Distinct
<1> QED
  BY <1>3, <1>4, Zenon DEF IInv

\* A step that leaves the list and the heights in it alone, and forgets nothing.
LEMMA KeepList ==
    ASSUME IInv, TypeOK', transactions' = transactions,
           \A t \in Listed : height'[t] = height[t],
           allTx \subseteq allTx', Grown(chain, chain')
    PROVE  IInv'
<1>1. /\ Sorted(height, transactions) /\ Distinct(transactions)
      /\ Listed = Elements(transactions)
      /\ Listed \subseteq Tx
      /\ \A t \in Listed : t \in allTx /\ ContainsTx(allTx, chain, t)
  BY ListFacts, Zenon
<1>2. Sorted(height', transactions')
  <2>1. \A i \in 1..Len(transactions) : height'[transactions[i]] = height[transactions[i]]
    BY <1>1, Zenon DEF Elements
  <2> QED
    BY <1>1, <2>1, SortedAgree, Zenon
<1>3. ASSUME NEW t \in Elements(transactions')
      PROVE  t \in allTx' /\ ContainsTx(allTx', chain', t)
  <2>1. t \in Tx /\ t \in allTx /\ t \in allTx' /\ ContainsTx(allTx, chain, t)
    BY <1>1, <1>3, Zenon
  <2>2. /\ allTx \in SUBSET Tx /\ allTx' \in SUBSET Tx
        /\ chain \in [Chains -> Nat] /\ chain' \in [Chains -> Nat]
    BY DEF IInv, TypeOK
  <2> QED
    BY <2>1, <2>2, ContainsMono, Zenon
<1> QED
  BY <1>1, <1>2, <1>3, ListBuild, Zenon

\* The chains stay.
LEMMA GrownSame ==
    ASSUME NEW a \in [Chains -> Nat]
    PROVE  Grown(a, a)
  BY DEF Grown

-----------------------------------------------------------------------------
(* One lemma per operation. *)

\* Addresses are only ever added.
LEMMA UnusedAddrsStep ==
    ASSUME IInv, NEW c \in Chains, NEW gap \in Gaps, BRWalletUnusedAddrs(c, gap)
    PROVE  IInv'
<1>1. PICK n \in chain[c]..MaxAddrs : chain' = [chain EXCEPT ![c] = n]
  BY DEF BRWalletUnusedAddrs
<1>2. chain \in [Chains -> Nat] /\ MaxAddrs \in Nat
  BY BoundAssumption DEF IInv, TypeOK
<1>3. chain' \in [Chains -> Nat] /\ Grown(chain, chain')
  BY <1>1, <1>2 DEF Grown
<1>4. UNCHANGED <<transactions, allTx, height, timestamp, blockHeight, clock, call>>
  BY DEF BRWalletUnusedAddrs
<1>5. TypeOK'
  BY <1>3, <1>4 DEF IInv, TypeOK
<1> QED
  BY <1>3, <1>4, <1>5, KeepList

\* A transaction enters the list where _BRWalletInsertTx puts it.
LEMMA AddTxStep ==
    ASSUME IInv, NEW t \in Tx, t \notin allTx, ContainsTx(allTx, chain, t), AddTx(t),
           height' = [height EXCEPT ![t] = TX_UNCONFIRMED],
           timestamp' = [timestamp EXCEPT ![t] = 0],
           UNCHANGED <<blockHeight, clock, call>>
    PROVE  IInv' /\ Elements(transactions') = Elements(transactions) \cup {t}
<1>1. PICK p \in 0..Len(transactions) :
          /\ InsertPoint(height', allTx', chain, transactions, t, p)
          /\ transactions' = InsertAt(transactions, p + 1, t)
  BY DEF AddTx
<1>2. /\ transactions \in Seq(Tx) /\ Sorted(height, transactions) /\ Distinct(transactions)
      /\ Listed = Elements(transactions) /\ Listed \subseteq Tx
      /\ \A u \in Listed : u \in allTx /\ ContainsTx(allTx, chain, u)
  BY ListFacts, Zenon
<1>3. height' \in [Tx -> Heights \cup {TX_UNCONFIRMED}] /\ height' \in [Tx -> Nat]
  <2>1. height' \in [Tx -> Heights \cup {TX_UNCONFIRMED}]
    BY DEF IInv, TypeOK
  <2> QED
    BY <2>1, HeightType, Zenon
<1>4. t \notin Elements(transactions)
  BY <1>2, Zenon
<1>5. Sorted(height', transactions)
  <2>1. ASSUME NEW i \in 1..Len(transactions)
        PROVE  height'[transactions[i]] = height[transactions[i]]
    <3>1. transactions[i] \in Tx /\ transactions[i] # t
      BY <1>2, <1>4 DEF Elements
    <3> QED
      BY <3>1 DEF IInv, TypeOK
  <2> QED
    BY <1>2, <2>1, SortedAgree, Zenon
<1>6. /\ transactions' \in Seq(Tx) /\ Sorted(height', transactions') /\ Distinct(transactions')
      /\ Elements(transactions') = Elements(transactions) \cup {t}
  <2>1. /\ height' \in [Tx -> Nat] /\ transactions \in Seq(Tx) /\ p \in 0..Len(transactions)
        /\ InsertPoint(height', allTx', chain, transactions, t, p)
        /\ Sorted(height', transactions) /\ Distinct(transactions)
        /\ t \notin Elements(transactions)
        /\ transactions' = InsertAt(transactions, p + 1, t)
    BY <1>1, <1>2, <1>3, <1>4, <1>5, Zenon
  <2>2. Inserted(height', transactions, t, transactions')
    BY <2>1, InsertTx, Zenon
  <2> QED
    BY <2>2, Zenon DEF Inserted
<1>7. chain' \in [Chains -> Nat] /\ Grown(chain, chain')
  <2>1. PICK e \in chain["external"]..MaxAddrs, i \in chain["internal"]..MaxAddrs :
            chain' = [chain EXCEPT !["external"] = e, !["internal"] = i]
    BY DEF AddTx
  <2>2. chain \in [Chains -> Nat] /\ MaxAddrs \in Nat
    BY BoundAssumption DEF IInv, TypeOK
  <2> QED
    BY <2>1, <2>2 DEF Grown, Chains
<1>8. allTx' = allTx \cup {t}
  BY DEF AddTx
<1>9. TypeOK'
  <2>1. allTx' \subseteq Tx
    BY <1>8 DEF IInv, TypeOK
  <2>2. timestamp' \in [Tx -> Stamps]
    BY StampAssumption DEF IInv, TypeOK
  <2> QED
    BY <1>3, <1>6, <1>7, <2>1, <2>2 DEF IInv, TypeOK
<1>10. ASSUME NEW u \in Elements(transactions')
       PROVE  u \in allTx' /\ ContainsTx(allTx', chain', u)
  <2>1. u \in Tx /\ u \in allTx' /\ ContainsTx(allTx, chain, u)
    BY <1>2, <1>6, <1>8, <1>10, Zenon
  <2>2. /\ allTx \in SUBSET Tx /\ allTx' \in SUBSET Tx /\ allTx \subseteq allTx'
        /\ chain \in [Chains -> Nat]
    BY <1>8 DEF IInv, TypeOK
  <2> QED
    BY <1>7, <2>1, <2>2, ContainsMono, Zenon
<1> QED
  BY <1>6, <1>9, <1>10, ListBuild, Zenon

\* BRWalletRegisterTransaction: known, the wallet's, or held for checks only.
LEMMA RegisterStep ==
    ASSUME IInv, NEW t \in Tx, BRWalletRegisterTransaction(t)
    PROVE  IInv'
<1>0. chain \in [Chains -> Nat] /\ Grown(chain, chain)
  <2>1. chain \in [Chains -> Nat]
    BY DEF IInv, TypeOK
  <2> QED
    BY <2>1, GrownSame, Zenon
<1>1. CASE t \in allTx
  <2>1. UNCHANGED <<transactions, allTx, height, timestamp, blockHeight, chain, clock, call>>
    BY <1>1 DEF BRWalletRegisterTransaction
  <2>2. TypeOK'
    BY <2>1 DEF IInv, TypeOK
  <2> QED
    BY <1>0, <2>1, <2>2, KeepList
<1>2. CASE t \notin allTx /\ ContainsTx(allTx, chain, t)
  <2>1. /\ AddTx(t) /\ height' = [height EXCEPT ![t] = TX_UNCONFIRMED]
        /\ timestamp' = [timestamp EXCEPT ![t] = 0]
        /\ UNCHANGED <<blockHeight, clock, call>>
    BY <1>2, Zenon DEF BRWalletRegisterTransaction
  <2> QED
    BY <1>2, <2>1, AddTxStep, Zenon
<1>3. CASE t \notin allTx /\ ~ContainsTx(allTx, chain, t)
  <2>1. /\ height' = [height EXCEPT ![t] = TX_UNCONFIRMED]
        /\ timestamp' = [timestamp EXCEPT ![t] = 0]
        /\ allTx' = allTx \cup {t}
        /\ UNCHANGED <<transactions, chain, blockHeight, clock, call>>
    BY <1>3, Zenon DEF BRWalletRegisterTransaction
  <2>2. TypeOK'
    BY <2>1, StampAssumption DEF IInv, TypeOK
  <2>3. \A u \in Listed : u \in allTx /\ u \in Tx
    BY ListFacts, Zenon
  <2>4. \A u \in Listed : height'[u] = height[u]
    BY <1>3, <2>1, <2>3 DEF IInv, TypeOK
  <2> QED
    BY <1>0, <2>1, <2>2, <2>4, KeepList
<1> QED
  BY <1>1, <1>2, <1>3, Zenon

\* BRWalletUpdateTransactions before its loop.
LEMMA UpdateStep ==
    ASSUME IInv, NEW s \in Seq(Tx), NEW h \in Heights \cup {TX_UNCONFIRMED}, NEW ts \in Stamps,
           BRWalletUpdateTransactions(s, h, ts)
    PROVE  IInv'
<1>1. UNCHANGED <<transactions, allTx, height, timestamp, chain, clock>>
  BY DEF BRWalletUpdateTransactions
<1>2. blockHeight' \in 0..MaxHeight \cup {TX_UNCONFIRMED}
  BY HeightAssumption DEF BRWalletUpdateTransactions, IInv, TypeOK, Heights
<1>3. call' \in [op : {"update"}, todo : Seq(Tx), height : Heights \cup {TX_UNCONFIRMED},
                 timestamp : Stamps, hashes : Seq(Tx), needsUpdate : BOOLEAN]
  BY DEF BRWalletUpdateTransactions
<1>4. TypeOK'
  BY <1>1, <1>2, <1>3 DEF IInv, TypeOK
<1>5. Grown(chain, chain')
  BY <1>1 DEF Grown, IInv, TypeOK
<1> QED
  BY <1>1, <1>4, <1>5, KeepList

\* Taking a transaction out of the list and inserting it again under its new height.
LEMMA ResortKeeps ==
    ASSUME IInv, NEW t \in Tx, NEW b \in Heights \cup {TX_UNCONFIRMED},
           height' = [height EXCEPT ![t] = b], Resort(t)
    PROVE  /\ transactions' \in Seq(Tx)
           /\ Sorted(height', transactions')
           /\ Distinct(transactions')
           /\ Elements(transactions') = Elements(transactions)
<1>1. /\ transactions \in Seq(Tx) /\ Sorted(height, transactions) /\ Distinct(transactions)
      /\ Listed = Elements(transactions) /\ height \in [Tx -> Nat]
  BY ListFacts, Zenon
<1>2. height' \in [Tx -> Nat] /\ \A u \in Tx : u # t => height'[u] = height[u]
  <2>1. height' \in [Tx -> Heights \cup {TX_UNCONFIRMED}]
    BY DEF IInv, TypeOK
  <2>2. height' \in [Tx -> Nat]
    BY <2>1, HeightType, Zenon
  <2> QED
    BY <1>1, <2>2
<1>3. ASSUME NEW r \in Seq(Tx), Sorted(height, r), t \notin Elements(r)
      PROVE  Sorted(height', r)
  <2>1. ASSUME NEW i \in 1..Len(r)
        PROVE  height'[r[i]] = height[r[i]]
    <3>1. r[i] \in Tx /\ r[i] # t
      BY <1>3 DEF Elements
    <3> QED
      BY <1>2, <3>1
  <2> QED
    BY <1>3, <2>1, SortedAgree, Zenon
<1>4. CASE t \notin Listed
  <2>1. transactions' = transactions
    BY <1>4 DEF Resort
  <2> QED
    BY <1>1, <1>3, <1>4, <2>1, Zenon
<1>5. CASE t \in Listed
  <2> DEFINE rest(k) == RemoveAt(transactions, k)
  <2>1. PICK k \in DOMAIN transactions, p \in 0..(Len(transactions) - 1) :
            /\ transactions[k] = t
            /\ InsertPoint(height', allTx, chain, rest(k), t, p)
            /\ transactions' = InsertAt(rest(k), p + 1, t)
    BY <1>5 DEF Resort
  <2>2. k \in 1..Len(transactions)
    BY <1>1
  <2>3. /\ rest(k) \in Seq(Tx)
        /\ Len(rest(k)) = Len(transactions) - 1
        /\ Distinct(rest(k))
        /\ Sorted(height, rest(k))
        /\ Elements(rest(k)) = Elements(transactions) \ {transactions[k]}
    <3>1. Removed(Tx, height, transactions, k, rest(k))
      BY <1>1, <2>2, RemoveKeeps, Zenon
    <3> HIDE DEF rest
    <3> QED
      BY <1>1, <3>1, Zenon DEF Removed
  <2> HIDE DEF rest
  <2>4. t \notin Elements(rest(k)) /\ p \in 0..Len(rest(k))
    BY <2>1, <2>3
  <2>5. Sorted(height', rest(k))
    BY <1>3, <2>3, <2>4, Zenon
  <2>6. Inserted(height', rest(k), t, transactions')
    BY <1>2, <2>1, <2>3, <2>4, <2>5, InsertTx, Zenon
  <2>7. Elements(rest(k)) \cup {t} = Elements(transactions)
    BY <1>1, <1>5, <2>1, <2>3
  <2> QED
    BY <2>6, <2>7, Zenon DEF Inserted
<1> QED
  BY <1>4, <1>5

\* One iteration of the loop of BRWalletUpdateTransactions.
LEMMA UpdateOneStep ==
    ASSUME IInv, UpdateOne
    PROVE  IInv'
<1> DEFINE t == Head(call.todo)
           after == [call EXCEPT !.todo = Tail(@)]
           CallType == [op : {"update"}, todo : Seq(Tx), height : Heights \cup {TX_UNCONFIRMED},
                        timestamp : Stamps, hashes : Seq(Tx), needsUpdate : BOOLEAN]
<1>1. call \in CallType /\ call.todo # <<>>
  BY DEF UpdateOne, IInv, TypeOK, NoCall
<1>2. t \in Tx /\ after \in CallType
  <2>1. call.todo \in Seq(Tx)
    BY <1>1
  <2>2. Head(call.todo) \in Tx /\ Tail(call.todo) \in Seq(Tx)
    BY <1>1, <2>1
  <2> QED
    BY <1>1, <2>2
<1>3. UNCHANGED <<blockHeight, chain, clock>>
  BY DEF UpdateOne
<1>4. chain \in [Chains -> Nat] /\ Grown(chain, chain') /\ chain' = chain
  <2>1. chain \in [Chains -> Nat]
    BY DEF IInv, TypeOK
  <2> QED
    BY <1>3, <2>1, GrownSame, Zenon
<1>5. /\ Listed = Elements(transactions) /\ Listed \subseteq Tx
      /\ \A u \in Listed : u \in allTx /\ ContainsTx(allTx, chain, u)
  BY ListFacts, Zenon
<1>6. CASE /\ call' = after
           /\ UNCHANGED <<transactions, allTx, height, timestamp>>
  <2>1. TypeOK'
    BY <1>2, <1>3, <1>6 DEF IInv, TypeOK
  <2> QED
    BY <1>4, <1>6, <2>1, KeepList
<1>7. CASE /\ ContainsTx(allTx, chain, t)
           /\ height' = [height EXCEPT ![t] = call.height]
           /\ timestamp' = [timestamp EXCEPT ![t] = call.timestamp]
           /\ Resort(t)
           /\ call' = [after EXCEPT !.hashes = Append(@, t),
                                    !.needsUpdate = @ \/ NeedsUpdate(t)]
           /\ UNCHANGED allTx
  <2>1. call.height \in Heights \cup {TX_UNCONFIRMED} /\ call.timestamp \in Stamps
    BY <1>1
  <2>2. /\ transactions' \in Seq(Tx) /\ Sorted(height', transactions')
        /\ Distinct(transactions') /\ Elements(transactions') = Elements(transactions)
    BY <1>2, <1>7, <2>1, ResortKeeps
  <2>3. call' \in CallType
    <3>1. after.hashes \in Seq(Tx) /\ after.needsUpdate \in BOOLEAN
      BY <1>2
    <3>2. /\ Append(after.hashes, t) \in Seq(Tx)
          /\ (after.needsUpdate \/ NeedsUpdate(t)) \in BOOLEAN
      BY <1>2, <3>1
    <3> HIDE DEF after, t
    <3> QED
      BY <1>2, <1>7, <3>2
  <2>4. height' \in [Tx -> Heights \cup {TX_UNCONFIRMED}] /\ timestamp' \in [Tx -> Stamps]
    BY <1>7, <2>1 DEF IInv, TypeOK
  <2>5. TypeOK'
    BY <1>3, <1>7, <2>2, <2>3, <2>4 DEF IInv, TypeOK
  <2> QED
    BY <1>4, <1>5, <1>7, <2>2, <2>5, ListBuild, Zenon
<1>8. CASE /\ ~ContainsTx(allTx, chain, t)
           /\ allTx' = allTx \ {t}
           /\ call' = after
           /\ UNCHANGED <<transactions, height, timestamp>>
  <2>1. TypeOK'
    BY <1>2, <1>3, <1>8 DEF IInv, TypeOK
  <2>2. ASSUME NEW u \in Elements(transactions')
        PROVE  u \in allTx' /\ ContainsTx(allTx', chain', u)
    <3>1. u \in allTx /\ ContainsTx(allTx, chain, u)
      BY <1>5, <1>8, <2>2
    <3>2. u # t /\ ContainsTx(allTx \ {t}, chain, u)
      BY <1>8, <3>1, ContainsAfterFree, Zenon
    <3> QED
      BY <1>4, <1>8, <3>1, <3>2
  <2>3. Sorted(height', transactions') /\ Distinct(transactions')
    BY <1>8, ListFacts
  <2> QED
    BY <2>1, <2>2, <2>3, ListBuild, Zenon
<1>9. CASE /\ ~ContainsTx(allTx, chain, t)
           /\ height' = [height EXCEPT ![t] = call.height]
           /\ timestamp' = [timestamp EXCEPT ![t] = call.timestamp]
           /\ call' = after
           /\ UNCHANGED <<transactions, allTx>>
  <2>1. call.height \in Heights \cup {TX_UNCONFIRMED} /\ call.timestamp \in Stamps
    BY <1>1
  <2>2. height' \in [Tx -> Heights \cup {TX_UNCONFIRMED}] /\ timestamp' \in [Tx -> Stamps]
    BY <1>9, <2>1 DEF IInv, TypeOK
  <2>3. TypeOK'
    BY <1>2, <1>3, <1>9, <2>2 DEF IInv, TypeOK
  <2>4. ASSUME NEW u \in Listed
        PROVE  height'[u] = height[u]
    <3>1. u \in Tx /\ u # t
      BY <1>5, <1>9, Zenon
    <3> QED
      BY <1>9, <3>1 DEF IInv, TypeOK
  <2> QED
    BY <1>4, <1>9, <2>3, <2>4, KeepList
<1> QED
  <2> HIDE DEF CallType
  <2> QED
    BY <1>6, <1>7, <1>8, <1>9, Zenon DEF UpdateOne

\* BRWalletUpdateTransactions after its loop.
LEMMA UpdateDoneStep ==
    ASSUME IInv, UpdateDone
    PROVE  IInv'
<1>1. UNCHANGED <<transactions, allTx, height, timestamp, blockHeight, chain, clock>>
      /\ call' = NoCall
  BY DEF UpdateDone
<1>2. TypeOK'
  BY <1>1 DEF IInv, TypeOK, NoCall
<1>3. Grown(chain, chain')
  BY <1>1 DEF Grown, IInv, TypeOK
<1> QED
  BY <1>1, <1>2, <1>3, KeepList

\* A suffix of the list becomes unconfirmed: nothing sorts after it.
LEMMA SetUnconfirmedStep ==
    ASSUME IInv, NEW h \in 0..MaxHeight, BRWalletSetTxUnconfirmedAfter(h)
    PROVE  IInv'
<1>1. PICK i \in 0..Len(transactions) : height' = UnconfirmedFrom(i)
  BY DEF BRWalletSetTxUnconfirmedAfter
<1>2. /\ blockHeight' = h
      /\ UNCHANGED <<transactions, allTx, timestamp, chain, clock, call>>
  BY DEF BRWalletSetTxUnconfirmedAfter
<1>3. /\ transactions \in Seq(Tx) /\ Sorted(height, transactions) /\ Distinct(transactions)
      /\ Listed = Elements(transactions)
      /\ \A t \in Listed : t \in allTx /\ ContainsTx(allTx, chain, t)
  BY ListFacts, Zenon
<1>4. height' \in [Tx -> Heights \cup {TX_UNCONFIRMED}]
  BY <1>1 DEF IInv, TypeOK, UnconfirmedFrom
<1>5. height' \in [Tx -> Nat] /\ \A t \in Tx : height'[t] <= TX_UNCONFIRMED
  BY <1>4, HeightType, Zenon
<1>6. ASSUME NEW a \in 1..Len(transactions)
      PROVE  /\ transactions[a] \in Tx
             /\ a > i => height'[transactions[a]] = TX_UNCONFIRMED
             /\ a <= i => height'[transactions[a]] = height[transactions[a]]
  <2>1. transactions[a] \in Tx
    BY <1>3
  <2>2. a \in Nat /\ i \in Nat /\ Len(transactions) \in Nat /\ a <= Len(transactions)
    BY <1>3
  <2>3. ASSUME a > i
        PROVE  height'[transactions[a]] = TX_UNCONFIRMED
    <3>1. a \in (i + 1)..Len(transactions)
      BY <2>2, <2>3
    <3> QED
      BY <1>1, <2>1, <3>1, Zenon DEF UnconfirmedFrom
  <2>4. ASSUME a <= i
        PROVE  height'[transactions[a]] = height[transactions[a]]
    <3>1. ASSUME NEW j \in (i + 1)..Len(transactions)
          PROVE  transactions[j] # transactions[a]
      <4>1. j \in 1..Len(transactions) /\ j # a
        BY <2>2, <2>4
      <4> QED
        BY <1>3, <4>1, Zenon DEF Distinct
    <3> QED
      BY <1>1, <2>1, <3>1, Zenon DEF UnconfirmedFrom
  <2> QED
    BY <2>1, <2>3, <2>4
<1>7. ASSUME NEW a \in 1..Len(transactions), NEW b \in 1..Len(transactions), a <= b
      PROVE  height'[transactions[a]] <= height'[transactions[b]]
  <2>0. a \in Nat /\ b \in Nat /\ i \in Nat
    BY <1>3
  <2>1. CASE b <= i
    <3>1. height[transactions[a]] <= height[transactions[b]]
      BY <1>3, <1>7, Zenon DEF Sorted
    <3>2. a <= i
      BY <1>7, <2>0, <2>1
    <3> QED
      BY <1>6, <2>1, <3>1, <3>2, Zenon
  <2>2. CASE b > i
    BY <1>5, <1>6, <2>2, Zenon
  <2> QED
    BY <2>0, <2>1, <2>2
<1>8. Sorted(height', transactions')
  BY <1>2, <1>7, Zenon DEF Sorted
<1>9. TypeOK'
  <2>1. blockHeight' \in 0..MaxHeight \cup {TX_UNCONFIRMED}
    BY <1>2
  <2> QED
    BY <1>2, <1>4, <2>1 DEF IInv, TypeOK
<1> QED
  BY <1>2, <1>3, <1>8, <1>9, ListBuild, Zenon

\* BRWalletRemoveTransaction as it is entered and left.
LEMMA RemoveStep ==
    ASSUME IInv, NEW t, BRWalletRemoveTransaction(t) \/ RemoveDone
    PROVE  IInv'
<1>1. UNCHANGED <<transactions, allTx, height, timestamp, blockHeight, chain, clock>>
  BY DEF BRWalletRemoveTransaction, RemoveDone
<1>2. call' = NoCall \/ call' = [op |-> "remove", stack |-> <<t>>]
  BY DEF BRWalletRemoveTransaction, RemoveDone
<1>3. TypeOK'
  BY <1>1, <1>2 DEF IInv, TypeOK
<1>4. Grown(chain, chain')
  BY <1>1 DEF Grown, IInv, TypeOK
<1> QED
  BY <1>1, <1>3, <1>4, KeepList

\* What DropTx does to the list.
LEMMA DropTxKeeps ==
    ASSUME IInv, NEW t, DropTx(t)
    PROVE  /\ transactions' \in Seq(Tx)
           /\ Sorted(height, transactions')
           /\ Distinct(transactions')
           /\ Elements(transactions') = Elements(transactions) \ {t}
<1>1. /\ transactions \in Seq(Tx) /\ Sorted(height, transactions) /\ Distinct(transactions)
      /\ Listed = Elements(transactions) /\ height \in [Tx -> Nat]
  BY ListFacts, Zenon
<1>2. CASE t \notin Listed /\ UNCHANGED transactions
  BY <1>1, <1>2
<1>3. CASE \E k \in DOMAIN transactions :
              transactions[k] = t /\ transactions' = RemoveAt(transactions, k)
  <2>1. PICK k \in DOMAIN transactions :
              transactions[k] = t /\ transactions' = RemoveAt(transactions, k)
    BY <1>3
  <2>2. k \in 1..Len(transactions)
    BY <1>1
  <2>3. Removed(Tx, height, transactions, k, transactions')
    BY <1>1, <2>1, <2>2, RemoveKeeps, Zenon
  <2> QED
    BY <1>1, <2>1, <2>3, Zenon DEF Removed
<1> QED
  BY <1>2, <1>3, Zenon DEF DropTx

\* One activation of BRWalletRemoveTransaction.
LEMMA RemoveOneStep ==
    ASSUME IInv, RemoveOne
    PROVE  IInv'
<1> DEFINE t == Head(call.stack)
<1>1. UNCHANGED <<allTx, height, timestamp, blockHeight, chain, clock>>
  BY DEF RemoveOne
<1>2. call = [op |-> "remove", stack |-> call.stack]
  BY DEF RemoveOne, IInv, TypeOK, NoCall
<1>3. call' = [op |-> "remove", stack |-> call'.stack]
  <2>1. PICK x : call' = [call EXCEPT !.stack = x]
    BY DEF RemoveOne
  <2> QED
    BY <1>2, <2>1
<1>4. Grown(chain, chain') /\ chain' = chain
  BY <1>1 DEF Grown, IInv, TypeOK
<1>5. CASE UNCHANGED transactions
  <2>1. TypeOK'
    BY <1>1, <1>3, <1>5 DEF IInv, TypeOK
  <2> QED
    BY <1>1, <1>4, <1>5, <2>1, KeepList
<1>6. CASE DropTx(t)
  <2>1. /\ transactions' \in Seq(Tx) /\ Sorted(height, transactions')
        /\ Distinct(transactions') /\ Elements(transactions') = Elements(transactions) \ {t}
    BY <1>6, DropTxKeeps
  <2>2. TypeOK'
    BY <1>1, <1>3, <2>1 DEF IInv, TypeOK
  <2>3. ASSUME NEW u \in Elements(transactions')
        PROVE  u \in allTx' /\ ContainsTx(allTx', chain', u)
    <3>1. u \in Listed
      BY <2>1, <2>3, ListFacts
    <3>2. u \in allTx /\ ContainsTx(allTx, chain, u)
      BY <3>1, ListFacts, Zenon
    <3> QED
      BY <1>1, <1>4, <3>2
  <2>4. Sorted(height', transactions')
    BY <1>1, <2>1
  <2> QED
    BY <2>1, <2>2, <2>3, <2>4, ListBuild, Zenon
<1> QED
  BY <1>5, <1>6, Zenon DEF RemoveOne

\* What the peer manager passes to BRWalletUpdateTransactions.
LEMMA BatchType ==
    ASSUME NEW s \in Batches
    PROVE  s \in Seq(Tx)
<1>1. PICK m \in 0..MaxBatch : s \in [1..m -> Tx]
  BY DEF Batches, BoundedSeq, SeqOf
<1>2. m \in Nat
  BY BoundAssumption
<1> QED
  BY <1>1, <1>2

-----------------------------------------------------------------------------
(* The theorems. *)

\* The invariant is inductive.
LEMMA IInvInductive ==
    ASSUME IInv, [Next]_vars
    PROVE  IInv'
<1>1. CASE \E t \in Tx : BRWalletRegisterTransaction(t)
  BY <1>1, RegisterStep, Zenon
<1>2. CASE \E c \in Chains, gap \in Gaps : BRWalletUnusedAddrs(c, gap)
  BY <1>2, UnusedAddrsStep, Zenon
<1>3. CASE NewBlock
  <2>1. PICK s \in Batches, h \in Heights, ts \in Stamps : BRWalletUpdateTransactions(s, h, ts)
    BY <1>3 DEF NewBlock
  <2>2. s \in Seq(Tx)
    BY BatchType, Zenon
  <2>3. h \in Heights \cup {TX_UNCONFIRMED}
    OBVIOUS
  <2> QED
    BY <2>1, <2>2, <2>3, UpdateStep, Zenon
<1>4. CASE MarkUnconfirmed
  <2>1. PICK t \in allTx, ts \in Stamps :
            BRWalletUpdateTransactions(<<t>>, TX_UNCONFIRMED, ts)
    BY <1>4 DEF MarkUnconfirmed
  <2>2. <<t>> \in Seq(Tx) /\ TX_UNCONFIRMED \in Heights \cup {TX_UNCONFIRMED}
    BY DEF IInv, TypeOK
  <2> QED
    BY <2>1, <2>2, UpdateStep, Zenon
<1>5. CASE UpdateOne
  BY <1>5, UpdateOneStep
<1>6. CASE UpdateDone
  BY <1>6, UpdateDoneStep
<1>7. CASE \E h \in 0..MaxHeight : BRWalletSetTxUnconfirmedAfter(h)
  BY <1>7, SetUnconfirmedStep, Zenon
<1>8. CASE DropUnrelayed
  BY <1>8, RemoveStep, Zenon DEF DropUnrelayed
<1>9. CASE RemoveOne
  BY <1>9, RemoveOneStep
<1>10. CASE RemoveDone
  BY <1>10, RemoveStep, Zenon
<1>11. CASE Tick
  <2>1. TypeOK'
    BY <1>11, BoundAssumption DEF Tick, IInv, TypeOK
  <2>2. /\ UNCHANGED <<transactions, allTx, height>>
        /\ Grown(chain, chain')
    BY <1>11 DEF Tick, Grown, IInv, TypeOK
  <2> QED
    BY <2>1, <2>2, KeepList
<1>12. CASE UNCHANGED vars
  <2>1. TypeOK'
    BY <1>12 DEF vars, IInv, TypeOK
  <2>2. /\ UNCHANGED <<transactions, allTx, height>>
        /\ Grown(chain, chain')
    BY <1>12 DEF vars, Grown, IInv, TypeOK
  <2> QED
    BY <2>1, <2>2, KeepList
<1> QED
  BY <1>1, <1>2, <1>3, <1>4, <1>5, <1>6, <1>7, <1>8, <1>9, <1>10, <1>11, <1>12, Zenon DEF Next

\* BRWalletNew makes an empty list.
LEMMA IInvInit ==
    ASSUME Init
    PROVE  IInv
<1>1. transactions = <<>> /\ Len(transactions) = 0 /\ Listed = {}
  BY DEF Init, Listed
<1>2. TypeOK
  BY HeightAssumption, GapAssumption, BoundAssumption, StampAssumption DEF Init, TypeOK
<1>3. HeightSorted /\ ListedOnceAndHeld
  BY <1>1 DEF HeightSorted, ListedOnceAndHeld
<1> QED
  BY <1>2, <1>3 DEF IInv

LEMMA IInvHolds ==
    Spec => []IInv
<1>1. Init => IInv
  BY IInvInit
<1>2. IInv /\ [Next]_vars => IInv'
  BY IInvInductive
<1> QED
  BY <1>1, <1>2, PTL DEF Spec

\* Every variable of the wallet keeps its type, whatever the transactions, the heights and
\* the gap limits are.
THEOREM TypeCorrect ==
    Spec => []TypeOK
<1>1. IInv => TypeOK
  BY DEF IInv
<1> QED
  BY <1>1, IInvHolds, PTL

\* wallet->transactions is sorted by height after every registration, confirmation,
\* reorganisation and removal.
THEOREM ListSorted ==
    Spec => []HeightSorted
<1>1. IInv => HeightSorted
  BY DEF IInv
<1> QED
  BY <1>1, IInvHolds, PTL

\* No transaction is listed twice, and BRWalletUpdateTransactions never frees a listed one.
THEOREM ListHeld ==
    Spec => []ListedOnceAndHeld
<1>1. IInv => ListedOnceAndHeld
  BY DEF IInv
<1> QED
  BY <1>1, IInvHolds, PTL

\* The scan of BRWalletTxUnconfirmedBefore, which stops at the first older transaction,
\* returns every transaction that was unconfirmed before the given height.
THEOREM ScanComplete ==
    Spec => []UnconfirmedBeforeComplete
<1>1. ASSUME IInv
      PROVE  UnconfirmedBeforeComplete
  <2> SUFFICES ASSUME NEW h \in Heights \cup {TX_UNCONFIRMED}
               PROVE  TxUnconfirmedBefore(h) = {t \in Listed : height[t] >= h}
    BY Zenon DEF UnconfirmedBeforeComplete
  <2>1. /\ transactions \in Seq(Tx) /\ height \in [Tx -> Nat]
        /\ Sorted(height, transactions)
    BY <1>1, ListFacts, Zenon
  <2>2. DOMAIN transactions = 1..Len(transactions) /\ Len(transactions) \in Nat
    BY <2>1
  <2>3. h \in Nat
    BY HeightAssumption DEF Heights
  <2>4. ASSUME NEW k \in 1..Len(transactions), height[transactions[k]] >= h,
               NEW m \in k..Len(transactions)
        PROVE  height[transactions[m]] >= h
    <3>1. m \in 1..Len(transactions) /\ k <= m
      BY <2>2
    <3>2. height[transactions[k]] <= height[transactions[m]]
      BY <2>1, <3>1, Zenon DEF Sorted
    <3>3. height[transactions[k]] \in Nat /\ height[transactions[m]] \in Nat
      BY <2>1, <3>1
    <3> QED
      BY <2>3, <2>4, <3>2, <3>3
  <2>5. \A k \in 1..Len(transactions) : k \in k..Len(transactions)
    BY <2>2
  <2>6. ASSUME NEW t \in TxUnconfirmedBefore(h)
        PROVE  t \in Listed /\ height[t] >= h
    BY <2>2, <2>5, <2>6, Zenon DEF TxUnconfirmedBefore, Listed
  <2>7. ASSUME NEW t \in Listed, height[t] >= h
        PROVE  t \in TxUnconfirmedBefore(h)
    <3>1. PICK k \in DOMAIN transactions : transactions[k] = t
      BY Zenon DEF Listed
    <3>2. \A m \in k..Len(transactions) : height[transactions[m]] >= h
      BY <2>2, <2>4, <2>7, <3>1, Zenon
    <3> QED
      BY <3>1, <3>2, Zenon DEF TxUnconfirmedBefore
  <2> QED
    BY <2>6, <2>7, Zenon
<1> QED
  BY <1>1, IInvHolds, PTL

\* Only BRWalletRemoveTransaction takes a transaction off the list.
LEMMA OnlyRemoveShrinks ==
    ASSUME IInv, [Next]_vars, ~RemoveOne
    PROVE  Listed \subseteq Listed'
<1>0. /\ transactions \in Seq(Tx)
      /\ Listed = Elements(transactions)
  BY ListFacts, Zenon
<1>1. CASE transactions' = transactions
  BY <1>1 DEF Listed
<1>2. CASE UpdateOne /\ transactions' # transactions
  <2> DEFINE t == Head(call.todo)
  <2>1. height' = [height EXCEPT ![t] = call.height] /\ Resort(t)
    BY <1>2, Zenon DEF UpdateOne
  <2>2. call.height \in Heights \cup {TX_UNCONFIRMED} /\ call.todo \in Seq(Tx) /\ call.todo # <<>>
    BY <1>2 DEF UpdateOne, IInv, TypeOK, NoCall
  <2>3. t \in Tx
    BY <2>2
  <2> HIDE DEF t
  <2>4. Elements(transactions') = Elements(transactions)
    BY <2>1, <2>2, <2>3, ResortKeeps, Zenon
  <2>5. transactions' \in Seq(Tx)
    BY <2>1, <2>2, <2>3, ResortKeeps, Zenon
  <2>6. Listed' = Elements(transactions')
    BY <2>5 DEF Listed, Elements
  <2> QED
    BY <1>0, <2>4, <2>6, Zenon
<1>3. CASE \E t \in Tx : BRWalletRegisterTransaction(t) /\ transactions' # transactions
  <2>1. PICK t \in Tx : BRWalletRegisterTransaction(t) /\ transactions' # transactions
    BY <1>3
  <2>2. /\ t \notin allTx /\ ContainsTx(allTx, chain, t) /\ AddTx(t)
        /\ height' = [height EXCEPT ![t] = TX_UNCONFIRMED]
        /\ timestamp' = [timestamp EXCEPT ![t] = 0]
        /\ UNCHANGED <<blockHeight, clock, call>>
    BY <2>1, Zenon DEF BRWalletRegisterTransaction
  <2>3. transactions' \in Seq(Tx) /\ Elements(transactions') = Elements(transactions) \cup {t}
    BY <2>2, AddTxStep, Zenon DEF IInv, TypeOK
  <2>4. Listed' = Elements(transactions')
    BY <2>3 DEF Listed, Elements
  <2> QED
    BY <1>0, <2>3, <2>4, Zenon
<1> QED
  <2>1. CASE UNCHANGED vars
    BY <1>1, <2>1 DEF vars
  <2>2. ASSUME NEW t \in Tx, BRWalletRegisterTransaction(t)
        PROVE  Listed \subseteq Listed'
    BY <1>1, <1>3, <2>2, Zenon
  <2>3. CASE UpdateOne
    BY <1>1, <1>2, <2>3
  <2>4. CASE \E c \in Chains, gap \in Gaps : BRWalletUnusedAddrs(c, gap)
    BY <1>1, <2>4 DEF BRWalletUnusedAddrs
  <2>5. CASE \E h \in 0..MaxHeight : BRWalletSetTxUnconfirmedAfter(h)
    BY <1>1, <2>5 DEF BRWalletSetTxUnconfirmedAfter
  <2>6. CASE NewBlock \/ MarkUnconfirmed
    BY <1>1, <2>6 DEF NewBlock, MarkUnconfirmed, BRWalletUpdateTransactions
  <2>7. CASE UpdateDone \/ DropUnrelayed \/ RemoveDone \/ Tick
    BY <1>1, <2>7 DEF UpdateDone, DropUnrelayed, BRWalletRemoveTransaction, RemoveDone, Tick
  <2> QED
    BY <2>1, <2>2, <2>3, <2>4, <2>5, <2>6, <2>7, Zenon DEF Next

\* BRWalletRemoveTransaction never drops a transaction whose unconfirmed spender stays, because
\* the scan for dependents runs over a sorted list.
THEOREM DependentsRemoved ==
    Spec => NoDependentLeftBehind
<1> DEFINE Taken == \A t \in Listed \ Listed' : \A u \in Listed' :
                       height[u] = TX_UNCONFIRMED => ~Spends(u, t)
<1>1. ASSUME IInv, [Next]_vars
      PROVE  Taken
  <2>1. CASE ~RemoveOne
    BY <1>1, <2>1, OnlyRemoveShrinks
  <2>2. CASE RemoveOne
    <3> SUFFICES ASSUME NEW t \in Listed, t \notin Listed', NEW u \in Listed',
                        height[u] = TX_UNCONFIRMED, Spends(u, t)
                 PROVE  FALSE
      BY Zenon
    <3> DEFINE x == Head(call.stack)
    <3>1. transactions' # transactions
      BY DEF Listed
    <3>2. DropTx(x) /\ Dependents(x) = {}
      BY <2>2, <3>1, Zenon DEF RemoveOne
    <3> HIDE DEF x
    <3>3. /\ transactions \in Seq(Tx) /\ height \in [Tx -> Nat] /\ Sorted(height, transactions)
          /\ Listed = Elements(transactions) /\ Listed \subseteq Tx
          /\ \A v \in Tx : height[v] <= TX_UNCONFIRMED
      BY <1>1, ListFacts, Zenon
    <3>4. transactions' \in Seq(Tx) /\ Elements(transactions') = Elements(transactions) \ {x}
      BY <1>1, <3>2, DropTxKeeps, Zenon
    <3>5. Listed' = Listed \ {x}
      <4>1. Listed' = Elements(transactions')
        BY <3>4 DEF Listed, Elements
      <4> QED
        BY <3>3, <3>4, <4>1, Zenon
    <3>6. t = x /\ u \in Listed /\ u # t
      BY <3>5, Zenon
    <3>7. PICK k \in DOMAIN transactions : transactions[k] = u
      BY <3>6, Zenon DEF Listed
    <3>8. ASSUME NEW m \in k..Len(transactions)
          PROVE  height[transactions[m]] >= height[t]
      <4>1. k \in 1..Len(transactions) /\ m \in 1..Len(transactions) /\ k <= m
        BY <3>3
      <4>2. height[u] <= height[transactions[m]]
        BY <3>3, <3>7, <4>1, Zenon DEF Sorted
      <4>3. height[t] <= TX_UNCONFIRMED /\ height[t] \in Nat /\ height[transactions[m]] \in Nat
        BY <3>3, <4>1
      <4> QED
        BY <4>2, <4>3, HeightAssumption
    <3>9. u \in Dependents(t)
      BY <3>6, <3>7, <3>8, Zenon DEF Dependents
    <3> QED
      BY <3>2, <3>6, <3>9, Zenon
  <2> QED
    BY <2>1, <2>2
<1>2. IInv /\ [Next]_vars => [Taken]_vars
  BY <1>1
<1> QED
  BY <1>2, IInvHolds, PTL DEF Spec, NoDependentLeftBehind

=============================================================================
