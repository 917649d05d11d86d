------------------------ MODULE BRWalletLedgerProofs ------------------------
(***************************************************************************)
(* What _BRWalletUpdateBalance computes is right for any list: the balance *)
(* is the sum of the unspent outputs, none of which a transaction in good  *)
(* standing spends, and double spends are known.  By induction over the    *)
(* list for one pass, then along the operations for the ledger in use,     *)
(* which BRWalletUpdateTransactions recomputes only if it has to.          *)
(***************************************************************************)
EXTENDS BRWalletProofs, FiniteSetTheorems

-----------------------------------------------------------------------------
(* Induction, for sets of numbers. *)

\* A set of numbers has a least one.
LEMMA LeastNat ==
    ASSUME NEW T, T \subseteq Nat, T # {}
    PROVE  \E n \in T : \A m \in T : n <= m
<1> DEFINE R == OpToRel(<, Nat)
<1>1. \A x, y \in Nat : x < y => <<x, y>> \in R
  BY DEF OpToRel
<1>2. IsWellFoundedOn(R, Nat)
  BY NatLessThanWellFounded
<1> HIDE DEF R
<1>3. PICK x \in T : \A y \in T : ~ (<<y, x>> \in R)
  BY <1>2, WFMin
<1>4. \A y \in T : ~ (y < x)
  BY <1>1, <1>3
<1>5. \A y \in T : x <= y
  BY <1>4
<1> QED BY <1>3, <1>5

\* What holds 0 and, with a number, the next one holds all of them.
LEMMA NatSetInduction ==
    ASSUME NEW S, 0 \in S, \A n \in Nat : n \in S => n + 1 \in S
    PROVE  Nat \subseteq S
<1> SUFFICES ASSUME Nat \ S # {} PROVE FALSE OBVIOUS
<1>1. PICK n \in Nat \ S : \A m \in Nat \ S : n <= m
  BY LeastNat
<1>2. n # 0 /\ n - 1 \in Nat
  OBVIOUS
<1>3. n - 1 \in S
  BY <1>1, <1>2
<1> QED BY <1>1, <1>2, <1>3

\* A finite set without one of its elements.
LEMMA SmallerSet ==
    ASSUME NEW S, IsFiniteSet(S), NEW x \in S
    PROVE  /\ IsFiniteSet(S \ {x})
           /\ Cardinality(S) \in Nat \ {0}
           /\ Cardinality(S \ {x}) = Cardinality(S) - 1
  BY FS_RemoveElement, FS_CardinalityType, FS_EmptySet

-----------------------------------------------------------------------------
(* Total: the community module's fold, unfolded. *)

\* The element that the fold takes first.
Chosen(S) == CHOOSE x \in S : TRUE

\* A function on the subsets of S that satisfies the recursion of MapThenFoldSet.
Sums(S, D, F) ==
    F = [s \in D |-> IF s = {} THEN 0 ELSE Amount(Chosen(s)) + F[s \ {Chosen(s)}]]

\* Total is such a function, if there is one.
LEMMA TotalIs ==
    ASSUME NEW S, NEW G, Sums(S, SUBSET S, G)
    PROVE  \E F : Sums(S, SUBSET S, F) /\ Total(S) = F[S]
<1> DEFINE F == CHOOSE f : f = [s \in SUBSET S |-> IF s = {} THEN 0 ELSE Amount(Chosen(s)) + f[s \ {Chosen(s)}]]
<1>1. F = [s \in SUBSET S |-> IF s = {} THEN 0 ELSE Amount(Chosen(s)) + F[s \ {Chosen(s)}]]
  BY DEF Sums
<1>2. Total(S) = F[S]
  BY DEF Total, MapThenSumSet, MapThenFoldSet, Chosen
<1> HIDE DEF F
<1> QED BY <1>1, <1>2 DEF Sums

\* What the recursion says of one set.
LEMMA SumsAt ==
    ASSUME NEW S, NEW D, NEW F, Sums(S, D, F), NEW s \in D
    PROVE  F[s] = IF s = {} THEN 0 ELSE Amount(Chosen(s)) + F[s \ {Chosen(s)}]
  BY DEF Sums

\* Such a function exists, subsets of at most k elements first.
LEMMA SumsExist ==
    ASSUME NEW S, IsFiniteSet(S)
    PROVE  \E F : Sums(S, SUBSET S, F)
<1> DEFINE Upto(k) == {s \in SUBSET S : Cardinality(s) <= k}
           K == {k \in Nat : \E F : Sums(S, Upto(k), F)}
<1>1. \A s \in SUBSET S : IsFiniteSet(s) /\ Cardinality(s) \in Nat /\ Cardinality(s) <= Cardinality(S)
  BY FS_Subset, FS_CardinalityType
<1>2. \A s \in SUBSET S : s # {} => Chosen(s) \in s
  BY DEF Chosen
<1>3. \A s \in SUBSET S : s # {} =>
         /\ Cardinality(s) \in Nat \ {0}
         /\ s \ {Chosen(s)} \in SUBSET S
         /\ Cardinality(s \ {Chosen(s)}) = Cardinality(s) - 1
  BY <1>1, <1>2, SmallerSet
<1>4. 0 \in K
  <2> DEFINE F == [s \in Upto(0) |-> 0]
  <2>1. ASSUME NEW s \in Upto(0) PROVE s = {}
    <3>1. s \in SUBSET S /\ Cardinality(s) <= 0
      OBVIOUS
    <3>2. IsFiniteSet(s) /\ Cardinality(s) = 0
      BY <1>1, <3>1
    <3> QED BY <3>2, FS_EmptySet
  <2>2. F = [s \in Upto(0) |-> IF s = {} THEN 0 ELSE Amount(Chosen(s)) + F[s \ {Chosen(s)}]]
    BY <2>1
  <2> HIDE DEF F
  <2> QED BY <2>2 DEF Sums
<1>5. ASSUME NEW k \in Nat, k \in K PROVE k + 1 \in K
  <2>1. PICK F : Sums(S, Upto(k), F)
    BY <1>5
  <2> DEFINE G == [s \in Upto(k + 1) |-> IF s = {} THEN 0 ELSE Amount(Chosen(s)) + F[s \ {Chosen(s)}]]
  <2>2. \A s \in Upto(k) : s \in Upto(k + 1) /\ G[s] = F[s]
    <3>1. \A s \in Upto(k) : s \in Upto(k + 1)
      BY <1>1
    <3> QED BY <2>1, <3>1, SumsAt
  <2>3. \A s \in Upto(k + 1) : s # {} => s \ {Chosen(s)} \in Upto(k)
    BY <1>3
  <2>4. \A s \in Upto(k + 1) : s # {} => G[s \ {Chosen(s)}] = F[s \ {Chosen(s)}]
    BY <2>2, <2>3
  <2>5. G = [s \in Upto(k + 1) |-> IF s = {} THEN 0 ELSE Amount(Chosen(s)) + G[s \ {Chosen(s)}]]
    BY <2>4
  <2> HIDE DEF G, Upto
  <2>6. Sums(S, Upto(k + 1), G)
    BY <2>5 DEF Sums
  <2> QED BY <2>6
<1> HIDE DEF K
<1>6. Nat \subseteq K
  BY <1>4, <1>5, NatSetInduction
<1>7. Cardinality(S) \in K
  BY <1>6, FS_CardinalityType
<1>8. Upto(Cardinality(S)) = SUBSET S
  BY <1>1
<1> QED BY <1>7, <1>8 DEF K

\* It is unique: on two sets that share a subset, such functions agree there.
LEMMA SumsAgree ==
    ASSUME NEW S, NEW T, NEW F, NEW G, IsFiniteSet(S), T \subseteq S,
           Sums(S, SUBSET S, F), Sums(T, SUBSET T, G)
    PROVE  \A s \in SUBSET T : F[s] = G[s]
<1> DEFINE K == {k \in Nat : \A s \in SUBSET T : Cardinality(s) = k => F[s] = G[s]}
<1>1. \A s \in SUBSET T : IsFiniteSet(s) /\ s \in SUBSET S /\ Cardinality(s) \in Nat
  BY FS_Subset, FS_CardinalityType
<1>2. \A s \in SUBSET T : s # {} =>
         /\ Cardinality(s) \in Nat \ {0}
         /\ s \ {Chosen(s)} \in SUBSET T
         /\ Cardinality(s \ {Chosen(s)}) = Cardinality(s) - 1
  BY <1>1, SmallerSet DEF Chosen
<1>3. \A s \in SUBSET T : /\ F[s] = IF s = {} THEN 0 ELSE Amount(Chosen(s)) + F[s \ {Chosen(s)}]
                          /\ G[s] = IF s = {} THEN 0 ELSE Amount(Chosen(s)) + G[s \ {Chosen(s)}]
  BY <1>1, SumsAt
<1>4. 0 \in K
  BY <1>2, <1>3
<1>5. ASSUME NEW k \in Nat, k \in K PROVE k + 1 \in K
  <2> SUFFICES ASSUME NEW s \in SUBSET T, Cardinality(s) = k + 1 PROVE F[s] = G[s]
    OBVIOUS
  <2>1. CASE s = {}
    BY <1>3, <2>1
  <2>2. CASE s # {}
    <3>1. s \ {Chosen(s)} \in SUBSET T /\ Cardinality(s \ {Chosen(s)}) = k
      BY <1>2, <2>2
    <3>2. F[s \ {Chosen(s)}] = G[s \ {Chosen(s)}]
      BY <1>5, <3>1
    <3> QED BY <1>3, <2>2, <3>2
  <2> QED BY <2>1, <2>2
<1> HIDE DEF K
<1>6. Nat \subseteq K
  BY <1>4, <1>5, NatSetInduction
<1> QED BY <1>1, <1>6 DEF K

\* The recursion of Total.
LEMMA TotalUnfolds ==
    ASSUME NEW S, IsFiniteSet(S)
    PROVE  Total(S) = IF S = {} THEN 0 ELSE Amount(Chosen(S)) + Total(S \ {Chosen(S)})
<1>1. ASSUME NEW T, T \subseteq S PROVE \E F : Sums(S, SUBSET S, F) /\ Total(S) = F[S] /\ Total(T) = F[T]
  <2>1. PICK F : Sums(S, SUBSET S, F) /\ Total(S) = F[S]
    BY SumsExist, TotalIs
  <2>2. IsFiniteSet(T)
    BY <1>1, FS_Subset
  <2>3. PICK G : Sums(T, SUBSET T, G) /\ Total(T) = G[T]
    BY <2>2, SumsExist, TotalIs
  <2>4. Sums(S, SUBSET S, F) /\ Sums(T, SUBSET T, G)
    BY <2>1, <2>3
  <2>5. \A s \in SUBSET T : F[s] = G[s]
    BY <1>1, <2>4, SumsAgree
  <2>6. F[T] = G[T]
    BY <2>5
  <2> QED BY <2>1, <2>3, <2>6
<1>2. S \ {Chosen(S)} \subseteq S
  OBVIOUS
<1>3. PICK F : Sums(S, SUBSET S, F) /\ Total(S) = F[S] /\ Total(S \ {Chosen(S)}) = F[S \ {Chosen(S)}]
  BY <1>1, <1>2, Zenon
<1>4. F[S] = IF S = {} THEN 0 ELSE Amount(Chosen(S)) + F[S \ {Chosen(S)}]
  BY <1>3, SumsAt
<1> QED BY <1>3, <1>4, Zenon

\* Sets of outputs whose amounts are numbers.
Payments(S) == IsFiniteSet(S) /\ \A o \in S : Amount(o) \in Int

\* A total is a number.
LEMMA TotalType ==
    ASSUME NEW S, Payments(S)
    PROVE  Total(S) \in Int /\ Total({}) = 0
<1> DEFINE K == {k \in Nat : \A s \in SUBSET S : Cardinality(s) = k => Total(s) \in Int}
<1>1. \A s \in SUBSET S : IsFiniteSet(s) /\ Cardinality(s) \in Nat
  BY FS_Subset, FS_CardinalityType DEF Payments
<1>2. \A s \in SUBSET S : s # {} =>
         /\ Chosen(s) \in s /\ Amount(Chosen(s)) \in Int
         /\ Cardinality(s) \in Nat \ {0}
         /\ s \ {Chosen(s)} \in SUBSET S
         /\ Cardinality(s \ {Chosen(s)}) = Cardinality(s) - 1
         /\ Total(s) = Amount(Chosen(s)) + Total(s \ {Chosen(s)})
  BY <1>1, SmallerSet, TotalUnfolds DEF Chosen, Payments
<1>3. Total({}) = 0
  BY TotalUnfolds, FS_EmptySet
<1>4. ASSUME NEW s \in SUBSET S, Cardinality(s) = 0 PROVE Total(s) \in Int
  <2>1. s = {}
    BY <1>2, <1>4
  <2> QED BY <1>3, <2>1
<1>5. ASSUME NEW k \in Nat, k \in K PROVE k + 1 \in K
  <2> SUFFICES ASSUME NEW s \in SUBSET S, Cardinality(s) = k + 1 PROVE Total(s) \in Int
    OBVIOUS
  <2>1. s # {}
    BY FS_EmptySet
  <2>2. Total(s \ {Chosen(s)}) \in Int
    BY <1>2, <1>5, <2>1
  <2> QED BY <1>2, <2>1, <2>2
<1>6. 0 \in K
  BY <1>4
<1> HIDE DEF K
<1>7. Nat \subseteq K
  BY <1>5, <1>6, NatSetInduction
<1> QED BY <1>1, <1>3, <1>7 DEF K

\* Any of the elements may come first.
LEMMA TotalRemove ==
    ASSUME NEW S, Payments(S)
    PROVE  \A x \in S : Total(S) = Amount(x) + Total(S \ {x})
<1> DEFINE Good(s) == \A x \in s : Total(s) = Amount(x) + Total(s \ {x})
           K == {k \in Nat : \A s \in SUBSET S : Cardinality(s) = k => Good(s)}
<1>1. \A s \in SUBSET S : IsFiniteSet(s) /\ Cardinality(s) \in Nat
  BY FS_Subset, FS_CardinalityType DEF Payments
<1>2. \A s \in SUBSET S : \A x \in s :
         /\ Cardinality(s) \in Nat \ {0}
         /\ s \ {x} \in SUBSET S
         /\ Cardinality(s \ {x}) = Cardinality(s) - 1
  BY <1>1, SmallerSet
<1>3. \A s \in SUBSET S : s # {} => Chosen(s) \in s /\ Total(s) = Amount(Chosen(s)) + Total(s \ {Chosen(s)})
  BY <1>1, TotalUnfolds DEF Chosen
<1>4. ASSUME NEW s \in SUBSET S, Cardinality(s) = 0 PROVE Good(s)
  BY <1>2, <1>4
<1>5. ASSUME NEW k \in Nat, k \in K PROVE k + 1 \in K
  <2> SUFFICES ASSUME NEW s \in SUBSET S, Cardinality(s) = k + 1, NEW x \in s
               PROVE  Total(s) = Amount(x) + Total(s \ {x})
    OBVIOUS
  <2> DEFINE y == Chosen(s)
  <2>1. y \in s /\ Total(s) = Amount(y) + Total(s \ {y})
    BY <1>3
  <2> HIDE DEF y
  <2>2. Amount(x) \in Int /\ Amount(y) \in Int
    BY <2>1 DEF Payments
  <2>3. CASE x = y
    BY <2>1, <2>3
  <2>4. CASE x # y
    <3>1. Total(s \ {y}) = Amount(x) + Total((s \ {y}) \ {x})
      <4>1. s \ {y} \in SUBSET S /\ Cardinality(s \ {y}) = k /\ x \in s \ {y}
        BY <1>2, <2>1, <2>4
      <4> QED BY <1>5, <4>1
    <3>2. Total(s \ {x}) = Amount(y) + Total((s \ {x}) \ {y})
      <4>1. s \ {x} \in SUBSET S /\ Cardinality(s \ {x}) = k /\ y \in s \ {x}
        BY <1>2, <2>1, <2>4
      <4> QED BY <1>5, <4>1
    <3>3. (s \ {y}) \ {x} = (s \ {x}) \ {y}
      OBVIOUS
    <3>4. Total((s \ {x}) \ {y}) \in Int
      <4>1. Payments((s \ {x}) \ {y})
        BY FS_Subset DEF Payments
      <4> QED BY <4>1, TotalType
    <3> DEFINE rest == Total((s \ {x}) \ {y})
               noX == Total(s \ {x})
               noY == Total(s \ {y})
    <3>5. noY = Amount(x) + rest /\ noX = Amount(y) + rest /\ rest \in Int /\ Total(s) = Amount(y) + noY
      BY <2>1, <3>1, <3>2, <3>3, <3>4, Zenon
    <3>6. SUFFICES Total(s) = Amount(x) + noX
      OBVIOUS
    <3> HIDE DEF rest, noX, noY
    <3> QED BY <2>2, <3>5
  <2> QED BY <2>3, <2>4
<1>6. 0 \in K
  BY <1>4
<1> HIDE DEF K
<1>7. Nat \subseteq K
  BY <1>5, <1>6, NatSetInduction
<1> QED BY <1>1, <1>7 DEF K

\* The total of two sets without a common element.
LEMMA TotalUnion ==
    ASSUME NEW A, NEW B, Payments(A), Payments(B), A \cap B = {}
    PROVE  /\ Payments(A \cup B)
           /\ Total(A \cup B) = Total(A) + Total(B)
<1>1. Payments(A \cup B)
  BY FS_Union DEF Payments
<1> DEFINE K == {k \in Nat : \A b \in SUBSET B : Cardinality(b) = k => Total(A \cup b) = Total(A) + Total(b)}
<1>2. \A b \in SUBSET B : Payments(b) /\ Payments(A \cup b) /\ Cardinality(b) \in Nat
  BY FS_Subset, FS_Union, FS_CardinalityType DEF Payments
<1>3. Total(A) \in Int /\ Total({}) = 0
  BY TotalType
<1>4. ASSUME NEW b \in SUBSET B, Cardinality(b) = 0 PROVE Total(A \cup b) = Total(A) + Total(b)
  <2>1. b = {}
    BY <1>2, <1>4, FS_EmptySet DEF Payments
  <2> QED BY <1>3, <2>1
<1>5. ASSUME NEW k \in Nat, k \in K PROVE k + 1 \in K
  <2> SUFFICES ASSUME NEW b \in SUBSET B, Cardinality(b) = k + 1
               PROVE  Total(A \cup b) = Total(A) + Total(b)
    OBVIOUS
  <2>1. PICK x \in b : TRUE
    BY FS_EmptySet
  <2> DEFINE c == b \ {x}
  <2>2. c \in SUBSET B /\ Cardinality(c) = k
    <3>1. IsFiniteSet(b)
      BY <1>2 DEF Payments
    <3>2. Cardinality(c) = Cardinality(b) - 1
      BY <2>1, <3>1, SmallerSet
    <3> QED BY <3>2
  <2>3. Total(A \cup c) = Total(A) + Total(c)
    BY <1>5, <2>2
  <2>4. Total(b) = Amount(x) + Total(c)
    BY <1>2, TotalRemove
  <2>5. (A \cup b) \ {x} = A \cup c
    OBVIOUS
  <2>6. Total(A \cup b) = Amount(x) + Total((A \cup b) \ {x})
    BY <1>2, TotalRemove
  <2>7. Amount(x) \in Int /\ Total(c) \in Int
    BY <1>2, <2>2, TotalType DEF Payments
  <2>8. Total(A \cup b) = Amount(x) + Total(A \cup c)
    BY <2>5, <2>6, Zenon
  <2> HIDE DEF c
  <2> QED BY <1>3, <2>3, <2>4, <2>7, <2>8
<1>6. 0 \in K
  BY <1>4
<1> HIDE DEF K
<1>7. Nat \subseteq K
  BY <1>5, <1>6, NatSetInduction
<1>8. Total(A \cup B) = Total(A) + Total(B)
  BY <1>2, <1>7 DEF K
<1> QED BY <1>1, <1>8

\* What is left of a total.
LEMMA TotalDifference ==
    ASSUME NEW A, NEW G, Payments(A), G \subseteq A
    PROVE  /\ Payments(A \ G) /\ Payments(G)
           /\ Total(A \ G) = Total(A) - Total(G)
<1>1. Payments(A \ G) /\ Payments(G)
  BY FS_Subset DEF Payments
<1>2. (A \ G) \cup G = A /\ (A \ G) \cap G = {}
  OBVIOUS
<1>3. Total((A \ G) \cup G) = Total(A \ G) + Total(G)
  BY <1>1, <1>2, TotalUnion
<1>4. Total(A \ G) \in Int /\ Total(G) \in Int
  BY <1>1, TotalType
<1>5. Total(A) = Total(A \ G) + Total(G)
  BY <1>2, <1>3, Zenon
<1> DEFINE left == Total(A \ G)
<1>6. left \in Int /\ Total(A) = left + Total(G)
  BY <1>4, <1>5, Zenon
<1> HIDE DEF left
<1>7. left = Total(A) - Total(G)
  BY <1>4, <1>6
<1> QED BY <1>1, <1>7 DEF left

-----------------------------------------------------------------------------
(* One pass over the list. *)

\* The ledgers of one pass over the list, from the empty one on.
Pass(L, D, s, h, ch, bh, now) ==
    L = [n \in D |-> IF n = 0 THEN EmptyLedger ELSE LedgerStep(L[n - 1], h, ch, bh, now, s[n])]

\* Such a pass exists, for any number of transactions.
LEMMA PassExists ==
    ASSUME NEW s, NEW h, NEW ch, NEW bh, NEW now, NEW m \in Nat
    PROVE  \E L : Pass(L, 0..m, s, h, ch, bh, now)
<1> DEFINE K == {k \in Nat : \E L : Pass(L, 0..k, s, h, ch, bh, now)}
<1>1. 0 \in K
  <2> DEFINE L == [n \in 0..0 |-> EmptyLedger]
  <2>1. L = [n \in 0..0 |-> IF n = 0 THEN EmptyLedger ELSE LedgerStep(L[n - 1], h, ch, bh, now, s[n])]
    OBVIOUS
  <2> HIDE DEF L
  <2>2. Pass(L, 0..0, s, h, ch, bh, now)
    BY <2>1 DEF Pass
  <2> QED BY <2>2
<1>2. ASSUME NEW k \in Nat, k \in K PROVE k + 1 \in K
  <2>1. PICK L : Pass(L, 0..k, s, h, ch, bh, now)
    BY <1>2
  <2> DEFINE e(n, f) == IF n = 0 THEN EmptyLedger ELSE LedgerStep(f[n - 1], h, ch, bh, now, s[n])
             M == [n \in 0..(k + 1) |-> e(n, L)]
  <2>2. ASSUME NEW n \in 0..k PROVE n \in 0..(k + 1) /\ L[n] = e(n, L)
    <3>1. L[n] = IF n = 0 THEN EmptyLedger ELSE LedgerStep(L[n - 1], h, ch, bh, now, s[n])
      BY <2>1 DEF Pass
    <3> QED BY <3>1
  <2>3. \A n \in 0..k : M[n] = L[n]
    BY <2>2
  <2>4. \A n \in 0..(k + 1) : n # 0 => n - 1 \in 0..k
    OBVIOUS
  <2>5. \A n \in 0..(k + 1) : n # 0 => M[n - 1] = L[n - 1]
    BY <2>3, <2>4
  <2>6. M = [n \in 0..(k + 1) |-> e(n, M)]
    BY <2>5
  <2> HIDE DEF M
  <2>7. Pass(M, 0..(k + 1), s, h, ch, bh, now)
    BY <2>6 DEF Pass
  <2> QED BY <2>7
<1> HIDE DEF K
<1>3. Nat \subseteq K
  BY <1>1, <1>2, NatSetInduction
<1> QED BY <1>3 DEF K

\* _BRWalletUpdateBalance is the last ledger of a pass.
LEMMA UpdateBalanceIs ==
    ASSUME NEW s \in Seq(Tx), NEW h, NEW ch, NEW bh, NEW now
    PROVE  \E L : Pass(L, 0..Len(s), s, h, ch, bh, now) /\ UpdateBalance(s, h, ch, bh, now) = L[Len(s)]
<1> DEFINE L == CHOOSE f : f = [n \in 0..Len(s) |->
                    IF n = 0 THEN EmptyLedger ELSE LedgerStep(f[n - 1], h, ch, bh, now, s[n])]
<1>1. \E f : f = [n \in 0..Len(s) |->
                    IF n = 0 THEN EmptyLedger ELSE LedgerStep(f[n - 1], h, ch, bh, now, s[n])]
  <2>1. Len(s) \in Nat
    OBVIOUS
  <2>2. PICK f : Pass(f, 0..Len(s), s, h, ch, bh, now)
    BY <2>1, PassExists, Zenon
  <2> QED BY <2>2, Zenon DEF Pass
<1>2. L = [n \in 0..Len(s) |-> IF n = 0 THEN EmptyLedger ELSE LedgerStep(L[n - 1], h, ch, bh, now, s[n])]
  BY <1>1
<1>3. UpdateBalance(s, h, ch, bh, now) = L[Len(s)]
  BY DEF UpdateBalance
<1> HIDE DEF L
<1> QED BY <1>2, <1>3 DEF Pass

\* What the fields of a ledger are.
Coins == UNION {Outpoints(t) : t \in Tx}

Ledgers ==
    [balance : Int, totalSent : Int, totalReceived : Int, balanceHist : Seq(Int),
     utxos : SUBSET Coins, spentOutputs : SUBSET UNION {TxData[t].inputs : t \in Tx},
     invalidTx : SUBSET Tx, pendingTx : SUBSET Tx, usedAddrs : SUBSET {Address(o) : o \in Coins}]

\* The outputs of a transaction are finitely many, and pay numbers.
LEMMA OutputsPay ==
    ASSUME NEW t \in Tx, NEW S, S \subseteq Outpoints(t)
    PROVE  Payments(S) /\ \A o \in S : o[1] = t /\ o \in Coins
<1> DEFINE outs == TxData[t].outputs
<1>1. outs \in Seq([addr : STRING \X Nat, amount : Nat])
  BY OutputAssumption
<1>2. DOMAIN outs = 1..Len(outs) /\ Len(outs) \in Nat
  BY <1>1
<1>3. IsFiniteSet(DOMAIN outs)
  BY <1>2, FS_Interval
<1>4. IsFiniteSet(Outpoints(t))
  BY <1>3, FS_Singleton, FS_Product DEF Outpoints
<1>5. \A o \in Outpoints(t) : o[1] = t /\ o[2] \in DOMAIN outs
  BY DEF Outpoints
<1>6. ASSUME NEW o \in Outpoints(t) PROVE Amount(o) \in Int
  <2>1. outs[o[2]] \in [addr : STRING \X Nat, amount : Nat]
    BY <1>1, <1>5, ElementOf, Zenon
  <2>2. outs[o[2]].amount \in Nat
    BY <2>1
  <2>3. Amount(o) = outs[o[2]].amount
    BY <1>5, Zenon DEF Amount
  <2> QED BY <2>2, <2>3
<1>7. IsFiniteSet(S)
  BY <1>4, FS_Subset
<1> QED BY <1>5, <1>6, <1>7 DEF Payments, Coins

\* The maximum of 0 and a number, as ApplyTx takes it.
LEMMA MaxZero ==
    ASSUME NEW x \in Int
    PROVE  Max({0, x}) = IF x > 0 THEN x ELSE 0
<1> DEFINE m == IF x > 0 THEN x ELSE 0
<1>1. m \in {0, x} /\ \A y \in {0, x} : m >= y
  OBVIOUS
<1>2. \A z \in {0, x} : (\A y \in {0, x} : z >= y) => z = m
  OBVIOUS
<1> HIDE DEF m
<1>3. (CHOOSE z \in {0, x} : \A y \in {0, x} : z >= y) = m
  BY <1>1, <1>2
<1> QED BY <1>3 DEF Max, m

\* The outputs of t to the wallet.
Received(ch, t) == {o \in Outpoints(t) : Address(o) # NoAddr /\ Generated(ch, Address(o))}

\* What a transaction in good standing does to the ledger.
LEMMA ApplyTxIs ==
    ASSUME NEW l \in Ledgers, NEW h, NEW ch, NEW t \in Tx, NEW m, m = ApplyTx(l, h, ch, t),
           Payments(l.utxos), l.balance = Total(l.utxos), l.utxos \cap Outpoints(t) = {}
    PROVE  /\ m \in Ledgers
           /\ m.spentOutputs = l.spentOutputs \cup TxData[t].inputs
           /\ m.utxos = (l.utxos \cup Received(ch, t)) \ m.spentOutputs
           /\ m.invalidTx = l.invalidTx /\ m.pendingTx = l.pendingTx
           /\ Payments(m.utxos) /\ m.balance = Total(m.utxos)
           /\ m.totalReceived - m.totalSent = (l.totalReceived - l.totalSent) + (m.balance - l.balance)
<1> DEFINE named    == {o \in Outpoints(t) : Address(o) # NoAddr}
           received == {o \in named : Generated(ch, Address(o))}
           spent    == l.spentOutputs \cup TxData[t].inputs
           all      == l.utxos \cup received
           gone     == all \cap spent
           balance  == l.balance + Total(received) - Total(gone)
           left     == (l.utxos \cup received) \ gone
           used     == l.usedAddrs \cup {Address(o) : o \in named}
           rec      == l.totalReceived + Max({0, balance - l.balance})
           snt      == l.totalSent + Max({0, l.balance - balance})
           hist     == Append(l.balanceHist, balance)
<1>1. m = [l EXCEPT !.spentOutputs = spent, !.usedAddrs = used, !.utxos = left, !.balance = balance,
                    !.totalReceived = rec, !.totalSent = snt, !.balanceHist = hist]
  BY Zenon DEF ApplyTx
<1>2. received = Received(ch, t) /\ received \subseteq Outpoints(t) /\ named \subseteq Outpoints(t)
  BY DEF Received
<1>3. Payments(received) /\ l.utxos \cap received = {}
  BY <1>2, OutputsPay
<1>4. Payments(all) /\ Total(all) = Total(l.utxos) + Total(received)
  BY <1>3, TotalUnion
<1>5. gone \subseteq all /\ all \ gone = left /\ left = (l.utxos \cup received) \ spent
  OBVIOUS
<1>6. Payments(all \ gone) /\ Payments(gone) /\ Total(all \ gone) = Total(all) - Total(gone)
  BY <1>4, <1>5, TotalDifference
<1>7. Total(received) \in Int /\ Total(gone) \in Int /\ l.balance \in Int
  BY <1>3, <1>6, TotalType DEF Ledgers
<1>8. Payments(left) /\ Total(left) = Total(all) - Total(gone)
  BY <1>5, <1>6, Zenon
<1> HIDE DEF received, gone, all, left, named, spent
<1>9. balance \in Int /\ balance = Total(left)
  BY <1>4, <1>7, <1>8
<1>10. left \subseteq Coins /\ used \subseteq {Address(o) : o \in Coins}
       /\ spent \in SUBSET UNION {TxData[u].inputs : u \in Tx}
  <2>1. l.utxos \subseteq Coins /\ l.usedAddrs \subseteq {Address(o) : o \in Coins}
        /\ l.spentOutputs \in SUBSET UNION {TxData[u].inputs : u \in Tx}
    BY DEF Ledgers
  <2>2. Outpoints(t) \subseteq Coins /\ TxData[t].inputs \subseteq UNION {TxData[u].inputs : u \in Tx}
    BY Zenon DEF Coins
  <2> QED BY <1>2, <2>1, <2>2 DEF left, spent
<1> HIDE DEF balance, used
<1>11. rec \in Int /\ snt \in Int /\ rec - snt = (l.totalReceived - l.totalSent) + (balance - l.balance)
  <2>1. l.totalReceived \in Int /\ l.totalSent \in Int
    BY DEF Ledgers
  <2>2. balance - l.balance \in Int /\ l.balance - balance \in Int
    BY <1>7, <1>9
  <2>3. /\ Max({0, balance - l.balance}) = IF balance - l.balance > 0 THEN balance - l.balance ELSE 0
        /\ Max({0, l.balance - balance}) = IF l.balance - balance > 0 THEN l.balance - balance ELSE 0
    BY <2>2, MaxZero, Zenon
  <2> QED BY <1>7, <1>9, <2>1, <2>3
<1>12. hist \in Seq(Int)
  BY <1>9 DEF Ledgers
<1> HIDE DEF rec, snt, hist
<1>13. /\ m \in Ledgers /\ m.spentOutputs = spent /\ m.utxos = left /\ m.balance = balance
       /\ m.totalReceived = rec /\ m.totalSent = snt
       /\ m.invalidTx = l.invalidTx /\ m.pendingTx = l.pendingTx
  BY <1>1, <1>9, <1>10, <1>11, <1>12 DEF Ledgers
<1> QED BY <1>2, <1>5, <1>8, <1>9, <1>11, <1>13 DEF spent

\* The other two ways to pass a transaction.
LEMMA SkipTxIs ==
    ASSUME NEW l \in Ledgers, NEW h, NEW ch, NEW bh, NEW now, NEW t \in Tx, NEW m,
           m = LedgerStep(l, h, ch, bh, now, t), IsInvalid(l, h, t) \/ IsPending(l, h, bh, now, t)
    PROVE  /\ m \in Ledgers
           /\ m.utxos = l.utxos /\ m.balance = l.balance
           /\ m.totalReceived = l.totalReceived /\ m.totalSent = l.totalSent
           /\ IF IsInvalid(l, h, t)
              THEN /\ m.invalidTx = l.invalidTx \cup {t} /\ m.pendingTx = l.pendingTx
                   /\ m.spentOutputs = l.spentOutputs
              ELSE /\ m.invalidTx = l.invalidTx /\ m.pendingTx = l.pendingTx \cup {t}
                   /\ m.spentOutputs = l.spentOutputs \cup TxData[t].inputs
<1> DEFINE hist == Append(l.balanceHist, l.balance)
           spent == l.spentOutputs \cup TxData[t].inputs
<1>1. hist \in Seq(Int)
  BY DEF Ledgers
<1>2. spent \in SUBSET UNION {TxData[u].inputs : u \in Tx}
  <2>1. l.spentOutputs \in SUBSET UNION {TxData[u].inputs : u \in Tx}
    BY DEF Ledgers
  <2>2. TxData[t].inputs \subseteq UNION {TxData[u].inputs : u \in Tx}
    BY Zenon
  <2> QED BY <2>1, <2>2
<1>3. CASE IsInvalid(l, h, t)
  <2>1. m = [l EXCEPT !.invalidTx = l.invalidTx \cup {t}, !.balanceHist = hist]
    BY <1>3, Zenon DEF LedgerStep
  <2> HIDE DEF hist
  <2> QED BY <1>1, <1>3, <2>1 DEF Ledgers
<1>4. CASE ~IsInvalid(l, h, t)
  <2>1. m = [l EXCEPT !.spentOutputs = spent, !.pendingTx = l.pendingTx \cup {t}, !.balanceHist = hist]
    BY <1>4, Zenon DEF LedgerStep
  <2> HIDE DEF hist
  <2>2. m.spentOutputs = spent /\ m.pendingTx = l.pendingTx \cup {t} /\ m.balanceHist = hist
        /\ m.utxos = l.utxos /\ m.balance = l.balance /\ m.invalidTx = l.invalidTx
        /\ m.totalReceived = l.totalReceived /\ m.totalSent = l.totalSent
    BY <2>1 DEF Ledgers
  <2> HIDE DEF spent
  <2>3. l.pendingTx \cup {t} \in SUBSET Tx
    BY DEF Ledgers
  <2>4. m \in Ledgers
    BY <1>1, <1>2, <2>1, <2>3 DEF Ledgers
  <2> QED BY <1>4, <2>2, <2>4 DEF spent
<1> QED BY <1>3, <1>4

(***************************************************************************)
(* What a ledger says of the transactions E it has passed.                 *)
(***************************************************************************)
\* The transactions that count.
Standing(l, E) == E \ (l.invalidTx \cup l.pendingTx)

\* An output is spent by the transactions that are not invalid; two of them never spend the same.
SpendersKnown(l, E) ==
    /\ l.invalidTx \cup l.pendingTx \subseteq E
    /\ \A t \in E \ l.invalidTx : TxData[t].inputs \subseteq l.spentOutputs
    /\ \A t, u \in E : Conflicts(t, u) => t \in l.invalidTx \/ u \in l.invalidTx

\* The spendable outputs are the wallet's, and unspent by what is in good standing.
CoinsKnown(l, E, ch) ==
    /\ \A t \in Standing(l, E) : TxData[t].inputs \cap l.utxos = {}
    /\ \A o \in l.utxos : o[1] \in Standing(l, E) /\ Generated(ch, Address(o))
    /\ l.balance = Total(l.utxos)
    /\ l.balance = l.totalReceived - l.totalSent

\* What is confirmed counts.
OnlyUnconfirmed(l, h) == \A t \in l.invalidTx \cup l.pendingTx : h[t] = TX_UNCONFIRMED

\* The ledger l after a pass over the transactions E.
LedgerFacts(l, E, h, ch) ==
    /\ l \in Ledgers /\ Payments(l.utxos)
    /\ SpendersKnown(l, E) /\ CoinsKnown(l, E, ch) /\ OnlyUnconfirmed(l, h)

\* Nothing has been passed.
LEMMA EmptyFacts ==
    ASSUME NEW h, NEW ch
    PROVE  LedgerFacts(EmptyLedger, {}, h, ch)
<1>1. EmptyLedger \in Ledgers
  BY DEF EmptyLedger, Ledgers
<1>2. Payments({}) /\ Total({}) = 0
  BY TotalUnfolds, FS_EmptySet DEF Payments
<1> QED BY <1>1, <1>2 DEF EmptyLedger, LedgerFacts, SpendersKnown, CoinsKnown, OnlyUnconfirmed, Standing

\* One more transaction is passed, which if confirmed conflicts with none before.
LEMMA StepFacts ==
    ASSUME NEW E \in SUBSET Tx, NEW l, NEW h, NEW ch, NEW bh, NEW now, NEW t \in Tx, t \notin E,
           LedgerFacts(l, E, h, ch),
           \A u \in E : Conflicts(t, u) => h[t] = TX_UNCONFIRMED,
           NEW m, m = LedgerStep(l, h, ch, bh, now, t)
    PROVE  LedgerFacts(m, E \cup {t}, h, ch)
<1> DEFINE F == E \cup {t}
<1>1. l \in Ledgers /\ Payments(l.utxos) /\ l.invalidTx \subseteq E /\ l.pendingTx \subseteq E
      /\ l.balance = Total(l.utxos)
  BY DEF LedgerFacts, CoinsKnown, SpendersKnown
<1>2. t \notin l.invalidTx /\ t \notin l.pendingTx
  BY <1>1
<1>3. CASE IsInvalid(l, h, t)
  <2>1. /\ m \in Ledgers /\ m.utxos = l.utxos /\ m.balance = l.balance
        /\ m.totalReceived = l.totalReceived /\ m.totalSent = l.totalSent
        /\ m.invalidTx = l.invalidTx \cup {t} /\ m.pendingTx = l.pendingTx
        /\ m.spentOutputs = l.spentOutputs
    BY <1>1, <1>3, SkipTxIs
  <2>2. Standing(m, F) = Standing(l, E) /\ F \ m.invalidTx = E \ l.invalidTx
    BY <1>1, <2>1 DEF Standing
  <2>3. SpendersKnown(m, F)
    BY <2>1, <2>2 DEF LedgerFacts, SpendersKnown
  <2>4. CoinsKnown(m, F, ch)
    BY <2>1, <2>2 DEF LedgerFacts, CoinsKnown
  <2>5. OnlyUnconfirmed(m, h)
    BY <1>3, <2>1 DEF LedgerFacts, OnlyUnconfirmed, IsInvalid
  <2> QED BY <1>1, <2>1, <2>3, <2>4, <2>5 DEF LedgerFacts
<1>4. CASE ~IsInvalid(l, h, t)
  <2>1. ASSUME NEW u \in E, Conflicts(t, u) PROVE u \in l.invalidTx
    <3>1. CASE u \notin l.invalidTx
      <4>1. TxData[u].inputs \subseteq l.spentOutputs
        BY <3>1 DEF LedgerFacts, SpendersKnown
      <4>2. TxData[t].inputs \cap l.spentOutputs # {}
        BY <2>1, <4>1 DEF Conflicts
      <4> QED BY <1>4, <2>1, <4>2 DEF IsInvalid
    <3> QED BY <3>1
  <2>2. ASSUME m.invalidTx = l.invalidTx, m.pendingTx \in {l.pendingTx, l.pendingTx \cup {t}},
               m.spentOutputs = l.spentOutputs \cup TxData[t].inputs
        PROVE  SpendersKnown(m, F)
    <3>1. \A u, v \in F : Conflicts(u, v) => u \in m.invalidTx \/ v \in m.invalidTx
      <4>1. \A u, v \in F : Conflicts(u, v) => u # v /\ Conflicts(v, u)
        BY DEF Conflicts
      <4>2. \A u, v \in E : Conflicts(u, v) => u \in l.invalidTx \/ v \in l.invalidTx
        BY DEF LedgerFacts, SpendersKnown
      <4> QED BY <2>1, <2>2, <4>1, <4>2
    <3>2. \A u \in F \ m.invalidTx : TxData[u].inputs \subseteq m.spentOutputs
      BY <2>2 DEF LedgerFacts, SpendersKnown
    <3>3. m.invalidTx \cup m.pendingTx \subseteq F
      BY <1>1, <2>2
    <3> QED BY <3>1, <3>2, <3>3 DEF SpendersKnown
  <2>3. CASE IsPending(l, h, bh, now, t)
    <3>1. /\ m \in Ledgers /\ m.utxos = l.utxos /\ m.balance = l.balance
          /\ m.totalReceived = l.totalReceived /\ m.totalSent = l.totalSent
          /\ m.invalidTx = l.invalidTx /\ m.pendingTx = l.pendingTx \cup {t}
          /\ m.spentOutputs = l.spentOutputs \cup TxData[t].inputs
      BY <1>1, <1>4, <2>3, SkipTxIs
    <3>2. Standing(m, F) = Standing(l, E)
      BY <1>1, <3>1 DEF Standing
    <3>3. SpendersKnown(m, F)
      BY <2>2, <3>1
    <3>4. CoinsKnown(m, F, ch)
      BY <3>1, <3>2 DEF LedgerFacts, CoinsKnown
    <3>5. OnlyUnconfirmed(m, h)
      BY <2>3, <3>1 DEF LedgerFacts, OnlyUnconfirmed, IsPending
    <3> QED BY <1>1, <3>1, <3>3, <3>4, <3>5 DEF LedgerFacts
  <2>4. CASE ~IsPending(l, h, bh, now, t)
    <3>1. l.utxos \cap Outpoints(t) = {}
      <4>1. \A o \in l.utxos : o[1] \in E
        BY DEF LedgerFacts, CoinsKnown, Standing
      <4>2. \A o \in Outpoints(t) : o[1] = t
        BY DEF Outpoints
      <4> QED BY <4>1, <4>2
    <3>2. m = ApplyTx(l, h, ch, t)
      BY <1>4, <2>4 DEF LedgerStep
    <3>3. /\ m \in Ledgers
          /\ m.spentOutputs = l.spentOutputs \cup TxData[t].inputs
          /\ m.utxos = (l.utxos \cup Received(ch, t)) \ m.spentOutputs
          /\ m.invalidTx = l.invalidTx /\ m.pendingTx = l.pendingTx
          /\ Payments(m.utxos) /\ m.balance = Total(m.utxos)
          /\ m.totalReceived - m.totalSent = (l.totalReceived - l.totalSent) + (m.balance - l.balance)
      BY <1>1, <3>1, <3>2, ApplyTxIs
    <3>4. SpendersKnown(m, F)
      BY <2>2, <3>3
    <3>5. Standing(m, F) = Standing(l, E) \cup {t}
      BY <1>1, <1>2, <3>3 DEF Standing
    <3>6. \A o \in Received(ch, t) : o[1] = t /\ Generated(ch, Address(o))
      BY DEF Received, Outpoints
    <3>7. \A u \in Standing(m, F) : TxData[u].inputs \cap m.utxos = {}
      <4>1. \A u \in Standing(m, F) : TxData[u].inputs \subseteq m.spentOutputs
        BY <3>4 DEF SpendersKnown, Standing
      <4> QED BY <3>3, <4>1
    <3>8. \A o \in m.utxos : o[1] \in Standing(m, F) /\ Generated(ch, Address(o))
      BY <3>3, <3>5, <3>6 DEF LedgerFacts, CoinsKnown
    <3>9. m.balance = m.totalReceived - m.totalSent
      <4>1. l.balance = l.totalReceived - l.totalSent
        BY DEF LedgerFacts, CoinsKnown
      <4>2. /\ l.balance \in Int /\ l.totalReceived \in Int /\ l.totalSent \in Int
            /\ m.balance \in Int /\ m.totalReceived \in Int /\ m.totalSent \in Int
        BY <1>1, <3>3 DEF Ledgers
      <4> QED BY <3>3, <4>1, <4>2
    <3>10. CoinsKnown(m, F, ch)
      BY <3>3, <3>7, <3>8, <3>9 DEF CoinsKnown
    <3>11. OnlyUnconfirmed(m, h)
      BY <3>3 DEF LedgerFacts, OnlyUnconfirmed
    <3> QED BY <3>3, <3>4, <3>10, <3>11 DEF LedgerFacts
  <2> QED BY <2>3, <2>4
<1> QED BY <1>3, <1>4

\* No two of the transactions are confirmed and spend the same output.
NoConfirmedConflict(E, h) ==
    \A t, u \in E : Conflicts(t, u) => h[t] = TX_UNCONFIRMED \/ h[u] = TX_UNCONFIRMED

\* What _BRWalletUpdateBalance computes from a sorted list.
LEMMA UpdateBalanceFacts ==
    ASSUME NEW s \in Seq(Tx), NEW h \in [Tx -> Nat], \A t \in Tx : h[t] <= TX_UNCONFIRMED,
           Sorted(h, s), Distinct(s), NoConfirmedConflict(Elements(s), h),
           NEW ch, NEW bh, NEW now
    PROVE  LedgerFacts(UpdateBalance(s, h, ch, bh, now), Elements(s), h, ch)
<1>1. PICK L : Pass(L, 0..Len(s), s, h, ch, bh, now) /\ UpdateBalance(s, h, ch, bh, now) = L[Len(s)]
  BY UpdateBalanceIs
<1> DEFINE E(n) == {s[i] : i \in 1..n}
           K == {n \in Nat : n <= Len(s) => LedgerFacts(L[n], E(n), h, ch)}
<1>2. Len(s) \in Nat /\ \A i \in 1..Len(s) : s[i] \in Tx
  OBVIOUS
<1>3. 0 \in K
  <2>1. L[0] = EmptyLedger
    BY <1>1, <1>2 DEF Pass
  <2>2. E(0) = {}
    OBVIOUS
  <2> HIDE DEF E
  <2> QED BY <2>1, <2>2, EmptyFacts
<1>4. ASSUME NEW n \in Nat, n \in K PROVE n + 1 \in K
  <2> SUFFICES ASSUME n + 1 <= Len(s) PROVE LedgerFacts(L[n + 1], E(n + 1), h, ch)
    OBVIOUS
  <2> DEFINE t == s[n + 1]
  <2>1. n + 1 \in 1..Len(s) /\ n + 1 \in 0..Len(s) /\ n <= Len(s) /\ 1..n \subseteq 1..Len(s)
        /\ (n + 1) - 1 = n /\ n + 1 # 0 /\ 1..(n + 1) = (1..n) \cup {n + 1}
    BY <1>2
  <2>2. LedgerFacts(L[n], E(n), h, ch)
    BY <1>4, <2>1
  <2>3. t \in Tx /\ E(n) \in SUBSET Tx /\ E(n + 1) = E(n) \cup {t}
    BY <1>2, <2>1
  <2>4. t \notin E(n)
    <3>1. \A i \in 1..n : i # n + 1 /\ i \in 1..Len(s)
      BY <2>1
    <3> QED BY <2>1, <3>1 DEF Distinct
  <2>5. L[n + 1] = LedgerStep(L[n], h, ch, bh, now, t)
    <3>1. L[n + 1] = LedgerStep(L[(n + 1) - 1], h, ch, bh, now, s[n + 1])
      BY <1>1, <2>1 DEF Pass
    <3> QED BY <2>1, <3>1, Zenon
  <2>6. ASSUME NEW u \in E(n), Conflicts(t, u) PROVE h[t] = TX_UNCONFIRMED
    <3>1. PICK i \in 1..n : u = s[i]
      OBVIOUS
    <3>2. i \in 1..Len(s) /\ i <= n + 1
      BY <2>1
    <3>3. h[u] <= h[t]
      BY <2>1, <3>1, <3>2 DEF Sorted
    <3>4. h[t] = TX_UNCONFIRMED \/ h[u] = TX_UNCONFIRMED
      BY <2>1, <2>6, <3>1, <3>2, Zenon DEF NoConfirmedConflict, Elements
    <3>5. h[t] \in Nat /\ h[u] \in Nat /\ h[t] <= TX_UNCONFIRMED
      BY <2>3
    <3> HIDE DEF t
    <3> QED BY <3>3, <3>4, <3>5, HeightAssumption
  <2> HIDE DEF t, E, K
  <2> QED BY <2>2, <2>3, <2>4, <2>5, <2>6, StepFacts
<1> HIDE DEF K
<1>5. Nat \subseteq K
  BY <1>3, <1>4, NatSetInduction
<1>6. LedgerFacts(L[Len(s)], E(Len(s)), h, ch)
  <2>1. Len(s) \in K /\ Len(s) <= Len(s)
    BY <1>2, <1>5
  <2> HIDE DEF E
  <2> QED BY <2>1, Zenon DEF K
<1> QED BY <1>1, <1>6 DEF Elements

-----------------------------------------------------------------------------
(* The ledger in use. *)

\* The block being processed holds nothing that conflicts with it or with a confirmed transaction.
BatchMinable ==
    call.op = "update" /\ call.height # TX_UNCONFIRMED =>
        \A t \in ToSet(call.todo), u \in Tx :
            Conflicts(t, u) => u \notin ToSet(call.todo) /\ ~(u \in Listed /\ height[u] # TX_UNCONFIRMED)

(***************************************************************************)
(* A new pass may be due while BRWalletUpdateTransactions runs, because of *)
(* a confirmation, but then needsUpdate says so.                           *)
(***************************************************************************)
LedgerInv ==
    /\ NoConfirmedConflict(Listed, height)
    /\ BatchMinable
    /\ ledger.utxos \subseteq Coins
    /\ SpendersKnown(ledger, Listed)
    /\ CoinsKnown(ledger, Listed, chain)
    /\ OnlyUnconfirmed(ledger, height) \/ (call.op = "update" /\ call.needsUpdate)

\* IInv, as the lemmas need it before and after a step.
ListIs ==
    /\ transactions \in Seq(Tx) /\ height \in [Tx -> Nat] /\ \A t \in Tx : height[t] <= TX_UNCONFIRMED
    /\ Sorted(height, transactions) /\ Distinct(transactions)
    /\ Listed = Elements(transactions) /\ Listed \subseteq Tx

\* Before and after.
LEMMA ListIsAlways == (IInv => ListIs) /\ (IInv' => ListIs')
<1>1. IInv => ListIs
  BY ListFacts DEF ListIs
<1> QED BY <1>1, PTL

\* More addresses: the wallet's outputs still are.
LEMMA CoinsGrown ==
    ASSUME NEW l, NEW E, NEW a \in [Chains -> Nat], NEW b \in [Chains -> Nat], Grown(a, b),
           l.utxos \subseteq Coins, CoinsKnown(l, E, a)
    PROVE  CoinsKnown(l, E, b)
<1>1. ASSUME NEW o \in l.utxos PROVE Generated(b, Address(o))
  <2>1. PICK t \in Tx : o \in Outpoints(t)
    BY DEF Coins
  <2>2. Address(o) \in STRING \X Nat
    BY <2>1, AddressType
  <2>3. Address(o)[2] \in Nat /\ Address(o)[1] \in Chains /\ Address(o)[2] < a[Address(o)[1]]
    BY <2>2 DEF CoinsKnown, Generated
  <2>4. a[Address(o)[1]] \in Nat /\ b[Address(o)[1]] \in Nat /\ a[Address(o)[1]] <= b[Address(o)[1]]
    BY <2>3 DEF Grown
  <2> QED BY <2>3, <2>4 DEF Generated
<1> QED BY <1>1 DEF CoinsKnown

\* A step that keeps the ledger, or makes a new pass.
LEMMA LedgerKept ==
    ASSUME IInv, IInv', LedgerInv, Grown(chain, chain'),
           NoConfirmedConflict(Listed', height'), BatchMinable',
           \/ /\ ledger' = ledger /\ Listed' = Listed
              /\ OnlyUnconfirmed(ledger, height') \/ (call'.op = "update" /\ call'.needsUpdate)
           \/ \E bh, now : ledger' = UpdateBalance(transactions', height', chain, bh, now)
    PROVE  LedgerInv'
<1>1. ListIs /\ ListIs'
  BY ListIsAlways
<1>2. chain \in [Chains -> Nat] /\ chain' \in [Chains -> Nat]
  BY DEF IInv, TypeOK
<1>3. CASE /\ ledger' = ledger /\ Listed' = Listed
           /\ OnlyUnconfirmed(ledger, height') \/ (call'.op = "update" /\ call'.needsUpdate)
  <2>1. CoinsKnown(ledger, Listed, chain')
    BY <1>2, CoinsGrown DEF LedgerInv
  <2> QED BY <1>3, <2>1 DEF LedgerInv
<1>4. CASE \E bh, now : ledger' = UpdateBalance(transactions', height', chain, bh, now)
  <2>1. PICK bh, now : ledger' = UpdateBalance(transactions', height', chain, bh, now)
    BY <1>4
  <2>2. LedgerFacts(ledger', Listed', height', chain)
    BY <1>1, <2>1, UpdateBalanceFacts DEF ListIs
  <2>3. ledger'.utxos \subseteq Coins
    BY <2>2 DEF LedgerFacts, Ledgers
  <2>4. CoinsKnown(ledger', Listed', chain')
    BY <1>2, <2>2, <2>3, CoinsGrown DEF LedgerFacts
  <2> QED BY <2>2, <2>3, <2>4 DEF LedgerInv, LedgerFacts
<1> QED BY <1>3, <1>4

\* The list with a new pass due, or not.
LEMMA LedgerSame ==
    ASSUME IInv, IInv', LedgerInv, UNCHANGED <<transactions, height, ledger>>,
           Grown(chain, chain'), BatchMinable',
           \/ call.op # "update"
           \/ call'.op = "update" /\ call'.needsUpdate = call.needsUpdate
    PROVE  LedgerInv'
<1>1. Listed' = Listed
  BY DEF Listed
<1>2. NoConfirmedConflict(Listed', height')
  BY <1>1 DEF LedgerInv
<1>3. OnlyUnconfirmed(ledger, height') \/ (call'.op = "update" /\ call'.needsUpdate)
  BY DEF LedgerInv
<1> QED BY <1>1, <1>2, <1>3, LedgerKept

\* The chains that stay have not shrunk.
LEMMA ChainKept ==
    ASSUME IInv, chain' = chain
    PROVE  Grown(chain, chain')
  BY DEF IInv, TypeOK, Grown

\* No batch is being processed.
LEMMA NoBatch ==
    ASSUME call'.op # "update"
    PROVE  BatchMinable'
  BY DEF BatchMinable

\* A registered transaction is unconfirmed.
LEMMA RegisterLedger ==
    ASSUME IInv, IInv', LedgerInv, NEW t \in Tx, BRWalletRegisterTransaction(t)
    PROVE  LedgerInv'
<1>1. call'.op # "update" /\ BatchMinable' /\ call.op # "update"
  <2>1. call' = call /\ call.op = "none"
    BY DEF BRWalletRegisterTransaction, Idle, NoCall
  <2>2. call'.op # "update"
    BY <2>1
  <2> QED BY <2>1, <2>2, NoBatch
<1>2. CASE t \in allTx
  <2>1. UNCHANGED <<transactions, height, chain, ledger>>
    BY <1>2 DEF BRWalletRegisterTransaction
  <2> QED BY <1>1, <2>1, ChainKept, LedgerSame
<1>3. ListIs /\ ListIs' /\ \A u \in Listed : u \in allTx
  BY ListIsAlways, ListFacts, Zenon
<1>4. CASE t \notin allTx
  <2>1. height' = [height EXCEPT ![t] = TX_UNCONFIRMED]
    BY <1>4, Zenon DEF BRWalletRegisterTransaction
  <2>2. height'[t] = TX_UNCONFIRMED /\ \A u \in Listed : height'[u] = height[u] /\ u # t
    BY <1>3, <1>4, <2>1 DEF ListIs
  <2>3. CASE ~ContainsTx(allTx, chain, t)
    <3>1. UNCHANGED <<transactions, chain, ledger>>
      BY <1>4, <2>3, Zenon DEF BRWalletRegisterTransaction
    <3>2. Listed' = Listed
      BY <3>1 DEF Listed
    <3>3. NoConfirmedConflict(Listed', height')
      BY <2>2, <3>2 DEF LedgerInv, NoConfirmedConflict
    <3>4. OnlyUnconfirmed(ledger, height')
      BY <1>1, <2>2 DEF LedgerInv, OnlyUnconfirmed, SpendersKnown
    <3> QED BY <1>1, <3>1, <3>2, <3>3, <3>4, ChainKept, LedgerKept
  <2>4. CASE ContainsTx(allTx, chain, t)
    <3>1. /\ AddTx(t) /\ timestamp' = [timestamp EXCEPT ![t] = 0]
          /\ UNCHANGED <<blockHeight, clock, call>>
      BY <1>4, <2>4, Zenon DEF BRWalletRegisterTransaction
    <3>2. Elements(transactions') = Elements(transactions) \cup {t}
      BY <1>4, <2>1, <2>4, <3>1, AddTxStep, Zenon
    <3>3. Listed' = Listed \cup {t}
      BY <1>3, <3>2, Zenon DEF ListIs
    <3>4. NoConfirmedConflict(Listed', height')
      BY <2>2, <3>3 DEF LedgerInv, NoConfirmedConflict
    <3>5. Grown(chain, chain')
      <4>1. PICK e \in chain["external"]..MaxAddrs, i \in chain["internal"]..MaxAddrs :
                chain' = [chain EXCEPT !["external"] = e, !["internal"] = i]
        BY <3>1 DEF AddTx
      <4>2. chain \in [Chains -> Nat] /\ MaxAddrs \in Nat
        BY BoundAssumption DEF IInv, TypeOK
      <4> QED BY <4>1, <4>2 DEF Grown, Chains
    <3>6. ledger' = UpdateBalance(transactions', height', chain, blockHeight, clock)
      BY <3>1 DEF AddTx
    <3> QED BY <1>1, <3>4, <3>5, <3>6, LedgerKept
  <2> QED BY <2>3, <2>4
<1> QED BY <1>2, <1>4

\* More addresses.
LEMMA UnusedAddrsLedger ==
    ASSUME IInv, IInv', LedgerInv, NEW c \in Chains, NEW gap \in Gaps, BRWalletUnusedAddrs(c, gap)
    PROVE  LedgerInv'
<1>1. PICK n \in chain[c]..MaxAddrs : chain' = [chain EXCEPT ![c] = n]
  BY DEF BRWalletUnusedAddrs
<1>2. Grown(chain, chain')
  BY <1>1, BoundAssumption DEF IInv, TypeOK, Grown
<1>3. call.op # "update" /\ call'.op # "update" /\ UNCHANGED <<transactions, height, ledger>>
  BY DEF BRWalletUnusedAddrs
<1> QED BY <1>2, <1>3, NoBatch, LedgerSame

\* The callers pass what a block may hold.
LEMMA BatchLedger ==
    ASSUME IInv, IInv', LedgerInv, NewBlock \/ MarkUnconfirmed
    PROVE  LedgerInv'
<1>1. PICK s, h, ts : /\ BRWalletUpdateTransactions(s, h, ts)
                      /\ h # TX_UNCONFIRMED => Minable(s, h)
  <2>1. CASE NewBlock
    BY <2>1 DEF NewBlock
  <2>2. CASE MarkUnconfirmed
    BY <2>2 DEF MarkUnconfirmed
  <2> QED BY <2>1, <2>2
<1>2. /\ UNCHANGED <<transactions, height, chain, ledger>> /\ call.op # "update"
      /\ call'.todo = s /\ call'.height = h
  BY <1>1 DEF BRWalletUpdateTransactions, Idle, NoCall
<1>3. Listed' = Listed
  BY <1>2 DEF Listed
<1>4. BatchMinable'
  BY <1>1, <1>2, <1>3 DEF BatchMinable, Minable
<1> QED BY <1>2, <1>4, ChainKept, LedgerSame

\* One hash less to process.
LEMMA HeadAndTail ==
    ASSUME NEW s \in Seq(Tx), s # <<>>
    PROVE  /\ Head(s) \in Tx /\ Tail(s) \in Seq(Tx)
           /\ Head(s) \in ToSet(s) /\ ToSet(Tail(s)) \subseteq ToSet(s)
<1>1. Head(s) = s[1] /\ 1 \in DOMAIN s /\ Head(s) \in Tx /\ Tail(s) \in Seq(Tx)
  OBVIOUS
<1>2. \A i \in DOMAIN Tail(s) : i + 1 \in DOMAIN s /\ Tail(s)[i] = s[i + 1]
  OBVIOUS
<1>3. ASSUME NEW x \in ToSet(Tail(s)) PROVE x \in ToSet(s)
  <2>1. PICK i \in DOMAIN Tail(s) : x = Tail(s)[i]
    BY Zenon DEF ToSet
  <2> QED BY <1>2, <2>1, Zenon DEF ToSet
<1>4. Head(s) \in ToSet(s)
  BY <1>1, Zenon DEF ToSet
<1> QED BY <1>1, <1>3, <1>4, Zenon

\* What an iteration of the loop of BRWalletUpdateTransactions does to heights and flags.
UpdatesHeight(t) ==
    \/ UNCHANGED height /\ call'.needsUpdate = call.needsUpdate
    \/ /\ height' = [height EXCEPT ![t] = call.height]
       /\ \/ t \in Listed /\ (call'.needsUpdate <=> call.needsUpdate \/ NeedsUpdate(t))
          \/ t \notin Listed /\ (call.needsUpdate => call'.needsUpdate)

\* Each branch of an iteration is one of these, and lists what was listed.
LEMMA UpdateOneShape ==
    ASSUME IInv, UpdateOne
    PROVE  /\ call.todo \in Seq(Tx) /\ call.todo # <<>> /\ call.op = "update"
           /\ call'.op = "update" /\ call'.todo = Tail(call.todo) /\ call'.height = call.height
           /\ Listed' = Listed /\ UNCHANGED <<chain, ledger>>
           /\ UpdatesHeight(Head(call.todo))
<1> DEFINE t == Head(call.todo)
           after == [call EXCEPT !.todo = Tail(@)]
           CallType == [op : {"update"}, todo : Seq(Tx), height : Heights \cup {TX_UNCONFIRMED},
                        timestamp : Stamps, hashes : Seq(Tx), needsUpdate : BOOLEAN]
<1>1. call \in CallType /\ call.todo # <<>> /\ UNCHANGED <<chain, ledger>>
  BY DEF UpdateOne, IInv, TypeOK, NoCall
<1>2. call.todo \in Seq(Tx) /\ call.op = "update" /\ call.height \in Heights \cup {TX_UNCONFIRMED}
  BY <1>1
<1>3. t \in Tx
  BY <1>1, <1>2
<1>4. /\ after.op = "update" /\ after.todo = Tail(call.todo) /\ after.height = call.height
      /\ after.needsUpdate = call.needsUpdate
  BY <1>1
<1>5. CASE /\ call' = after
           /\ UNCHANGED <<transactions, height>>
  BY <1>1, <1>2, <1>4, <1>5 DEF Listed, UpdatesHeight
<1>6. CASE /\ height' = [height EXCEPT ![t] = call.height]
           /\ Resort(t)
           /\ call' = [after EXCEPT !.hashes = Append(@, t), !.needsUpdate = @ \/ NeedsUpdate(t)]
  <2>1. transactions' \in Seq(Tx) /\ Elements(transactions') = Elements(transactions)
    BY <1>2, <1>3, <1>6, ResortKeeps, Zenon
  <2>2. Listed' = Listed
    <3>1. Listed = Elements(transactions)
      BY ListFacts, Zenon
    <3>2. Listed' = Elements(transactions')
      BY <2>1 DEF Listed, Elements
    <3> QED BY <2>1, <3>1, <3>2, Zenon
  <2>3. /\ call'.op = "update" /\ call'.todo = Tail(call.todo) /\ call'.height = call.height
        /\ call'.needsUpdate = (after.needsUpdate \/ NeedsUpdate(t))
    <3>1. after \in CallType
      <4>1. Tail(call.todo) \in Seq(Tx)
        BY <1>1, <1>2
      <4> QED BY <1>1, <4>1
    <3> HIDE DEF t, after
    <3> QED BY <1>4, <1>6, <3>1
  <2>4. call'.needsUpdate <=> call.needsUpdate \/ NeedsUpdate(t)
    BY <1>4, <2>3, Zenon
  <2>5. UpdatesHeight(t)
    BY <1>6, <2>4, Zenon DEF UpdatesHeight, NeedsUpdate
  <2> QED BY <1>1, <1>2, <2>2, <2>3, <2>5, Zenon
<1>7. CASE /\ ~ContainsTx(allTx, chain, t)
           /\ height' = [height EXCEPT ![t] = call.height]
           /\ call' = after
           /\ UNCHANGED transactions
  <2>1. t \notin Listed
    BY <1>7, ListFacts, Zenon
  <2>2. UpdatesHeight(t)
    BY <1>4, <1>7, <2>1, Zenon DEF UpdatesHeight
  <2> QED BY <1>1, <1>2, <1>4, <1>7, <2>2 DEF Listed
<1> QED
  <2> HIDE DEF CallType
  <2> QED BY <1>5, <1>6, <1>7, Zenon DEF UpdateOne

\* A confirmation that may change what the last pass concluded asks for a new one.
LEMMA UpdateOneLedger ==
    ASSUME IInv, IInv', LedgerInv, UpdateOne
    PROVE  LedgerInv'
<1> DEFINE t == Head(call.todo)
<1>1. /\ call.todo \in Seq(Tx) /\ call.todo # <<>> /\ call.op = "update"
      /\ call'.op = "update" /\ call'.todo = Tail(call.todo) /\ call'.height = call.height
      /\ Listed' = Listed /\ UNCHANGED <<chain, ledger>>
      /\ UpdatesHeight(t)
  BY UpdateOneShape
<1>2. t \in Tx /\ t \in ToSet(call.todo) /\ ToSet(call'.todo) \subseteq ToSet(call.todo)
  BY <1>1, HeadAndTail
<1> HIDE DEF t
<1>3. ListIs
  BY ListIsAlways
<1>4. \A u \in Tx : height'[u] # height[u] => u = t /\ height'[u] = call.height
  BY <1>1, <1>2, <1>3 DEF ListIs, UpdatesHeight
<1>5. BatchMinable'
  BY <1>1, <1>2, <1>4 DEF LedgerInv, BatchMinable
<1>6. NoConfirmedConflict(Listed', height')
  <2> SUFFICES ASSUME NEW u \in Listed, NEW v \in Listed, Conflicts(u, v),
                      height'[u] # TX_UNCONFIRMED, height'[v] # TX_UNCONFIRMED
               PROVE  FALSE
    BY <1>1 DEF NoConfirmedConflict
  <2>1. u \in Tx /\ v \in Tx /\ u # v /\ Conflicts(v, u)
    BY <1>3 DEF ListIs, Conflicts
  <2>2. CASE height'[u] = height[u] /\ height'[v] = height[v]
    BY <2>2 DEF LedgerInv, NoConfirmedConflict
  <2>3. CASE height'[u] # height[u]
    <3>1. u \in ToSet(call.todo) /\ call.height # TX_UNCONFIRMED /\ height'[v] = height[v]
      BY <1>2, <1>4, <2>1, <2>3
    <3> QED BY <1>1, <2>1, <3>1 DEF LedgerInv, BatchMinable
  <2>4. CASE height'[v] # height[v]
    <3>1. v \in ToSet(call.todo) /\ call.height # TX_UNCONFIRMED /\ height'[u] = height[u]
      BY <1>2, <1>4, <2>1, <2>4
    <3> QED BY <1>1, <2>1, <3>1 DEF LedgerInv, BatchMinable
  <2> QED BY <2>2, <2>3, <2>4
<1>7. OnlyUnconfirmed(ledger, height') \/ (call'.op = "update" /\ call'.needsUpdate)
  <2>1. CASE call.needsUpdate
    BY <1>1, <2>1, Zenon DEF UpdatesHeight
  <2>2. CASE ~call.needsUpdate
    <3>1. OnlyUnconfirmed(ledger, height)
      BY <2>2 DEF LedgerInv
    <3>2. ledger.invalidTx \cup ledger.pendingTx \subseteq Listed /\ Listed \subseteq Tx
      BY <1>3 DEF LedgerInv, SpendersKnown, ListIs
    <3>3. CASE t \in ledger.invalidTx \cup ledger.pendingTx /\ height' # height
      BY <1>1, <3>2, <3>3, Zenon DEF UpdatesHeight, NeedsUpdate
    <3>4. CASE t \notin ledger.invalidTx \cup ledger.pendingTx \/ height' = height
      BY <1>4, <3>1, <3>2, <3>4 DEF OnlyUnconfirmed
    <3> QED BY <3>3, <3>4
  <2> QED BY <2>1, <2>2
<1> QED BY <1>1, <1>5, <1>6, <1>7, ChainKept, LedgerKept

\* The new pass is made before BRWalletUpdateTransactions returns.
LEMMA UpdateDoneLedger ==
    ASSUME IInv, IInv', LedgerInv, UpdateDone
    PROVE  LedgerInv'
<1>1. UNCHANGED <<transactions, height, chain>> /\ call'.op # "update" /\ call.op = "update"
  BY DEF UpdateDone, NoCall
<1>2. Listed' = Listed /\ NoConfirmedConflict(Listed', height')
  BY <1>1 DEF Listed, LedgerInv
<1>3. BatchMinable'
  BY <1>1, NoBatch
<1>4. CASE call.needsUpdate
  <2>1. ledger' = UpdateBalance(transactions', height', chain, blockHeight, clock)
    BY <1>1, <1>4 DEF UpdateDone
  <2> QED BY <1>1, <1>2, <1>3, <2>1, ChainKept, LedgerKept
<1>5. CASE ~call.needsUpdate
  <2>1. ledger' = ledger /\ OnlyUnconfirmed(ledger, height')
    BY <1>1, <1>5 DEF UpdateDone, LedgerInv
  <2> QED BY <1>1, <1>2, <1>3, <2>1, ChainKept, LedgerKept
<1> QED BY <1>4, <1>5

\* A reorganisation only takes confirmations back.
LEMMA SetUnconfirmedLedger ==
    ASSUME IInv, IInv', LedgerInv, NEW h \in 0..MaxHeight, BRWalletSetTxUnconfirmedAfter(h)
    PROVE  LedgerInv'
<1>1. /\ UNCHANGED <<transactions, chain, call>> /\ call'.op # "update" /\ call.op # "update"
  BY DEF BRWalletSetTxUnconfirmedAfter, Idle, NoCall
<1>2. \A t \in Tx : height'[t] \in {TX_UNCONFIRMED, height[t]}
  BY DEF BRWalletSetTxUnconfirmedAfter, UnconfirmedFrom
<1>3. ListIs /\ Listed' = Listed
  BY <1>1, ListIsAlways DEF Listed
<1>4. NoConfirmedConflict(Listed', height')
  BY <1>2, <1>3 DEF ListIs, LedgerInv, NoConfirmedConflict
<1>5. OnlyUnconfirmed(ledger, height')
  BY <1>1, <1>2, <1>3 DEF ListIs, LedgerInv, OnlyUnconfirmed, SpendersKnown
<1>6. \/ ledger' = ledger
      \/ ledger' = UpdateBalance(transactions', height', chain, h, clock)
  BY <1>1, Zenon DEF BRWalletSetTxUnconfirmedAfter
<1>7. BatchMinable'
  BY <1>1, NoBatch
<1> QED BY <1>1, <1>3, <1>4, <1>5, <1>6, <1>7, ChainKept, LedgerKept

\* One activation of BRWalletRemoveTransaction: a pass over what is left.
LEMMA RemoveOneLedger ==
    ASSUME IInv, IInv', LedgerInv, RemoveOne
    PROVE  LedgerInv'
<1>1. UNCHANGED <<height, chain>> /\ call.op # "update"
  BY DEF RemoveOne
<1>2. call'.op # "update"
  <2>1. call = [op |-> "remove", stack |-> call.stack]
    BY DEF RemoveOne, IInv, TypeOK, NoCall
  <2>2. PICK x : call' = [call EXCEPT !.stack = x]
    BY DEF RemoveOne
  <2> QED BY <2>1, <2>2
<1>3. BatchMinable'
  BY <1>2, NoBatch
<1>4. CASE UNCHANGED <<transactions, ledger>>
  BY <1>1, <1>3, <1>4, ChainKept, LedgerSame
<1>5. CASE DropTx(Head(call.stack))
  <2>1. PICK t : DropTx(t)
    BY <1>5
  <2>2. Elements(transactions') = Elements(transactions) \ {t}
    BY <2>1, DropTxKeeps
  <2>3. Listed' = Listed \ {t}
    BY <2>2, ListIsAlways, Zenon DEF ListIs
  <2>4. NoConfirmedConflict(Listed', height')
    BY <1>1, <2>3 DEF LedgerInv, NoConfirmedConflict
  <2>5. ledger' = UpdateBalance(transactions', height', chain, blockHeight, clock)
    BY <1>1, <2>1 DEF DropTx
  <2> QED BY <1>1, <1>3, <2>4, <2>5, ChainKept, LedgerKept
<1> QED BY <1>4, <1>5, Zenon DEF RemoveOne

\* The ledger is right in every reachable state.
LEMMA LedgerInductive ==
    ASSUME IInv, IInv', LedgerInv, [Next]_vars
    PROVE  LedgerInv'
<1>1. CASE \E t \in Tx : BRWalletRegisterTransaction(t)
  BY <1>1, RegisterLedger, Zenon
<1>2. CASE \E c \in Chains, gap \in Gaps : BRWalletUnusedAddrs(c, gap)
  BY <1>2, UnusedAddrsLedger, Zenon
<1>3. CASE NewBlock \/ MarkUnconfirmed
  BY <1>3, BatchLedger
<1>4. CASE UpdateOne
  BY <1>4, UpdateOneLedger
<1>5. CASE UpdateDone
  BY <1>5, UpdateDoneLedger
<1>6. CASE \E h \in 0..MaxHeight : BRWalletSetTxUnconfirmedAfter(h)
  BY <1>6, SetUnconfirmedLedger, Zenon
<1>7. CASE DropUnrelayed \/ RemoveDone
  <2>1. UNCHANGED <<transactions, height, chain, ledger>> /\ call'.op # "update" /\ call.op # "update"
    BY <1>7 DEF DropUnrelayed, BRWalletRemoveTransaction, RemoveDone, Idle, NoCall
  <2> QED BY <2>1, ChainKept, NoBatch, LedgerSame
<1>8. CASE RemoveOne
  BY <1>8, RemoveOneLedger
<1>9. CASE Tick \/ UNCHANGED vars
  <2>1. UNCHANGED <<transactions, height, chain, ledger, call>>
    BY <1>9 DEF Tick, vars
  <2>2. BatchMinable'
    BY <2>1 DEF LedgerInv, BatchMinable, Listed
  <2> QED BY <2>1, <2>2, ChainKept, LedgerSame
<1> QED BY <1>1, <1>2, <1>3, <1>4, <1>5, <1>6, <1>7, <1>8, <1>9, Zenon DEF Next

\* The invariant of the list and that of the ledger always hold.
LEMMA LedgerHolds ==
    Spec => [](IInv /\ LedgerInv)
<1>1. Init => IInv /\ LedgerInv
  <2> SUFFICES ASSUME Init PROVE IInv /\ LedgerInv
    OBVIOUS
  <2>1. Listed = {} /\ call.op = "none" /\ ledger = EmptyLedger
    BY DEF Init, Listed, NoCall
  <2>2. LedgerFacts(EmptyLedger, {}, height, chain)
    BY EmptyFacts
  <2>3. LedgerInv
    BY <2>1, <2>2 DEF LedgerInv, LedgerFacts, Ledgers, NoConfirmedConflict, BatchMinable
  <2> QED BY <2>3, IInvInit
<1>2. IInv /\ LedgerInv /\ [Next]_vars => (IInv /\ LedgerInv)'
  BY IInvInductive, LedgerInductive
<1> QED BY <1>1, <1>2, PTL DEF Spec

-----------------------------------------------------------------------------
(* The theorems. *)

\* Between two operations, of two listed transactions that spend the same coin one is in
\* wallet->invalidTx, and neither it nor wallet->pendingTx holds a confirmed transaction.
THEOREM DoubleSpendsKnown ==
    Spec => []OneSpenderValid
<1>1. LedgerInv => OneSpenderValid
  BY DEF LedgerInv, OneSpenderValid, SpendersKnown, OnlyUnconfirmed
<1> QED BY <1>1, LedgerHolds, PTL

\* wallet->utxos holds no output that a listed transaction in good standing spends.
THEOREM UtxosNotSpent ==
    Spec => []CoinsNotSpentTwice
<1>1. LedgerInv => CoinsNotSpentTwice
  BY DEF LedgerInv, CoinsNotSpentTwice, CoinsKnown, Standing
<1> QED BY <1>1, LedgerHolds, PTL

\* wallet->balance is the sum of wallet->utxos, which are outputs of listed transactions in
\* good standing to the wallet's addresses, and totalReceived less totalSent.
THEOREM BalanceCorrect ==
    Spec => []BalanceIsUtxos
<1>1. LedgerInv => BalanceIsUtxos
  BY DEF LedgerInv, BalanceIsUtxos, CoinsKnown, Standing
<1> QED BY <1>1, LedgerHolds, PTL

=============================================================================
