------------------------ MODULE BRBlockChainProofs ------------------------
(***************************************************************************)
(* Theorems about BRBlockChain: its types for all constants, and, under    *)
(* conditions that each theorem names, that the walks along prevBlock end  *)
(* where the code expects them to and that the heights of the wallet's     *)
(* transactions are those of the main chain.                               *)
(***************************************************************************)
EXTENDS BRBlockChain, NaturalsInduction, WellFoundedInduction, SequenceTheorems, TLAPS

Prev(b) == BlockData[b].prev

-----------------------------------------------------------------------------
(* Numbers. *)

\* A set of numbers has a least one.
LEMMA LeastNumber ==
    ASSUME NEW T, T \subseteq Nat, T # {}
    PROVE  \E n \in T : \A m \in T : n <= m
<1> DEFINE R == OpToRel(<, Nat)
<1>1. \A x, y \in Nat : x < y => <<x, y>> \in R
  BY DEF OpToRel
<1>2. IsWellFoundedOn(R, Nat)
  BY NatLessThanWellFounded
<1> HIDE DEF R
<1>3. PICK x \in T : \A y \in T : ~ (<<y, x>> \in R)
  BY <1>2, WFMin
<1>4. \A y \in T : ~ (y < x)
  BY <1>1, <1>3
<1>5. \A y \in T : x <= y
  BY <1>4
<1> QED
  BY <1>3, <1>5

\* What holds 0 and, with a number, the next one holds all of them.
LEMMA NumberInduction ==
    ASSUME NEW S, 0 \in S, \A n \in Nat : n \in S => n + 1 \in S
    PROVE  Nat \subseteq S
<1> SUFFICES ASSUME Nat \ S # {}
             PROVE  FALSE
  OBVIOUS
<1>1. PICK n \in Nat \ S : \A m \in Nat \ S : n <= m
  BY LeastNumber
<1>2. n # 0 /\ n - 1 \in Nat
  OBVIOUS
<1>3. n - 1 \in S
  BY <1>1, <1>2
<1> QED
  BY <1>1, <1>2, <1>3

\* The greatest number of a bounded set.
LEMMA MaxIs ==
    ASSUME NEW T, NEW bound \in Nat, T \subseteq Nat, T # {}, \A n \in T : n <= bound
    PROVE  Max(T) \in T /\ \A m \in T : m <= Max(T)
<1> DEFINE U == {n \in Nat : \A m \in T : m <= n}
<1>1. bound \in U
  OBVIOUS
<1>2. PICK top \in U : \A n \in U : top <= n
  BY <1>1, LeastNumber
<1>3. top \in T
  <2> SUFFICES ASSUME top \notin T
               PROVE  FALSE
    OBVIOUS
  <2>1. PICK m \in T : TRUE
    OBVIOUS
  <2>2. m \in Nat /\ m <= top /\ m # top
    BY <1>2
  <2>3. top - 1 \in Nat
    BY <1>2, <2>2
  <2>4. \A n \in T : n <= top - 1
    BY <1>2
  <2> QED
    BY <1>2, <2>3, <2>4
<1>4. \A m \in T : m <= top
  BY <1>2
<1> HIDE DEF U
<1>5. \E x \in T : \A y \in T : x >= y
  BY <1>3, <1>4
<1> QED
  BY <1>5 DEF Max

-----------------------------------------------------------------------------
(* Walks along the blocks. *)

LEMMA Heighted ==
    /\ TX_UNCONFIRMED \in Nat
    /\ \A b \in Block : Height(b) \in Nat /\ Height(b) <= TX_UNCONFIRMED
    /\ \A b \in Block : Prev(b) \in Block => Height(b) = Height(Prev(b)) + 1
    /\ \A b \in Block : Prev(b) \notin Block => Prev(b) = NoBlock /\ Height(b) = 0
  BY BlockAssumption, NumberAssumption DEF Prev

\* W[x]: what is found from x along next, for as long as it is in go.
Walks(W, next, D, go) ==
    W = [x \in D |-> {x} \cup (IF x \in go THEN W[next[x]] ELSE {})]

\* A walk that always gets nearer to its end.
Ranked(next, D, go, rank) ==
    \A x \in D : rank[x] \in Nat /\ (x \in go => next[x] \in D /\ rank[next[x]] < rank[x])

\* Such walks end: the recursive function exists.
LEMMA WalkExists ==
    ASSUME NEW next, NEW D, NEW go, NEW rank, NEW bound \in Nat, Ranked(next, D, go, rank),
           \A x \in D : rank[x] <= bound
    PROVE  \E W : Walks(W, next, D, go)
<1> DEFINE e(f, x) == {x} \cup (IF x \in go THEN f[next[x]] ELSE {})
           K == {k \in Nat : \E f : \A x \in D : rank[x] <= k => f[x] = e(f, x)}
           step(f) == [x \in D |-> e(f, x)]
<1>1. ASSUME NEW k \in Nat, NEW f, \A x \in D : rank[x] <= k => f[x] = e(f, x)
      PROVE  \A x \in D : rank[x] <= k + 1 => step(f)[x] = e(step(f), x)
  <2> SUFFICES ASSUME NEW x \in D, rank[x] <= k + 1
               PROVE  step(f)[x] = e(step(f), x)
    OBVIOUS
  <2>1. x \in go => next[x] \in D /\ rank[next[x]] <= k
    BY DEF Ranked
  <2>2. x \in go => step(f)[next[x]] = f[next[x]]
    BY <1>1, <2>1
  <2> QED
    BY <2>2
<1>2. 0 \in K
  <2> DEFINE f == [x \in D |-> {x}]
  <2>1. \A x \in D : rank[x] <= 0 => f[x] = e(f, x)
    BY DEF Ranked
  <2> QED
    BY <2>1
<1>3. ASSUME NEW k \in Nat, k \in K
      PROVE  k + 1 \in K
  <2>1. PICK f : \A x \in D : rank[x] <= k => f[x] = e(f, x)
    BY <1>3
  <2>2. \A x \in D : rank[x] <= k + 1 => step(f)[x] = e(step(f), x)
    BY <1>1, <2>1
  <2> HIDE DEF step, e
  <2> QED
    BY <2>2
<1>4. bound \in K
  <2> HIDE DEF K
  <2> QED
    BY <1>2, <1>3, NumberInduction
<1>5. PICK f : \A x \in D : rank[x] <= bound => f[x] = e(f, x)
  BY <1>4
<1>6. \A x \in D : step(f)[x] = f[x]
  BY <1>5
<1>7. \A x \in D : x \in go => next[x] \in D
  BY DEF Ranked
<1>8. step(f) = [x \in D |-> e(step(f), x)]
  BY <1>6, <1>7
<1> DEFINE W == step(f)
<1>9. W = [x \in D |-> {x} \cup (IF x \in go THEN W[next[x]] ELSE {})]
  BY <1>8
<1> HIDE DEF W
<1> QED
  BY <1>9 DEF Walks

\* Blocks in memory, each with its prevBlock or, as made from a checkpoint, without one.
Memory(bs) == DOMAIN bs \subseteq Block /\ \A x \in DOMAIN bs : bs[x] \in {Prev(x), NoBlock}

\* One step of the walk back.
LEMMA ChainUnfolds ==
    ASSUME NEW bs, Memory(bs)
    PROVE  /\ \A x : x \notin DOMAIN bs => Chain(bs, x) = {}
           /\ \A x \in DOMAIN bs :
                Chain(bs, x) = {x} \cup (IF bs[x] \in DOMAIN bs THEN Chain(bs, bs[x]) ELSE {})
<1> DEFINE go == {x \in DOMAIN bs : bs[x] \in DOMAIN bs}
           rank == [x \in DOMAIN bs |-> Height(x)]
           C == CHOOSE f : f = [x \in DOMAIN bs |-> {x} \cup (IF bs[x] \in DOMAIN bs THEN f[bs[x]] ELSE {})]
<1>1. ASSUME NEW x \in DOMAIN bs, bs[x] \in DOMAIN bs
      PROVE  Height(bs[x]) < Height(x)
  <2>1. x \in Block /\ bs[x] \in Block /\ bs[x] = Prev(x)
    BY <1>1, NoneAssumption DEF Memory
  <2> QED
    BY <2>1, Heighted
<1>2. Ranked(bs, DOMAIN bs, go, rank) /\ \A x \in DOMAIN bs : rank[x] <= TX_UNCONFIRMED
  BY <1>1, Heighted DEF Ranked, Memory
<1>3. \E f : f = [x \in DOMAIN bs |-> {x} \cup (IF bs[x] \in DOMAIN bs THEN f[bs[x]] ELSE {})]
  <2> HIDE DEF rank, go
  <2>1. PICK W : Walks(W, bs, DOMAIN bs, go)
    BY <1>2, WalkExists, Heighted
  <2>2. W = [x \in DOMAIN bs |-> {x} \cup (IF x \in go THEN W[bs[x]] ELSE {})]
    BY <2>1 DEF Walks
  <2>3. W = [x \in DOMAIN bs |-> {x} \cup (IF bs[x] \in DOMAIN bs THEN W[bs[x]] ELSE {})]
    BY <2>2 DEF go
  <2> QED
    BY <2>3, Zenon
<1>4. C = [x \in DOMAIN bs |-> {x} \cup (IF bs[x] \in DOMAIN bs THEN C[bs[x]] ELSE {})]
  BY <1>3
<1>5. \A x : Chain(bs, x) = IF x \in DOMAIN bs THEN C[x] ELSE {}
  BY DEF Chain
<1> HIDE DEF C
<1> QED
  BY <1>4, <1>5

\* A chain goes down along blocks in memory.
LEMMA ChainIn ==
    ASSUME NEW bs, Memory(bs)
    PROVE  \A x \in DOMAIN bs : /\ x \in Chain(bs, x) /\ Chain(bs, x) \subseteq DOMAIN bs
                                /\ \A y \in Chain(bs, x) : y = x \/ Height(y) < Height(x)
<1> DEFINE Down(x) == /\ Chain(bs, x) \subseteq DOMAIN bs
                      /\ \A y \in Chain(bs, x) : y = x \/ Height(y) < Height(x)
           K == {k \in Nat : \A x \in DOMAIN bs : Height(x) <= k => Down(x)}
<1>1. \A x \in DOMAIN bs : x \in Block /\ Height(x) \in Nat
  BY Heighted DEF Memory
<1>2. ASSUME NEW x \in DOMAIN bs, bs[x] \in DOMAIN bs => Height(bs[x]) < Height(x) /\ Down(bs[x])
      PROVE  Down(x)
  BY <1>1, <1>2, ChainUnfolds
<1>3. \A x \in DOMAIN bs : bs[x] \in DOMAIN bs => bs[x] = Prev(x) /\ Height(x) = Height(bs[x]) + 1
  BY <1>1, Heighted, NoneAssumption DEF Memory
<1>4. 0 \in K
  BY <1>1, <1>2, <1>3
<1>5. ASSUME NEW k \in Nat, k \in K
      PROVE  k + 1 \in K
  <2>1. ASSUME NEW x \in DOMAIN bs, Height(x) <= k + 1
        PROVE  Down(x)
    <3>1. bs[x] \in DOMAIN bs => Height(bs[x]) < Height(x) /\ Height(bs[x]) <= k
      BY <1>1, <1>3, <2>1
    <3>2. bs[x] \in DOMAIN bs => Height(bs[x]) < Height(x) /\ Down(bs[x])
      BY <1>5, <3>1
    <3> HIDE DEF Down
    <3> QED
      BY <1>2, <3>2
  <2> QED
    BY <2>1
<1>6. Nat \subseteq K
  <2> HIDE DEF K
  <2> QED
    BY <1>4, <1>5, NumberInduction
<1>7. \A x \in DOMAIN bs : Down(x)
  BY <1>1, <1>6
<1>8. \A x \in DOMAIN bs : x \in Chain(bs, x)
  BY ChainUnfolds
<1> QED
  BY <1>7, <1>8

\* The same along all blocks: the branch of a block.
Parents == [x \in Block |-> Prev(x)]

LEMMA ParentsIs ==
    /\ Memory(Parents) /\ DOMAIN Parents = Block
    /\ \A x \in Block : Ancestors[x] = Chain(Parents, x) /\ Parents[x] = Prev(x)
<1>1. DOMAIN Parents = Block /\ \A x \in Block : Parents[x] = Prev(x)
  BY DEF Parents
<1>2. \A x \in Block : Ancestors[x] = Chain(Parents, x)
  BY DEF Ancestors, Parents, Prev
<1> QED
  BY <1>1, <1>2 DEF Memory

LEMMA AncestorsUnfold ==
    \A x \in Block :
        /\ Ancestors[x] = {x} \cup (IF Prev(x) \in Block THEN Ancestors[Prev(x)] ELSE {})
        /\ x \in Ancestors[x] /\ Ancestors[x] \subseteq Block
        /\ \A y \in Ancestors[x] : y = x \/ Height(y) < Height(x)
<1>1. \A x \in Block : Chain(Parents, x) = {x} \cup (IF Prev(x) \in Block THEN Chain(Parents, Prev(x)) ELSE {})
  BY ParentsIs, ChainUnfolds
<1>2. \A x \in Block : /\ x \in Chain(Parents, x) /\ Chain(Parents, x) \subseteq Block
                       /\ \A y \in Chain(Parents, x) : y = x \/ Height(y) < Height(x)
  BY ParentsIs, ChainIn
<1> QED
  BY <1>1, <1>2, ParentsIs

\* Two blocks of one branch: the lower is on the branch of the higher.
Ordered(x) ==
    \A y \in Ancestors[x] : /\ Ancestors[y] \subseteq Ancestors[x]
                            /\ \A z \in Ancestors[x] : Height(z) <= Height(y) => z \in Ancestors[y]

LEMMA BranchOrdered ==
    \A x \in Block : Ordered(x)
<1> DEFINE K == {k \in Nat : \A x \in Block : Height(x) <= k => Ordered(x)}
<1>1. ASSUME NEW x \in Block, Prev(x) \in Block => Ordered(Prev(x))
      PROVE  Ordered(x)
  <2>1. SUFFICES ASSUME NEW y \in Ancestors[x]
                 PROVE  /\ Ancestors[y] \subseteq Ancestors[x]
                        /\ \A z \in Ancestors[x] : Height(z) <= Height(y) => z \in Ancestors[y]
    BY DEF Ordered
  <2>2. CASE y = x
    BY <2>2
  <2>3. CASE y # x
    <3>1. Prev(x) \in Block /\ y \in Ancestors[Prev(x)] /\ Ordered(Prev(x))
      BY <1>1, <2>3, AncestorsUnfold
    <3>2. Ancestors[x] = {x} \cup Ancestors[Prev(x)]
      BY <3>1, AncestorsUnfold
    <3>3. Height(y) < Height(x) /\ Height(x) \in Nat /\ Height(y) \in Nat
      BY <2>3, AncestorsUnfold, Heighted
    <3>4. \A z \in Ancestors[x] : Height(z) <= Height(y) => z \in Ancestors[Prev(x)]
      BY <3>2, <3>3
    <3> QED
      BY <3>1, <3>2, <3>4 DEF Ordered
  <2> QED
    BY <2>2, <2>3
<1>2. \A x \in Block : Height(x) \in Nat /\ (Prev(x) \in Block => Height(Prev(x)) \in Nat /\ Height(x) = Height(Prev(x)) + 1)
  BY Heighted
<1>3. 0 \in K
  BY <1>1, <1>2
<1>4. ASSUME NEW k \in Nat, k \in K
      PROVE  k + 1 \in K
  <2>1. ASSUME NEW x \in Block, Height(x) <= k + 1
        PROVE  Ordered(x)
    <3>1. Prev(x) \in Block => Height(Prev(x)) <= k
      BY <1>2, <2>1
    <3> QED
      BY <1>1, <1>4, <3>1
  <2> QED
    BY <2>1
<1>5. Nat \subseteq K
  <2> HIDE DEF K
  <2> QED
    BY <1>3, <1>4, NumberInduction
<1> QED
  BY <1>2, <1>5

\* A branch has one block of a height.
LEMMA OneOfHeight ==
    ASSUME NEW x \in Block, NEW y \in Ancestors[x], NEW z \in Ancestors[x], Height(y) = Height(z)
    PROVE  y = z
<1>1. y \in Block /\ Height(y) \in Nat /\ z \in Ancestors[y]
  BY AncestorsUnfold, BranchOrdered, Heighted DEF Ordered
<1> QED
  BY <1>1, AncestorsUnfold

\* A chain in memory is part of the branch.
LEMMA ChainOfBranch ==
    ASSUME NEW bs, Memory(bs)
    PROVE  \A x \in DOMAIN bs : Chain(bs, x) \subseteq Ancestors[x]
<1> DEFINE K == {k \in Nat : \A x \in DOMAIN bs : Height(x) <= k => Chain(bs, x) \subseteq Ancestors[x]}
<1>1. \A x \in DOMAIN bs : x \in Block /\ Height(x) \in Nat
  BY Heighted DEF Memory
<1>2. \A x \in DOMAIN bs : bs[x] \in DOMAIN bs =>
          bs[x] = Prev(x) /\ Prev(x) \in Block /\ Height(x) = Height(bs[x]) + 1
  BY <1>1, Heighted, NoneAssumption DEF Memory
<1>3. ASSUME NEW x \in DOMAIN bs, bs[x] \in DOMAIN bs => Chain(bs, bs[x]) \subseteq Ancestors[bs[x]]
      PROVE  Chain(bs, x) \subseteq Ancestors[x]
  <2>1. CASE bs[x] \in DOMAIN bs
    <3>1. Chain(bs, x) = {x} \cup Chain(bs, bs[x])
      BY <2>1, ChainUnfolds
    <3>2. Ancestors[x] = {x} \cup Ancestors[bs[x]]
      BY <1>1, <1>2, <2>1, AncestorsUnfold
    <3> QED
      BY <1>3, <2>1, <3>1, <3>2
  <2>2. CASE bs[x] \notin DOMAIN bs
    BY <1>1, <2>2, ChainUnfolds, AncestorsUnfold
  <2> QED
    BY <2>1, <2>2
<1>4. 0 \in K
  BY <1>1, <1>2, <1>3
<1>5. ASSUME NEW k \in Nat, k \in K
      PROVE  k + 1 \in K
  <2>1. ASSUME NEW x \in DOMAIN bs, Height(x) <= k + 1
        PROVE  Chain(bs, x) \subseteq Ancestors[x]
    <3>1. bs[x] \in DOMAIN bs => Height(bs[x]) <= k
      BY <1>1, <1>2, <2>1
    <3> QED
      BY <1>3, <1>5, <3>1
  <2> QED
    BY <2>1
<1>6. Nat \subseteq K
  <2> HIDE DEF K
  <2> QED
    BY <1>4, <1>5, NumberInduction
<1> QED
  BY <1>1, <1>6

\* Every block above the height low has its previous block in memory.
Unbroken(bs, low) ==
    \A x \in DOMAIN bs : Height(x) > low => bs[x] = Prev(x) /\ Prev(x) \in DOMAIN bs

\* Then a chain has a block of every height down to low.
LEMMA ChainReaches ==
    ASSUME NEW bs, NEW low \in Int, Memory(bs), Unbroken(bs, low)
    PROVE  \A x \in DOMAIN bs : \A h \in low..Height(x) : \E y \in Chain(bs, x) : Height(y) = h
<1> DEFINE Reaches(x) == \A h \in low..Height(x) : \E y \in Chain(bs, x) : Height(y) = h
           K == {k \in Nat : \A x \in DOMAIN bs : Height(x) <= k => Reaches(x)}
<1>1. \A x \in DOMAIN bs : x \in Block /\ Height(x) \in Nat
  BY Heighted DEF Memory
<1>2. ASSUME NEW x \in DOMAIN bs, NEW h \in low..Height(x), h # Height(x)
      PROVE  /\ bs[x] = Prev(x) /\ bs[x] \in DOMAIN bs /\ Prev(x) \in Block
             /\ Height(x) = Height(bs[x]) + 1 /\ h \in low..Height(bs[x])
  <2>1. Height(x) > low
    BY <1>1, <1>2
  <2>2. bs[x] = Prev(x) /\ bs[x] \in DOMAIN bs
    BY <2>1 DEF Unbroken
  <2>3. bs[x] \in Block /\ Height(bs[x]) \in Nat /\ Height(x) = Height(bs[x]) + 1
    BY <1>1, <2>2, Heighted
  <2> QED
    BY <1>1, <1>2, <2>2, <2>3
<1>3. ASSUME NEW x \in DOMAIN bs, bs[x] \in DOMAIN bs => Height(x) # Height(bs[x]) + 1 \/ Reaches(bs[x])
      PROVE  Reaches(x)
  <2> SUFFICES ASSUME NEW h \in low..Height(x)
               PROVE  \E y \in Chain(bs, x) : Height(y) = h
    OBVIOUS
  <2>1. CASE h = Height(x)
    BY <2>1, ChainUnfolds
  <2>2. CASE h # Height(x)
    <3>1. bs[x] \in DOMAIN bs /\ Height(x) = Height(bs[x]) + 1 /\ h \in low..Height(bs[x])
      BY <1>2, <2>2
    <3>2. PICK y \in Chain(bs, bs[x]) : Height(y) = h
      BY <1>3, <3>1
    <3>3. y \in Chain(bs, x)
      BY <3>1, <3>2, ChainUnfolds
    <3> QED
      BY <3>2, <3>3
  <2> QED
    BY <2>1, <2>2
<1> HIDE DEF Reaches
<1>4. 0 \in K
  BY <1>1, <1>3
<1>5. ASSUME NEW k \in Nat, k \in K
      PROVE  k + 1 \in K
  <2>1. ASSUME NEW x \in DOMAIN bs, Height(x) <= k + 1
        PROVE  Reaches(x)
    <3>1. bs[x] \in DOMAIN bs => Height(x) # Height(bs[x]) + 1 \/ Reaches(bs[x])
      BY <1>1, <1>5, <2>1
    <3> QED
      BY <1>3, <3>1
  <2> QED
    BY <2>1
<1>6. Nat \subseteq K
  <2> HIDE DEF K
  <2> QED
    BY <1>4, <1>5, NumberInduction
<1>7. \A x \in DOMAIN bs : Reaches(x)
  BY <1>1, <1>6
<1> QED
  BY <1>7 DEF Reaches

-----------------------------------------------------------------------------
(* What changes the blocks in memory. *)

\* BRSetAdd
LEMMA AddBlockIs ==
    ASSUME NEW bs, NEW b
    PROVE  /\ DOMAIN AddBlock(bs, b) = DOMAIN bs \cup {b} /\ AddBlock(bs, b)[b] = Prev(b)
           /\ \A x \in DOMAIN bs : x # b => AddBlock(bs, b)[x] = bs[x]
  BY DEF AddBlock, Put, Prev

LEMMA AddMemory ==
    ASSUME NEW bs, NEW b \in Block, Memory(bs)
    PROVE  Memory(AddBlock(bs, b))
<1>1. PICK new : new = AddBlock(bs, b)
  OBVIOUS
<1>2. /\ DOMAIN new = DOMAIN bs \cup {b} /\ new[b] = Prev(b)
      /\ \A x \in DOMAIN bs : x # b => new[x] = bs[x]
  BY <1>1, AddBlockIs
<1>3. Memory(new)
  BY <1>2 DEF Memory
<1> QED
  BY <1>1, <1>3

LEMMA PrunedIs ==
    ASSUME NEW b
    PROVE  /\ DOMAIN Pruned(b) = DOMAIN blocks \ Spare(b)
           /\ \A x \in DOMAIN Pruned(b) : Pruned(b)[x] = blocks[x]
  BY DEF Pruned, Remove, Restrict

LEMMA PrunedMemory ==
    ASSUME NEW b, Memory(blocks)
    PROVE  Memory(Pruned(b))
  BY PrunedIs DEF Memory

\* An orphan is found by its prevBlock.
Waiting(os) == \A prev \in DOMAIN os : os[prev] \in Block /\ Prev(os[prev]) = prev

LEMMA AddOrphanIs ==
    ASSUME NEW os, NEW b \in Block, Waiting(os)
    PROVE  Waiting(AddOrphan(os, b))
  BY DEF AddOrphan, Put, Waiting, Prev

LEMMA RemoveWaiting ==
    ASSUME NEW os, NEW S, Waiting(os)
    PROVE  Waiting(Remove(os, S))
  BY DEF Remove, Restrict, Waiting

\* The blocks that follow a saved one.
LEMMA FollowIs ==
    ASSUME NEW os, NEW b \in Block, Waiting(os)
    PROVE  b \in Follow(os, b) /\ Follow(os, b) \subseteq Block
<1> DEFINE go == {x \in Block : x \in DOMAIN os}
           rank == [x \in Block |-> TX_UNCONFIRMED - Height(x)]
           F == CHOOSE f : f = [x \in Block |-> {x} \cup (IF x \in DOMAIN os THEN f[os[x]] ELSE {})]
<1>1. \A x \in go : os[x] \in Block /\ Height(os[x]) = Height(x) + 1
  BY Heighted DEF Waiting
<1>2. Ranked(os, Block, go, rank) /\ \A x \in Block : rank[x] <= TX_UNCONFIRMED
  BY <1>1, Heighted DEF Ranked
<1>3. \E f : f = [x \in Block |-> {x} \cup (IF x \in DOMAIN os THEN f[os[x]] ELSE {})]
  <2> HIDE DEF rank, go
  <2>1. PICK W : Walks(W, os, Block, go)
    BY <1>2, WalkExists, Heighted
  <2>2. W = [x \in Block |-> {x} \cup (IF x \in go THEN W[os[x]] ELSE {})]
    BY <2>1 DEF Walks
  <2>3. W = [x \in Block |-> {x} \cup (IF x \in DOMAIN os THEN W[os[x]] ELSE {})]
    BY <2>2 DEF go
  <2> QED
    BY <2>3, Zenon
<1>4. F = [x \in Block |-> {x} \cup (IF x \in DOMAIN os THEN F[os[x]] ELSE {})]
  BY <1>3
<1>5. Follow(os, b) = F[b]
  BY DEF Follow
<1> HIDE DEF F
<1>6. \A x \in Block : F[x] = {x} \cup (IF x \in DOMAIN os THEN F[os[x]] ELSE {})
  BY <1>4
<1> DEFINE K == {k \in Nat : \A x \in Block : rank[x] <= k => F[x] \subseteq Block}
<1> HIDE DEF rank
<1>7. 0 \in K
  <2>1. ASSUME NEW x \in Block, rank[x] <= 0
        PROVE  x \notin DOMAIN os
    BY <1>2, <2>1 DEF Ranked
  <2> QED
    BY <1>6, <2>1
<1>8. ASSUME NEW k \in Nat, k \in K
      PROVE  k + 1 \in K
  <2>1. ASSUME NEW x \in Block, rank[x] <= k + 1
        PROVE  F[x] \subseteq Block
    <3>1. x \in DOMAIN os => os[x] \in Block /\ rank[os[x]] <= k
      BY <1>2, <2>1 DEF Ranked
    <3> QED
      BY <1>6, <1>8, <3>1
  <2> QED
    BY <2>1
<1>9. Nat \subseteq K
  <2> HIDE DEF K
  <2> QED
    BY <1>7, <1>8, NumberInduction
<1>10. rank[b] \in Nat /\ rank[b] <= rank[b]
  BY <1>2 DEF Ranked
<1> QED
  BY <1>5, <1>6, <1>9, <1>10

\* A set of blocks has a highest.
LEMMA HighestIs ==
    ASSUME NEW S, S \subseteq Block, S # {}
    PROVE  /\ \E b \in S : \A x \in S : Height(x) <= Height(b)
           /\ Max({Height(x) : x \in S}) \in {Height(x) : x \in S}
           /\ \A x \in S : Height(x) <= Max({Height(y) : y \in S})
<1> DEFINE H == {Height(x) : x \in S}
<1>1. H \subseteq Nat /\ H # {} /\ \A n \in H : n <= TX_UNCONFIRMED
  BY Heighted
<1>2. Max(H) \in H /\ \A m \in H : m <= Max(H)
  <2> HIDE DEF H
  <2> QED
    BY <1>1, MaxIs, Heighted
<1> QED
  BY <1>2

-----------------------------------------------------------------------------
(* Types.  The chain and the connections, in two parts. *)

Callback == [cb : {"pingDone", "loadDone"}, peer : Peers \cup {NoPeer}]

Heights == {Height(b) : b \in Block} \cup {TX_UNCONFIRMED}

ChainOK ==
    /\ Memory(blocks) /\ Waiting(orphans)
    /\ lastBlock \in Block
    /\ estimatedHeight \in Nat
    /\ hand \in [Peers -> Block \cup {NoBlock}]
    /\ txHeight \in [Tx -> Heights]
    /\ saved \subseteq Block
    /\ bare \subseteq DOMAIN blocks

\* The download peer is connected, and what waits for a pong is one of the two callbacks.
LinkOK ==
    /\ app \in {"running", "nullBlock", "nullPeer"}
    /\ filter \in BOOLEAN
    /\ downloadPeer \in Peers \cup {NoPeer}
    /\ downloadPeer # NoPeer => downloadPeer \in Connected
    /\ peerLast \in [Peers -> Announced \cup {0}]
    /\ socket \in [Peers -> {"open", "closing", "closed"}]
    /\ needsUpdate \subseteq Connected
    /\ pongs \in [Peers -> Seq(Callback)]
    /\ \A p \in Peers : pongs[p] # <<>> => p \in Connected
    /\ outdated \subseteq Peers

IInv == ChainOK /\ LinkOK

LEMMA TypesFollow == IInv => TypeOK
  BY DEF IInv, ChainOK, LinkOK, TypeOK, Memory, Waiting, Prev, Heights

LEMMA InitTypes == Init => IInv
<1> SUFFICES ASSUME Init
             PROVE  IInv
  OBVIOUS
<1>1. ChainOK
  BY CheckpointAssumption DEF Init, ChainOK, Memory, Waiting, CheckpointBlocks, Heights
<1>2. <<>> \in Seq(Callback)
  OBVIOUS
<1>3. LinkOK
  BY <1>2 DEF Init, LinkOK
<1> QED
  BY <1>1, <1>3 DEF IInv

\* A waiting callback is answered, or another is added.
LEMMA PongsIs ==
    ASSUME NEW s \in Seq(Callback)
    PROVE  /\ s # <<>> => Tail(s) \in Seq(Callback) /\ Head(s) \in Callback
           /\ \A c \in Callback : Append(s, c) \in Seq(Callback) /\ s \o <<c>> \in Seq(Callback)
           /\ s \o <<>> \in Seq(Callback)
           /\ DOMAIN s = 1..Len(s) /\ Len(s) \in Nat /\ \A i \in DOMAIN s : s[i] \in Callback
  BY HeadTailProperties, AppendProperties, ConcatProperties, LenProperties, ElementOfSeq, EmptySeq

\* What the update of the filter leaves.
LEMMA UpdateFilterKeeps ==
    ASSUME LinkOK, UpdateFilter \/ UNCHANGED updateVars
    PROVE  /\ needsUpdate' \subseteq Connected
           /\ pongs' \in [Peers -> Seq(Callback)]
           /\ \A p \in Peers : pongs'[p] # <<>> => p \in Connected
<1>1. CASE UNCHANGED updateVars
  BY <1>1 DEF LinkOK, updateVars
<1>2. CASE UpdateFilter /\ ~(UNCHANGED updateVars)
  <2>1. /\ downloadPeer # NoPeer
        /\ needsUpdate' = needsUpdate \cup {downloadPeer}
        /\ pongs' = [pongs EXCEPT ![downloadPeer] = Append(@, [cb |-> "pingDone", peer |-> downloadPeer])]
    BY <1>2 DEF UpdateFilter
  <2>2. downloadPeer \in Peers /\ downloadPeer \in Connected
    BY <2>1 DEF LinkOK
  <2>3. PICK c \in Callback : c = [cb |-> "pingDone", peer |-> downloadPeer]
    BY <2>2 DEF Callback
  <2>4. Append(pongs[downloadPeer], c) \in Seq(Callback)
    BY <2>2, PongsIs DEF LinkOK
  <2> QED
    BY <2>1, <2>2, <2>3, <2>4 DEF LinkOK
<1> QED
  BY <1>1, <1>2

-----------------------------------------------------------------------------
(* The parts of _peerRelayedBlock. *)

LEMMA MaxOfTwo ==
    ASSUME NEW m \in Nat, NEW n \in Nat
    PROVE  Max({m, n}) \in Nat
<1>1. \E x \in {m, n} : \A y \in {m, n} : x >= y
  OBVIOUS
<1>2. Max({m, n}) \in {m, n}
  BY <1>1 DEF Max
<1> QED
  BY <1>2

LEMMA TakeNextKeeps ==
    ASSUME NEW p \in Peers, NEW b \in Block, NEW os, NEW old, ChainOK, Waiting(os), old \subseteq Peers,
           TakeNext(p, b, os, old)
    PROVE  /\ estimatedHeight' \in Nat /\ hand' \in [Peers -> Block \cup {NoBlock}]
           /\ Waiting(orphans') /\ outdated' \subseteq Peers
<1>1. estimatedHeight' \in Nat
  BY MaxOfTwo, Heighted DEF TakeNext, ChainOK
<1>2. hand' \in [Peers -> Block \cup {NoBlock}]
  BY DEF TakeNext, ChainOK, Waiting
<1>3. Waiting(orphans')
  BY RemoveWaiting DEF TakeNext
<1> QED
  BY <1>1, <1>2, <1>3 DEF TakeNext

LEMMA LoadMempoolsKeeps ==
    ASSUME NEW p \in Peers, NEW b \in Block, ChainOK, LinkOK, LoadMempools(p, b)
    PROVE  /\ estimatedHeight' \in Nat /\ hand' \in [Peers -> Block \cup {NoBlock}]
           /\ Waiting(orphans') /\ outdated' \subseteq Peers
<1>1. Waiting(orphans) /\ outdated \subseteq Peers
  BY DEF ChainOK, LinkOK
<1>2. Waiting(NoOrphans) /\ Holding \subseteq Peers
  BY DEF NoOrphans, Restrict, Waiting, Holding
<1> QED
  BY <1>1, <1>2, TakeNextKeeps DEF LoadMempools

LEMMA NothingNextKeeps ==
    ASSUME NEW p \in Peers, ChainOK, LinkOK, NothingNext(p)
    PROVE  /\ estimatedHeight' \in Nat /\ hand' \in [Peers -> Block \cup {NoBlock}]
           /\ outdated' \subseteq Peers
  BY DEF NothingNext, ChainOK, LinkOK

LEMMA SaveKeeps ==
    ASSUME NEW bs, NEW b \in DOMAIN bs, NEW count, Memory(bs), saved \subseteq Block, SaveBlocks(bs, b, count)
    PROVE  saved' \subseteq Block
<1>1. SaveSet(bs, b, count) \subseteq Chain(bs, b)
  BY DEF SaveSet
<1>2. Chain(bs, b) \subseteq Block
  BY ChainIn DEF Memory
<1> QED
  BY <1>1, <1>2 DEF SaveBlocks

LEMMA ConfirmKeeps ==
    ASSUME NEW hs \in [Tx -> Heights], NEW S \in SUBSET Block
    PROVE  Confirm(hs, S) \in [Tx -> Heights]
<1>1. ASSUME NEW t \in Tx, \E b \in S : t \in BlockData[b].txs
      PROVE  Height(CHOOSE b \in S : t \in BlockData[b].txs) \in Heights
  BY <1>1 DEF Heights
<1> QED
  BY <1>1 DEF Confirm

LEMMA UnconfirmKeeps ==
    ASSUME NEW h, txHeight \in [Tx -> Heights]
    PROVE  UnconfirmAfter(h) \in [Tx -> Heights]
  BY DEF UnconfirmAfter, Heights

\* What a branch has to keep.
BlocksOK ==
    /\ Memory(blocks) /\ Waiting(orphans)
    /\ lastBlock \in Block
    /\ estimatedHeight \in Nat
    /\ hand \in [Peers -> Block \cup {NoBlock}]
    /\ txHeight \in [Tx -> Heights]
    /\ saved \subseteq Block
    /\ outdated \subseteq Peers
    /\ app \in {"running", "nullBlock", "nullPeer"}

LEMMA BlocksTyped == IInv => BlocksOK
  BY DEF IInv, ChainOK, LinkOK, BlocksOK

LEMMA IgnoreTypes ==
    ASSUME NEW p \in Peers, NEW b \in Block, IInv, IgnoreBlock(p, b)
    PROVE  BlocksOK'
  BY NothingNextKeeps, BlocksTyped DEF IInv, IgnoreBlock, BlocksOK

LEMMA OrphanTypes ==
    ASSUME NEW p \in Peers, NEW b \in Block, IInv, OrphanBlock(p, b)
    PROVE  BlocksOK'
<1>1. Waiting(orphans')
  BY AddOrphanIs DEF OrphanBlock, IInv, ChainOK
<1> QED
  BY <1>1, NothingNextKeeps, BlocksTyped DEF IInv, OrphanBlock, BlocksOK

LEMMA InvalidTypes ==
    ASSUME NEW p \in Peers, NEW b \in Block, IInv, InvalidBlock(p, b)
    PROVE  BlocksOK'
<1>1. Memory(blocks')
  BY PrunedMemory DEF InvalidBlock, IInv, ChainOK
<1> QED
  BY <1>1, NothingNextKeeps, BlocksTyped DEF IInv, InvalidBlock, BlocksOK

LEMMA ExtendsTypes ==
    ASSUME NEW p \in Peers, NEW b \in Block, IInv, ExtendsMainChain(p, b)
    PROVE  BlocksOK'
<1>1. BlocksOK /\ ChainOK /\ LinkOK
  BY BlocksTyped DEF IInv
<1>2. Memory(blocks') /\ b \in DOMAIN blocks'
  BY <1>1, PrunedMemory, AddMemory, AddBlockIs DEF ExtendsMainChain, BlocksOK
<1>3. txHeight' \in [Tx -> Heights]
  BY <1>1, ConfirmKeeps DEF ExtendsMainChain, BlocksOK
<1>4. /\ saved' \subseteq Block
      /\ estimatedHeight' \in Nat /\ hand' \in [Peers -> Block \cup {NoBlock}]
      /\ Waiting(orphans') /\ outdated' \subseteq Peers
  <2>1. CASE Height(b) = estimatedHeight
    <3>1. LoadMempools(p, b) /\ SaveBlocks(blocks', b, FullCount(b))
      BY <2>1 DEF ExtendsMainChain
    <3> QED
      BY <1>1, <1>2, <3>1, LoadMempoolsKeeps, SaveKeeps DEF BlocksOK
  <2>2. CASE Height(b) # estimatedHeight
    <3>1. PICK count : TakeNext(p, b, orphans, outdated) /\ SaveBlocks(blocks', b, count)
      BY <2>2 DEF ExtendsMainChain
    <3> QED
      BY <1>1, <1>2, <3>1, TakeNextKeeps, SaveKeeps DEF BlocksOK
  <2> QED
    BY <2>1, <2>2
<1>5. lastBlock' = b /\ app' = app
  BY DEF ExtendsMainChain
<1> QED
  BY <1>1, <1>2, <1>3, <1>4, <1>5 DEF BlocksOK

LEMMA ExistingTypes ==
    ASSUME NEW p \in Peers, NEW b \in Block, IInv, ExistingBlock(p, b)
    PROVE  BlocksOK'
<1>1. BlocksOK /\ ChainOK /\ LinkOK
  BY BlocksTyped DEF IInv
<1> DEFINE main == {x \in Chain(Pruned(b), lastBlock) : Height(x) <= Height(b)}
<1>2. CASE main = {}
  BY <1>1, <1>2 DEF ExistingBlock, BlocksOK
<1>3. CASE main # {}
  <2>1. /\ txHeight' = IF b \in main THEN Confirm(txHeight, {b}) ELSE txHeight
        /\ blocks' = AddBlock(Pruned(b), b)
        /\ TakeNext(p, b, orphans, outdated)
        /\ UNCHANGED <<app, lastBlock, saved>>
    BY <1>3 DEF ExistingBlock
  <2> HIDE DEF main
  <2>2. Memory(blocks')
    BY <1>1, <2>1, PrunedMemory, AddMemory DEF BlocksOK
  <2>3. txHeight' \in [Tx -> Heights]
    BY <1>1, <2>1, ConfirmKeeps DEF BlocksOK
  <2>4. /\ estimatedHeight' \in Nat /\ hand' \in [Peers -> Block \cup {NoBlock}]
        /\ Waiting(orphans') /\ outdated' \subseteq Peers
    BY <1>1, <2>1, TakeNextKeeps DEF BlocksOK
  <2> QED
    BY <1>1, <2>1, <2>2, <2>3, <2>4 DEF BlocksOK
<1> QED
  BY <1>2, <1>3

LEMMA MinedTypes ==
    ASSUME NEW p \in Peers, NEW b \in Block, IInv, MinedDuringRescan(p, b)
    PROVE  BlocksOK'
<1>1. BlocksOK /\ ChainOK /\ LinkOK
  BY BlocksTyped DEF IInv
<1>2. Memory(blocks')
  BY <1>1, PrunedMemory DEF MinedDuringRescan, BlocksOK
<1>3. Waiting(AddOrphan(orphans, b))
  BY <1>1, AddOrphanIs DEF BlocksOK
<1>4. /\ estimatedHeight' \in Nat /\ hand' \in [Peers -> Block \cup {NoBlock}]
      /\ Waiting(orphans') /\ outdated' \subseteq Peers
  BY <1>1, <1>3, TakeNextKeeps DEF MinedDuringRescan, BlocksOK
<1> QED
  BY <1>1, <1>2, <1>4 DEF MinedDuringRescan, BlocksOK

LEMMA OldForkTypes ==
    ASSUME NEW p \in Peers, NEW b \in Block, IInv, IgnoreOldFork(p, b)
    PROVE  BlocksOK'
<1>1. Memory(blocks')
  BY PrunedMemory DEF IgnoreOldFork, IInv, ChainOK
<1> QED
  BY <1>1, NothingNextKeeps, BlocksTyped DEF IInv, IgnoreOldFork, BlocksOK

LEMMA ForkTypes ==
    ASSUME NEW p \in Peers, NEW b \in Block, IInv, ExtendFork(p, b)
    PROVE  BlocksOK'
<1>1. BlocksOK /\ ChainOK /\ LinkOK
  BY BlocksTyped DEF IInv
<1>2. Memory(blocks')
  BY <1>1, PrunedMemory, AddMemory DEF ExtendFork, BlocksOK
<1>3. /\ estimatedHeight' \in Nat /\ hand' \in [Peers -> Block \cup {NoBlock}]
      /\ Waiting(orphans') /\ outdated' \subseteq Peers
  BY <1>1, TakeNextKeeps DEF ExtendFork, BlocksOK
<1> QED
  BY <1>1, <1>2, <1>3 DEF ExtendFork, BlocksOK

LEMMA ReorganizeTypes ==
    ASSUME NEW p \in Peers, NEW b \in Block, IInv, Reorganize(p, b)
    PROVE  BlocksOK'
<1>1. BlocksOK /\ ChainOK /\ LinkOK
  BY BlocksTyped DEF IInv
<1>2. PICK bs : bs = AddBlock(Pruned(b), b)
  OBVIOUS
<1>3. PICK fork, main : fork = Chain(bs, b) /\ main = Chain(bs, lastBlock)
  OBVIOUS
<1>4. Memory(bs) /\ b \in DOMAIN bs
  <2>1. Memory(Pruned(b))
    BY <1>1, PrunedMemory DEF BlocksOK
  <2>2. Memory(AddBlock(Pruned(b), b)) /\ b \in DOMAIN AddBlock(Pruned(b), b)
    BY <2>1, AddMemory, AddBlockIs
  <2> QED
    BY <1>2, <2>2
<1>5. CASE JoinIsNull(fork, main)
  BY <1>1, <1>2, <1>3, <1>5 DEF Reorganize, BlocksOK
<1>6. CASE ~JoinIsNull(fork, main)
  <2>1. /\ blocks' = bs /\ ReorganizeTx(fork, main) /\ lastBlock' = b /\ app' = app
        /\ IF Height(b) = estimatedHeight
           THEN LoadMempools(p, b) /\ SaveBlocks(bs, b, FullCount(b))
           ELSE TakeNext(p, b, orphans, outdated) /\ UNCHANGED saved
    BY <1>2, <1>3, <1>6 DEF Reorganize
  <2>2. fork \subseteq Block
    BY <1>3, <1>4, ChainIn DEF Memory
  <2>3. txHeight' \in [Tx -> Heights]
    <3>1. \A h : UnconfirmAfter(h) \in [Tx -> Heights]
      BY <1>1, UnconfirmKeeps DEF BlocksOK
    <3>2. \A h : {x \in fork \ bare : Height(x) > h} \in SUBSET Block
      BY <2>2
    <3>3. \A h, i : Confirm(UnconfirmAfter(h), {x \in fork \ bare : Height(x) > i}) \in [Tx -> Heights]
      BY <3>1, <3>2, ConfirmKeeps
    <3>4. \E h, i : \/ txHeight' = Confirm(UnconfirmAfter(h), {x \in fork \ bare : Height(x) > i})
                   \/ txHeight' = UnconfirmAfter(h)
      BY <2>1 DEF ReorganizeTx
    <3> QED
      BY <3>1, <3>3, <3>4
  <2>4. /\ saved' \subseteq Block
        /\ estimatedHeight' \in Nat /\ hand' \in [Peers -> Block \cup {NoBlock}]
        /\ Waiting(orphans') /\ outdated' \subseteq Peers
    BY <1>1, <1>4, <2>1, LoadMempoolsKeeps, TakeNextKeeps, SaveKeeps DEF BlocksOK
  <2> QED
    BY <1>1, <1>4, <2>1, <2>3, <2>4 DEF BlocksOK
<1> QED
  BY <1>5, <1>6

\* Every branch, with what surrounds it.
LEMMA RelayedTypes ==
    ASSUME NEW p \in Peers, NEW b \in Block, IInv, PeerRelayedBlock(p, b)
    PROVE  IInv'
<1>1. BlocksOK'
  BY IgnoreTypes, OrphanTypes, InvalidTypes, ExtendsTypes, ExistingTypes, MinedTypes, OldForkTypes,
     ForkTypes, ReorganizeTypes DEF PeerRelayedBlock
<1>2. ChainOK'
  BY <1>1 DEF BlocksOK, ChainOK, PeerRelayedBlock
<1>3. socket' \in [Peers -> {"open", "closing", "closed"}]
  BY DEF PeerRelayedBlock, InvalidBlock, HandleMessage, IInv, LinkOK
<1>4. UNCHANGED <<filter, downloadPeer, peerLast>> /\ Connected' = Connected
  BY DEF PeerRelayedBlock, Connected
<1>5. /\ needsUpdate' \subseteq Connected
      /\ pongs' \in [Peers -> Seq(Callback)]
      /\ \A q \in Peers : pongs'[q] # <<>> => q \in Connected
  BY UpdateFilterKeeps DEF PeerRelayedBlock, DegradedFilter, IInv
<1>6. LinkOK'
  BY <1>1, <1>3, <1>4, <1>5 DEF IInv, LinkOK, BlocksOK
<1> QED
  BY <1>2, <1>6 DEF IInv

\* The tips and the blocks that peers relay are blocks.
LEMMA RelayableBlocks == Relayable \subseteq Block
<1>1. \A tip \in Tips : tip \in Block
  BY DEF Tips
<1>2. \A tip \in Tips : Ancestors[tip] \subseteq Block
  BY <1>1, AncestorsUnfold
<1> QED
  BY <1>2 DEF Relayable

LEMMA ChainUnchanged ==
    ASSUME ChainOK, UNCHANGED <<chainVars, orphans, hand>>
    PROVE  ChainOK'
  BY DEF ChainOK, chainVars

LEMMA NoneWait == Waiting(NoOrphans) /\ Holding \subseteq Peers
  BY DEF NoOrphans, Restrict, Waiting, Holding

LEMMA ResetFilterTypes ==
    ASSUME IInv, ResetFilter
    PROVE  IInv'
<1>1. ChainOK'
  BY ChainUnchanged DEF ResetFilter, IInv
<1>2. socket' \in [Peers -> {"open", "closing", "closed"}]
  BY DEF ResetFilter, HandleMessage, IInv, LinkOK
<1>3. UNCHANGED <<app, downloadPeer, peerLast, outdated>> /\ Connected' = Connected /\ filter' = FALSE
  BY DEF ResetFilter, Connected
<1>4. /\ needsUpdate' \subseteq Connected
      /\ pongs' \in [Peers -> Seq(Callback)]
      /\ \A q \in Peers : pongs'[q] # <<>> => q \in Connected
  BY UpdateFilterKeeps DEF ResetFilter, IInv
<1>5. LinkOK'
  BY <1>2, <1>3, <1>4 DEF IInv, LinkOK
<1> QED
  BY <1>1, <1>5 DEF IInv

\* The callbacks after an answer and new questions.
LEMMA AnsweredIs ==
    ASSUME NEW p \in Peers, NEW asked, LinkOK, pongs[p] # <<>>,
           DOMAIN asked \subseteq Connected, \A q \in DOMAIN asked : asked[q] \in Callback
    PROVE  /\ Answered(p, asked) \in [Peers -> Seq(Callback)]
           /\ \A q \in Peers : Answered(p, asked)[q] # <<>> => q \in Connected
<1> DEFINE rest(q) == IF q = p THEN Tail(pongs[q]) ELSE pongs[q]
           new(q) == IF q \in DOMAIN asked THEN <<asked[q]>> ELSE <<>>
<1>1. \A q \in Peers : pongs[q] \in Seq(Callback)
  BY DEF LinkOK
<1>2. \A q \in Peers : rest(q) \in Seq(Callback)
  BY <1>1, PongsIs
<1>3. \A q \in Peers : rest(q) \o new(q) \in Seq(Callback)
  BY <1>2, PongsIs
<1>4. p \in Connected
  BY DEF LinkOK
<1>5. ASSUME NEW q \in Peers, q \notin Connected
      PROVE  rest(q) \o new(q) = <<>>
  <2>1. rest(q) = <<>> /\ new(q) = <<>>
    BY <1>4, <1>5 DEF LinkOK
  <2> QED
    BY <2>1
<1>6. Answered(p, asked) = [q \in Peers |-> rest(q) \o new(q)]
  BY DEF Answered
<1> HIDE DEF rest, new
<1> QED
  BY <1>3, <1>5, <1>6

LEMMA PingDoneTypes ==
    ASSUME NEW p \in Peers, IInv, UpdateFilterPingDone(p)
    PROVE  IInv'
<1>1. /\ LinkOK /\ ChainOK /\ pongs[p] # <<>> /\ p \in Connected /\ pongs[p] \in Seq(Callback)
      /\ Head(pongs[p]) \in Callback /\ Tail(pongs[p]) \in Seq(Callback)
  BY PongsIs DEF IInv, LinkOK, UpdateFilterPingDone, Awaits, Reads
<1>2. Waiting(orphans') /\ outdated' \subseteq Peers /\ filter' \in BOOLEAN
  BY <1>1, NoneWait DEF UpdateFilterPingDone, LoadBloomFilter, LinkOK, ChainOK
<1>3. ChainOK'
  BY <1>1, <1>2 DEF UpdateFilterPingDone, ChainOK, chainVars
<1>4. socket' \in [Peers -> {"open", "closing", "closed"}]
  BY <1>1 DEF UpdateFilterPingDone, HandleMessage, LinkOK
<1>5. UNCHANGED <<app, needsUpdate, downloadPeer, peerLast>> /\ Connected' = Connected
  BY DEF UpdateFilterPingDone, Connected
<1>6. /\ pongs' \in [Peers -> Seq(Callback)]
      /\ \A q \in Peers : pongs'[q] # <<>> => q \in Connected
  <2>1. CASE pongs' = [pongs EXCEPT ![p] = Tail(@)]
    BY <1>1, <2>1 DEF LinkOK
  <2>2. CASE /\ downloadPeer # NoPeer
             /\ pongs' = Answered(p, [q \in {downloadPeer} |->
                                         [cb |-> "loadDone", peer |-> Head(pongs[p]).peer]])
    <3>1. PICK asked : asked = [q \in {downloadPeer} |-> [cb |-> "loadDone", peer |-> Head(pongs[p]).peer]]
      OBVIOUS
    <3>2. DOMAIN asked \subseteq Connected /\ \A q \in DOMAIN asked : asked[q] \in Callback
      BY <1>1, <2>2, <3>1 DEF LinkOK, Callback
    <3> QED
      BY <1>1, <2>2, <3>1, <3>2, AnsweredIs
  <2>3. CASE pongs' = Answered(p, [q \in Connected |-> [cb |-> "loadDone", peer |-> q]])
    <3>1. PICK asked : asked = [q \in Connected |-> [cb |-> "loadDone", peer |-> q]]
      OBVIOUS
    <3>2. DOMAIN asked \subseteq Connected /\ \A q \in DOMAIN asked : asked[q] \in Callback
      BY <3>1 DEF Connected, Callback
    <3> QED
      BY <1>1, <2>3, <3>1, <3>2, AnsweredIs
  <2> QED
    BY <2>1, <2>2, <2>3 DEF UpdateFilterPingDone
<1>7. LinkOK'
  BY <1>1, <1>2, <1>4, <1>5, <1>6 DEF LinkOK
<1> QED
  BY <1>3, <1>7 DEF IInv

LEMMA LoadDoneTypes ==
    ASSUME NEW p \in Peers, IInv, UpdateFilterLoadDone(p)
    PROVE  IInv'
<1>1. /\ LinkOK /\ ChainOK /\ pongs[p] # <<>> /\ p \in Connected
      /\ Tail(pongs[p]) \in Seq(Callback)
  BY PongsIs DEF IInv, LinkOK, UpdateFilterLoadDone, Awaits, Reads
<1>2. ChainOK'
  BY <1>1, ChainUnchanged DEF UpdateFilterLoadDone, filterVars
<1>3. socket' \in [Peers -> {"open", "closing", "closed"}]
  BY <1>1 DEF UpdateFilterLoadDone, HandleMessage, LinkOK
<1>4. /\ UNCHANGED <<filter, outdated, downloadPeer, peerLast>> /\ Connected' = Connected
      /\ needsUpdate' \subseteq needsUpdate /\ app' \in {app, "nullPeer"}
      /\ pongs' = [pongs EXCEPT ![p] = Tail(@)]
  BY DEF UpdateFilterLoadDone, Connected, filterVars
<1>5. LinkOK'
  BY <1>1, <1>3, <1>4 DEF LinkOK
<1> QED
  BY <1>2, <1>5 DEF IInv

LEMMA ConnectedTypes ==
    ASSUME NEW p \in Peers, NEW h \in Announced, IInv, PeerConnected(p, h)
    PROVE  IInv'
<1>1. /\ LinkOK /\ ChainOK /\ p \notin Connected /\ peerLast' = [peerLast EXCEPT ![p] = h]
      /\ UNCHANGED <<app, blocks, lastBlock, hand, txHeight, saved, bare, needsUpdate, pongs>>
  BY DEF IInv, PeerConnected, updateVars
<1>2. h \in Nat /\ h > 0 /\ Announced \subseteq Nat
  BY NumberAssumption
<1>3. peerLast' \in [Peers -> Announced \cup {0}] /\ Connected' = Connected \cup {p}
  BY <1>1, <1>2 DEF LinkOK, Connected
<1>4. /\ Waiting(orphans') /\ outdated' \subseteq Peers /\ filter' \in BOOLEAN
  BY <1>1, NoneWait DEF PeerConnected, LoadBloomFilter, ChainOK, LinkOK
<1>5. /\ socket' \in [Peers -> {"open", "closing", "closed"}]
      /\ downloadPeer' \in Peers \cup {NoPeer} /\ (downloadPeer' # NoPeer => downloadPeer' \in Connected')
      /\ estimatedHeight' \in Nat
  <2>1. CASE StickWithDownloadPeer(h)
    <3>1. socket' = [socket EXCEPT ![p] = "open"] /\ UNCHANGED <<downloadPeer, estimatedHeight>>
      BY <2>1 DEF PeerConnected
    <3> QED
      BY <1>1, <1>3, <3>1 DEF LinkOK, ChainOK
  <2>2. CASE ~StickWithDownloadPeer(h)
    <3>1. PICK d \in Connected \cup {p} : downloadPeer' = d /\ estimatedHeight' = peerLast'[d]
      BY <2>2 DEF PeerConnected
    <3>2. socket' = [q \in Peers |-> IF q = p THEN "open"
                                     ELSE IF q = downloadPeer THEN Disconnect(q) ELSE socket[q]]
      BY <2>2 DEF PeerConnected
    <3>3. d \in Peers
      BY DEF Connected
    <3>4. estimatedHeight' \in Nat
      BY <1>2, <1>3, <3>1, <3>3
    <3>5. \A q \in Peers : Disconnect(q) \in {"open", "closing", "closed"}
      BY <1>1 DEF Disconnect, LinkOK
    <3>6. socket' \in [Peers -> {"open", "closing", "closed"}]
      BY <1>1, <3>2, <3>5 DEF LinkOK
    <3> QED
      BY <1>3, <3>1, <3>3, <3>4, <3>6
  <2> QED
    BY <2>1, <2>2
<1>6. ChainOK'
  BY <1>1, <1>4, <1>5 DEF ChainOK
<1>7. LinkOK'
  BY <1>1, <1>3, <1>4, <1>5 DEF LinkOK
<1> QED
  BY <1>6, <1>7 DEF IInv

LEMMA DisconnectedTypes ==
    ASSUME NEW p \in Peers, IInv, PeerDisconnected(p)
    PROVE  IInv'
<1>1. /\ LinkOK /\ ChainOK /\ peerLast' = [peerLast EXCEPT ![p] = 0]
      /\ downloadPeer' = (IF downloadPeer = p THEN NoPeer ELSE downloadPeer)
      /\ socket' = [socket EXCEPT ![p] = "closed"] /\ needsUpdate' = needsUpdate \ {p}
      /\ UNCHANGED <<app, filter, outdated>>
  BY DEF IInv, PeerDisconnected, filterVars
<1>2. ChainOK'
  BY ChainUnchanged DEF PeerDisconnected, filterVars, IInv
<1>3. peerLast' \in [Peers -> Announced \cup {0}] /\ Connected' = Connected \ {p}
  BY <1>1 DEF LinkOK, Connected
<1> DEFINE other(c) == IF c.peer = p THEN [c EXCEPT !.peer = NoPeer] ELSE c
           new(q) == [i \in DOMAIN pongs[q] |-> other(pongs[q][i])]
<1>4. \A c \in Callback : other(c) \in Callback
  BY DEF Callback
<1>5. pongs' = [q \in Peers |-> IF q = p THEN <<>> ELSE new(q)]
  BY DEF PeerDisconnected
<1>6. ASSUME NEW q \in Peers
      PROVE  new(q) \in Seq(Callback) /\ (pongs[q] = <<>> => new(q) = <<>>)
  <2>1. pongs[q] \in Seq(Callback)
    BY <1>1 DEF LinkOK
  <2>2. /\ DOMAIN pongs[q] = 1..Len(pongs[q]) /\ Len(pongs[q]) \in Nat
        /\ \A i \in DOMAIN pongs[q] : pongs[q][i] \in Callback
    BY <2>1, PongsIs
  <2>3. \A i \in 1..Len(pongs[q]) : other(pongs[q][i]) \in Callback
    BY <1>4, <2>2
  <2> HIDE DEF other
  <2>4. new(q) \in Seq(Callback)
    BY <2>2, <2>3, IsASeq
  <2>5. ASSUME pongs[q] = <<>>
        PROVE  new(q) = <<>>
    <3>1. Len(new(q)) = 0
      BY <2>2, <2>5
    <3> QED
      BY <2>4, <3>1, EmptySeq
  <2> QED
    BY <2>4, <2>5
<1> HIDE DEF new
<1>7. <<>> \in Seq(Callback)
  OBVIOUS
<1>8. /\ pongs' \in [Peers -> Seq(Callback)]
      /\ \A q \in Peers : pongs'[q] # <<>> => q \in Connected'
  BY <1>1, <1>3, <1>5, <1>6, <1>7 DEF LinkOK
<1>9. LinkOK'
  BY <1>1, <1>3, <1>8 DEF LinkOK
<1> QED
  BY <1>2, <1>9 DEF IInv

LEMMA RescanTypes ==
    ASSUME IInv, BRPeerManagerRescan
    PROVE  IInv'
<1>1. /\ LinkOK /\ ChainOK /\ app' \in {app, "nullBlock"} /\ lastBlock' \in {lastBlock, StartBlock}
      /\ UNCHANGED <<blocks, estimatedHeight, txHeight, saved, bare, filter, orphans, outdated, needsUpdate, pongs,
                     downloadPeer, peerLast, hand>>
  BY DEF IInv, BRPeerManagerRescan, filterVars, updateVars
<1>2. ChainOK'
  BY <1>1, CheckpointAssumption DEF ChainOK
<1>3. socket' \in [Peers -> {"open", "closing", "closed"}]
  BY <1>1 DEF BRPeerManagerRescan, Disconnect, LinkOK
<1>4. LinkOK'
  BY <1>1, <1>3 DEF LinkOK, Connected
<1> QED
  BY <1>2, <1>4 DEF IInv

\* The orphans that a start makes of the saved blocks.
LEMMA SavedOrphansIs ==
    ASSUME saved \subseteq Block, NEW os \in SavedOrphans
    PROVE  Waiting(os)
<1>1. PICK prevs : prevs = {BlockData[b].prev : b \in saved}
  OBVIOUS
<1>2. PICK S \in SUBSET saved : /\ prevs = {BlockData[b].prev : b \in S}
                                /\ os = [prev \in prevs |-> CHOOSE b \in S : BlockData[b].prev = prev]
  BY <1>1 DEF SavedOrphans
<1>3. ASSUME NEW prev \in prevs
      PROVE  os[prev] \in Block /\ BlockData[os[prev]].prev = prev
  <2>1. \E b \in S : BlockData[b].prev = prev
    BY <1>2
  <2> QED
    BY <1>2, <2>1
<1> QED
  BY <1>2, <1>3 DEF Waiting, Prev

LEMMA NewTypes ==
    ASSUME IInv, BRPeerManagerNew
    PROVE  IInv'
<1>1. saved \subseteq Block /\ txHeight \in [Tx -> Heights] /\ UNCHANGED <<txHeight, saved>>
  BY DEF IInv, ChainOK, BRPeerManagerNew
<1>2. PICK os \in SavedOrphans :
          \/ /\ blocks' = CheckpointBlocks /\ lastBlock' = StartBlock /\ orphans' = os /\ bare' = {}
          \/ \E first \in LastTransition :
                /\ blocks' = [b \in Follow(os, first) \cup Checkpoints |->
                                 IF b \in Follow(os, first) THEN BlockData[b].prev ELSE NoBlock]
                /\ lastBlock' = CHOOSE b \in Follow(os, first) :
                                    \A x \in Follow(os, first) : Height(x) <= Height(b)
                /\ orphans' = Remove(os, {BlockData[b].prev : b \in Follow(os, first)})
                /\ bare' = {b \in Follow(os, first) : BlockData[b].txs # {}}
  BY DEF BRPeerManagerNew
<1>3. Waiting(os)
  BY <1>1, SavedOrphansIs
<1>4. Memory(blocks') /\ Waiting(orphans') /\ lastBlock' \in Block /\ bare' \subseteq DOMAIN blocks'
  <2>1. CASE blocks' = CheckpointBlocks /\ lastBlock' = StartBlock /\ orphans' = os /\ bare' = {}
    BY <1>3, <2>1, CheckpointAssumption DEF Memory, CheckpointBlocks
  <2>2. ASSUME NEW first \in LastTransition, NEW chain, chain = Follow(os, first),
               blocks' = [b \in chain \cup Checkpoints |-> IF b \in chain THEN BlockData[b].prev ELSE NoBlock],
               lastBlock' = CHOOSE b \in chain : \A x \in chain : Height(x) <= Height(b),
               orphans' = Remove(os, {BlockData[b].prev : b \in chain}),
               bare' = {b \in chain : BlockData[b].txs # {}}
        PROVE  Memory(blocks') /\ Waiting(orphans') /\ lastBlock' \in Block /\ bare' \subseteq DOMAIN blocks'
    <3>1. first \in Block
      BY <1>1 DEF LastTransition
    <3>2. first \in chain /\ chain \subseteq Block
      BY <1>3, <2>2, <3>1, FollowIs
    <3>3. lastBlock' \in Block
      BY <2>2, <3>2, HighestIs
    <3>4. Memory(blocks')
      BY <2>2, <3>2, CheckpointAssumption DEF Memory, Prev
    <3> QED
      BY <1>3, <2>2, <3>3, <3>4, RemoveWaiting
  <2> QED
    BY <1>2, <2>1, <2>2
<1>5. ChainOK'
  BY <1>1, <1>4 DEF ChainOK, BRPeerManagerNew, NoConnections
<1>6. <<>> \in Seq(Callback)
  OBVIOUS
<1>7. LinkOK'
  BY <1>6 DEF LinkOK, BRPeerManagerNew, NoConnections
<1> QED
  BY <1>5, <1>7 DEF IInv

LEMMA HandTypes ==
    ASSUME NEW p \in Peers, IInv, hand[p] # NoBlock
    PROVE  hand[p] \in Block
  BY DEF IInv, ChainOK

LEMMA NextTypes ==
    ASSUME IInv, [Next]_vars
    PROVE  IInv'
<1>1. ASSUME NEW p \in Peers, NEW b \in Relayable, Deliver(p, b)
      PROVE  IInv'
  BY <1>1, RelayableBlocks, RelayedTypes DEF Deliver
<1>2. ASSUME NEW p \in Peers, RelayNext(p)
      PROVE  IInv'
  BY <1>2, HandTypes, RelayedTypes DEF RelayNext
<1>3. CASE UNCHANGED vars
  BY <1>3 DEF vars, chainVars, filterVars, updateVars, IInv, ChainOK, LinkOK, Connected
<1> QED
  BY <1>1, <1>2, <1>3, ResetFilterTypes, PingDoneTypes, LoadDoneTypes, ConnectedTypes, DisconnectedTypes,
     RescanTypes, NewTypes DEF Next

LEMMA TypesHold == Spec => []IInv
<1>1. Init => IInv
  BY InitTypes
<1>2. IInv /\ [Next]_vars => IInv'
  BY NextTypes
<1> QED
  BY <1>1, <1>2, PTL DEF Spec

(***************************************************************************)
(* Every variable keeps its type, for any block tree, checkpoints, peers   *)
(* and bounds, through reorganisations, rescans and restarts: each block   *)
(* in memory has its own prevBlock or none, an orphan is found under its   *)
(* prevBlock, the tip is a block, also when a start takes it from the      *)
(* saved blocks, and no callback waits for a peer that is gone.            *)
(***************************************************************************)
THEOREM TypeCorrect == Spec => []TypeOK
  BY TypesHold, TypesFollow, PTL

-----------------------------------------------------------------------------
(***************************************************************************)
(* What is in memory.  Two conditions on the constants: the wallet starts  *)
(* at the last checkpoint, as a new one does, and no transition is so far  *)
(* above it, and below DGW_START_BLOCK, that blocks above it are freed.    *)
(***************************************************************************)
StartHeight == Height(StartBlock)

StartsLast == \A c \in Checkpoints : c = StartBlock \/ Height(c) < StartHeight

FreesNothing ==
    \A b \in Block : \/ Height(b) >= DGW_START_BLOCK \/ ~AtTransition(b)
                     \/ Height(b) <= StartHeight + BLOCK_DIFFICULTY_INTERVAL

\* One run of the app, in which the user does not rescan unless nothing is freed.
OneRun == Restarts = FALSE /\ StartsLast /\ (Rescans = FALSE \/ FreesNothing)

\* Down to this height nothing is freed while tip is the tip.
Low(tip) ==
    IF FreesNothing \/ Height(tip) + 1 - BLOCK_DIFFICULTY_INTERVAL < StartHeight
    THEN StartHeight ELSE Height(tip) + 1 - BLOCK_DIFFICULTY_INTERVAL

\* From the tip and from every fork the walk back gets there; below the start are checkpoints only.
Sound(bs, tip) ==
    /\ tip \in DOMAIN bs /\ Height(tip) >= StartHeight
    /\ Unbroken(bs, Low(tip))
    /\ \A x \in DOMAIN bs : Height(x) = StartHeight => x = StartBlock
    /\ \A x \in DOMAIN bs : Height(x) < StartHeight => x \in Checkpoints
    /\ FreesNothing => StartBlock \in DOMAIN bs
    /\ ~FreesNothing => \A x \in DOMAIN bs : Height(x) <= Height(tip)

LEMMA Started ==
    /\ StartBlock \in Block /\ StartHeight \in Nat /\ Checkpoints \subseteq Block
    /\ BLOCK_DIFFICULTY_INTERVAL \in Nat /\ BLOCK_DIFFICULTY_INTERVAL > 0
  BY CheckpointAssumption, NumberAssumption, Heighted DEF StartHeight

LEMMA LowIs ==
    ASSUME NEW tip \in Block, Height(tip) >= StartHeight
    PROVE  /\ Low(tip) \in Nat /\ Low(tip) >= StartHeight /\ Low(tip) <= Height(tip)
           /\ FreesNothing => Low(tip) = StartHeight
           /\ ~FreesNothing => Low(tip) >= Height(tip) + 1 - BLOCK_DIFFICULTY_INTERVAL
  BY Started, Heighted DEF Low

LEMMA LowRises ==
    ASSUME NEW t \in Block, NEW u \in Block, StartHeight <= Height(t), Height(t) <= Height(u)
    PROVE  Low(t) <= Low(u)
  BY Started, Heighted DEF Low

LEMMA IntervalIs ==
    ASSUME NEW b \in Block
    PROVE  Interval(b) \in Nat /\ Interval(b) >= 1 /\ (Height(b) < DGW_START_BLOCK => Interval(b) = BLOCK_DIFFICULTY_INTERVAL)
  BY Started DEF Interval

\* What is freed is below the height that matters, and so far below the block that it is not its
\* prevBlock.
LEMMA SpareIsLow ==
    ASSUME NEW b \in Block, Memory(blocks), Sound(blocks, lastBlock), HasPrev(b), NEW x \in Spare(b)
    PROVE  Height(x) < Low(lastBlock) /\ Height(x) < Height(b) - 1
<1>1. Prev(b) \in DOMAIN blocks
  BY DEF HasPrev, Prev
<1>2. /\ AtTransition(b) /\ x \in Before(b)
      /\ Height(x) < Height(b) - Interval(b) /\ Height(x) % Interval(b) # 0
  BY DEF Spare
<1>3. Before(b) = Chain(blocks, Prev(b))
  BY DEF Before, Prev
<1>4. x \in DOMAIN blocks
  BY <1>1, <1>2, <1>3, ChainIn
<1>5. x \in Block /\ Height(x) \in Nat /\ Height(b) \in Nat /\ Prev(b) \in Block /\ lastBlock \in Block
  BY <1>1, <1>4, Heighted DEF Memory, Sound
<1>6. Interval(b) \in Nat /\ Interval(b) # 1 /\ Interval(b) >= 1
  <2>1. Height(x) % 1 = 0
    BY <1>5
  <2> QED
    BY <1>2, <2>1, IntervalIs
<1>7. Interval(b) = BLOCK_DIFFICULTY_INTERVAL /\ ~(Height(b) >= DGW_START_BLOCK)
  BY <1>5, <1>6, NumberAssumption DEF Interval
<1>8. Height(lastBlock) \in Nat /\ Height(lastBlock) >= StartHeight
  BY <1>5, Heighted DEF Sound
<1>9. Height(x) < Low(lastBlock)
  <2>1. CASE FreesNothing
    <3>1. Height(b) <= StartHeight + BLOCK_DIFFICULTY_INTERVAL
      BY <1>2, <1>7, <2>1 DEF FreesNothing
    <3>2. Low(lastBlock) = StartHeight
      BY <1>5, <1>8, <2>1, LowIs
    <3> QED
      BY <1>2, <1>5, <1>7, <3>1, <3>2, Started
  <2>2. CASE ~FreesNothing
    <3>1. Height(Prev(b)) <= Height(lastBlock) /\ Height(b) = Height(Prev(b)) + 1 /\ Height(Prev(b)) \in Nat
      BY <1>1, <1>5, <2>2, Heighted DEF Sound
    <3>2. Low(lastBlock) >= Height(lastBlock) + 1 - BLOCK_DIFFICULTY_INTERVAL /\ Low(lastBlock) \in Nat
      BY <1>5, <1>8, <2>2, LowIs
    <3> QED
      BY <1>2, <1>5, <1>7, <1>8, <3>1, <3>2, Started
  <2> QED
    BY <2>1, <2>2
<1> QED
  BY <1>2, <1>5, <1>6, <1>9

\* Verifying a block frees nothing that matters.
LEMMA PrunedSound ==
    ASSUME NEW b \in Block, Memory(blocks), Sound(blocks, lastBlock), HasPrev(b)
    PROVE  /\ Sound(Pruned(b), lastBlock) /\ Prev(b) \in DOMAIN Pruned(b)
           /\ b \in DOMAIN blocks => b \in DOMAIN Pruned(b)
<1>1. PICK bs : bs = Pruned(b)
  OBVIOUS
<1>2. DOMAIN bs = DOMAIN blocks \ Spare(b) /\ \A x \in DOMAIN bs : bs[x] = blocks[x]
  BY <1>1, PrunedIs
<1>3. \A x \in Spare(b) : Height(x) < Low(lastBlock) /\ Height(x) < Height(b) - 1
  BY SpareIsLow
<1>4. Prev(b) \in DOMAIN blocks /\ Prev(b) \in Block /\ Height(b) \in Nat /\ Height(Prev(b)) = Height(b) - 1
  BY Heighted DEF HasPrev, Prev, Memory
<1>5. /\ lastBlock \in DOMAIN blocks /\ lastBlock \in Block
      /\ Height(lastBlock) \in Nat /\ Height(lastBlock) >= StartHeight
  BY Heighted DEF Sound, Memory
<1>6. Low(lastBlock) \in Nat /\ Low(lastBlock) <= Height(lastBlock) /\ (FreesNothing => Low(lastBlock) = StartHeight)
  BY <1>5, LowIs
<1>7. Prev(b) \notin Spare(b) /\ b \notin Spare(b) /\ lastBlock \notin Spare(b)
  BY <1>3, <1>4, <1>5, <1>6
<1>8. FreesNothing => StartBlock \notin Spare(b)
  BY <1>3, <1>6, Started DEF StartHeight
<1>9. ASSUME NEW x \in DOMAIN bs, Height(x) > Low(lastBlock)
      PROVE  bs[x] = Prev(x) /\ Prev(x) \in DOMAIN bs
  <2>1. x \in Block /\ Height(x) \in Nat /\ bs[x] = blocks[x] /\ x \in DOMAIN blocks
    BY <1>2, Heighted DEF Memory
  <2>2. blocks[x] = Prev(x) /\ Prev(x) \in DOMAIN blocks
    BY <1>9, <2>1 DEF Sound, Unbroken
  <2>3. Prev(x) \in Block /\ Height(Prev(x)) \in Nat /\ Height(x) = Height(Prev(x)) + 1
    BY <2>1, <2>2, Heighted DEF Memory
  <2>4. Prev(x) \notin Spare(b)
    BY <1>3, <1>6, <1>9, <2>1, <2>3
  <2> QED
    BY <1>2, <2>1, <2>2, <2>4
<1>10. Unbroken(bs, Low(lastBlock))
  BY <1>9 DEF Unbroken
<1>11. Sound(bs, lastBlock)
  BY <1>2, <1>5, <1>7, <1>8, <1>10 DEF Sound
<1> QED
  BY <1>1, <1>2, <1>4, <1>7, <1>11

\* A block is added, and is the tip from now on or not.
LEMMA AddSound ==
    ASSUME NEW bs, NEW tip, NEW new, NEW b \in Block, Memory(bs), Sound(bs, tip), Prev(b) \in DOMAIN bs,
           new = tip \/ (new = b /\ Height(tip) < Height(b)),
           FreesNothing \/ Height(b) <= Height(new),
           \A c \in Checkpoints : Height(c) = Height(b) => c = b,
           Height(b) > StartHeight \/ b \in DOMAIN bs
    PROVE  Sound(AddBlock(bs, b), new)
<1>1. PICK cs : cs = AddBlock(bs, b)
  OBVIOUS
<1>2. /\ DOMAIN cs = DOMAIN bs \cup {b} /\ cs[b] = Prev(b)
      /\ \A x \in DOMAIN bs : x # b => cs[x] = bs[x]
  BY <1>1, AddBlockIs
<1>3. /\ tip \in Block /\ Height(tip) \in Nat /\ Height(b) \in Nat /\ Height(tip) >= StartHeight
      /\ new \in Block /\ Height(new) \in Nat /\ Height(new) >= Height(tip)
  BY Heighted DEF Sound, Memory
<1>4. Low(tip) <= Low(new) /\ Low(tip) \in Nat /\ Low(new) \in Nat
  BY <1>3, LowIs, LowRises, Started
<1>5. ASSUME NEW x \in DOMAIN cs, Height(x) > Low(new)
      PROVE  cs[x] = Prev(x) /\ Prev(x) \in DOMAIN cs
  <2>1. CASE x = b
    BY <1>2, <2>1
  <2>2. CASE x # b
    <3>1. x \in DOMAIN bs /\ cs[x] = bs[x] /\ Height(x) \in Nat
      BY <1>2, <2>2, Heighted DEF Memory
    <3>2. Height(x) > Low(tip)
      BY <1>4, <1>5, <3>1
    <3> QED
      BY <1>2, <3>1, <3>2 DEF Sound, Unbroken
  <2> QED
    BY <2>1, <2>2
<1>6. Unbroken(cs, Low(new))
  BY <1>5 DEF Unbroken
<1>7. Height(b) = StartHeight => b = StartBlock
  BY CheckpointAssumption DEF StartHeight
<1>8. Height(b) < StartHeight => b \in Checkpoints
  BY <1>3, Started DEF Sound
<1>9. \A x \in DOMAIN bs : Height(x) \in Nat /\ x \in Block
  BY Heighted DEF Memory
<1>10. ~FreesNothing => \A x \in DOMAIN cs : Height(x) <= Height(new)
  BY <1>2, <1>3, <1>9 DEF Sound
<1>11. new \in DOMAIN cs
  BY <1>2 DEF Sound
<1>12. Sound(cs, new)
  BY <1>2, <1>3, <1>6, <1>7, <1>8, <1>10, <1>11, Started DEF Sound
<1> QED
  BY <1>1, <1>12

-----------------------------------------------------------------------------
(* Memory stays sound. *)

Kept == Sound(blocks, lastBlock) /\ bare = {}

LEMMA InitKept ==
    ASSUME StartsLast, Init
    PROVE  Kept
<1>1. DOMAIN blocks = Checkpoints /\ lastBlock = StartBlock /\ bare = {}
  BY DEF Init, CheckpointBlocks
<1>2. \A x \in Checkpoints : x \in Block /\ Height(x) \in Nat /\ (x = StartBlock \/ Height(x) < StartHeight)
  BY Started, Heighted DEF StartsLast
<1>3. StartHeight = Height(StartBlock) /\ StartHeight \in Nat /\ StartBlock \in Block
  BY Started DEF StartHeight
<1>4. Low(StartBlock) \in Nat /\ Low(StartBlock) >= StartHeight
  BY <1>3, LowIs
<1>5. Unbroken(blocks, Low(lastBlock))
  BY <1>1, <1>2, <1>3, <1>4 DEF Unbroken
<1>6. Sound(blocks, lastBlock)
  BY <1>1, <1>2, <1>3, <1>5, CheckpointAssumption DEF Sound
<1> QED
  BY <1>1, <1>6 DEF Kept

\* Of a block that is accepted.
LEMMA AcceptedIs ==
    ASSUME NEW b \in Block, IInv, Kept, Accepted(b)
    PROVE  /\ Memory(blocks) /\ Sound(blocks, lastBlock) /\ HasPrev(b)
           /\ Memory(Pruned(b)) /\ Sound(Pruned(b), lastBlock) /\ Prev(b) \in DOMAIN Pruned(b)
           /\ b \in DOMAIN blocks => b \in DOMAIN Pruned(b)
           /\ \A c \in Checkpoints : Height(c) = Height(b) => c = b
           /\ lastBlock \in Block /\ Height(lastBlock) \in Nat /\ Height(lastBlock) >= StartHeight
           /\ Height(b) \in Nat /\ StartHeight \in Nat
<1>1. Memory(blocks) /\ Sound(blocks, lastBlock) /\ HasPrev(b) /\ lastBlock \in Block
  BY DEF IInv, ChainOK, Kept, Accepted
<1>2. Memory(Pruned(b)) /\ Sound(Pruned(b), lastBlock) /\ Prev(b) \in DOMAIN Pruned(b)
  BY <1>1, PrunedMemory, PrunedSound
<1>3. b \in DOMAIN blocks => b \in DOMAIN Pruned(b)
  BY <1>1, PrunedSound
<1>4. \A c \in Checkpoints : Height(c) = Height(b) => c = b
  BY DEF Accepted, Verified
<1> QED
  BY <1>1, <1>2, <1>3, <1>4, Heighted, Started DEF Sound

LEMMA ExtendsKeeps ==
    ASSUME NEW p \in Peers, NEW b \in Block, IInv, Kept, ExtendsMainChain(p, b)
    PROVE  Sound(blocks', lastBlock')
<1>1. Accepted(b) /\ Prev(b) = lastBlock /\ blocks' = AddBlock(Pruned(b), b) /\ lastBlock' = b
  BY DEF ExtendsMainChain, Prev
<1>2. Height(b) = Height(lastBlock) + 1
  BY <1>1, AcceptedIs, Heighted
<1>3. Height(lastBlock) < Height(b) /\ Height(b) <= Height(b) /\ Height(b) > StartHeight
  BY <1>1, <1>2, AcceptedIs
<1>4. Sound(AddBlock(Pruned(b), b), b)
  BY <1>1, <1>3, AcceptedIs, AddSound
<1> QED
  BY <1>1, <1>4

LEMMA ExistingKeeps ==
    ASSUME NEW p \in Peers, NEW b \in Block, IInv, Kept, ExistingBlock(p, b)
    PROVE  Sound(blocks', lastBlock') /\ lastBlock' = lastBlock
<1>1. CASE UNCHANGED <<blocks, lastBlock>>
  BY <1>1 DEF Kept
<1>2. CASE blocks' = AddBlock(Pruned(b), b) /\ lastBlock' = lastBlock
  <2>1. Accepted(b) /\ b \in DOMAIN blocks
    BY DEF ExistingBlock
  <2>2. FreesNothing \/ Height(b) <= Height(lastBlock)
    BY <2>1 DEF Kept, Sound
  <2>3. Sound(AddBlock(Pruned(b), b), lastBlock)
    BY <2>1, <2>2, AcceptedIs, AddSound
  <2> QED
    BY <1>2, <2>3
<1> QED
  BY <1>1, <1>2 DEF ExistingBlock

\* Above all checkpoints.
LEMMA NotOldIs ==
    ASSUME NEW b \in Block, ~OldFork(b)
    PROVE  Height(b) > StartHeight
  BY CheckpointAssumption, Heighted, Started DEF OldFork, StartHeight

LEMMA ForkKeeps ==
    ASSUME NEW p \in Peers, NEW b \in Block, IInv, Kept, ExtendFork(p, b)
    PROVE  Sound(blocks', lastBlock') /\ lastBlock' = lastBlock
<1>1. Accepted(b) /\ blocks' = AddBlock(Pruned(b), b) /\ lastBlock' = lastBlock /\ ~OldFork(b) /\ ~Longer(b)
  BY DEF ExtendFork, NewOnFork
<1>2. Height(b) > StartHeight
  BY <1>1, NotOldIs
<1>3. Height(b) <= Height(lastBlock)
  BY <1>1, AcceptedIs DEF Longer
<1>4. Sound(AddBlock(Pruned(b), b), lastBlock)
  BY <1>1, <1>2, <1>3, AcceptedIs, AddSound
<1> QED
  BY <1>1, <1>4

\* The blocks in which a reorganisation looks for the join.
LEMMA ReorganizeSound ==
    ASSUME NEW p \in Peers, NEW b \in Block, IInv, Kept, Reorganize(p, b)
    PROVE  /\ Memory(AddBlock(Pruned(b), b)) /\ Sound(AddBlock(Pruned(b), b), b)
           /\ Height(b) > Height(lastBlock) /\ Height(b) > StartHeight
           /\ lastBlock \in DOMAIN AddBlock(Pruned(b), b) /\ b \in DOMAIN AddBlock(Pruned(b), b)
           /\ lastBlock \in Block /\ b \notin DOMAIN blocks
           /\ Unbroken(AddBlock(Pruned(b), b), Low(lastBlock))
<1>1. Accepted(b) /\ ~OldFork(b) /\ Longer(b) /\ b \notin DOMAIN blocks
  BY DEF Reorganize, NewOnFork
<1>2. Height(b) > StartHeight
  BY <1>1, NotOldIs
<1>3. Height(lastBlock) < Height(b) /\ Height(b) <= Height(b)
  BY <1>1, AcceptedIs DEF Longer
<1>4. Sound(AddBlock(Pruned(b), b), b)
  BY <1>1, <1>2, <1>3, AcceptedIs, AddSound
<1>5. Memory(AddBlock(Pruned(b), b))
  BY <1>1, AcceptedIs, AddMemory
<1>6. PICK bs : bs = Pruned(b)
  OBVIOUS
<1>7. PICK cs : cs = AddBlock(bs, b)
  OBVIOUS
<1>8. /\ DOMAIN cs = DOMAIN bs \cup {b} /\ cs[b] = Prev(b)
      /\ \A x \in DOMAIN bs : x # b => cs[x] = bs[x]
  BY <1>7, AddBlockIs
<1>9. Sound(bs, lastBlock) /\ Prev(b) \in DOMAIN bs
  BY <1>1, <1>6, AcceptedIs
<1>10. Unbroken(cs, Low(lastBlock)) /\ lastBlock \in DOMAIN cs /\ b \in DOMAIN cs
  BY <1>8, <1>9 DEF Unbroken, Sound
<1> QED
  BY <1>1, <1>2, <1>3, <1>4, <1>5, <1>6, <1>7, <1>10, AcceptedIs

LEMMA ReorganizeKeeps ==
    ASSUME NEW p \in Peers, NEW b \in Block, IInv, Kept, Reorganize(p, b)
    PROVE  Sound(blocks', lastBlock')
<1>1. \/ UNCHANGED <<blocks, lastBlock>>
      \/ blocks' = AddBlock(Pruned(b), b) /\ lastBlock' = b
  BY DEF Reorganize
<1> QED
  BY <1>1, ReorganizeSound DEF Kept

\* The other branches free blocks at most.
LEMMA PrunedKeeps ==
    ASSUME NEW p \in Peers, NEW b \in Block, IInv, Kept,
           \/ IgnoreBlock(p, b) \/ OrphanBlock(p, b) \/ InvalidBlock(p, b)
           \/ MinedDuringRescan(p, b) \/ IgnoreOldFork(p, b)
    PROVE  Sound(blocks', lastBlock') /\ lastBlock' = lastBlock
<1>1. Memory(blocks) /\ Sound(blocks, lastBlock)
  BY DEF IInv, ChainOK, Kept
<1>2. lastBlock' = lastBlock /\ (blocks' = blocks \/ (blocks' = Pruned(b) /\ HasPrev(b)))
  BY DEF IgnoreBlock, OrphanBlock, InvalidBlock, MinedDuringRescan, IgnoreOldFork, NewOnFork, Accepted
<1> QED
  BY <1>1, <1>2, PrunedSound

LEMMA RelayedKeeps ==
    ASSUME NEW p \in Peers, NEW b \in Block, IInv, Kept, PeerRelayedBlock(p, b)
    PROVE  Kept'
<1>1. Sound(blocks', lastBlock')
  BY ExtendsKeeps, ExistingKeeps, ForkKeeps, ReorganizeKeeps, PrunedKeeps DEF PeerRelayedBlock
<1>2. bare' = {}
  BY DEF PeerRelayedBlock, Kept
<1> QED
  BY <1>1, <1>2 DEF Kept

LEMMA RescanKeeps ==
    ASSUME OneRun, IInv, Kept, BRPeerManagerRescan
    PROVE  Kept'
<1>1. FreesNothing
  BY DEF OneRun, BRPeerManagerRescan
<1>2. UNCHANGED <<blocks, bare>> /\ lastBlock' \in {lastBlock, StartBlock}
  BY DEF BRPeerManagerRescan
<1>3. Low(StartBlock) = Low(lastBlock)
  BY <1>1 DEF Low
<1>4. Sound(blocks, StartBlock)
  BY <1>1, <1>3, Started DEF Kept, Sound, StartHeight
<1> QED
  BY <1>2, <1>4 DEF Kept

LEMMA NextKeeps ==
    ASSUME OneRun, IInv, Kept, [Next]_vars
    PROVE  Kept'
<1>1. ASSUME NEW p \in Peers, NEW b \in Relayable, Deliver(p, b)
      PROVE  Kept'
  BY <1>1, RelayableBlocks, RelayedKeeps DEF Deliver
<1>2. ASSUME NEW p \in Peers, RelayNext(p)
      PROVE  Kept'
  BY <1>2, HandTypes, RelayedKeeps DEF RelayNext
<1>3. CASE UNCHANGED <<blocks, lastBlock, bare>>
  BY <1>3 DEF Kept
<1>4. ~BRPeerManagerNew
  BY DEF OneRun, BRPeerManagerNew
<1>5. CASE ResetFilter \/ (\E p \in Peers : UpdateFilterPingDone(p) \/ UpdateFilterLoadDone(p))
  BY <1>3, <1>5 DEF ResetFilter, UpdateFilterPingDone, UpdateFilterLoadDone, chainVars
<1>6. CASE \E p \in Peers : PeerDisconnected(p) \/ \E h \in Announced : PeerConnected(p, h)
  BY <1>3, <1>6 DEF PeerDisconnected, PeerConnected, chainVars
<1>7. CASE UNCHANGED vars
  BY <1>3, <1>7 DEF vars, chainVars
<1> QED
  BY <1>1, <1>2, <1>4, <1>5, <1>6, <1>7, RescanKeeps DEF Next

LEMMA MemoryKept ==
    ASSUME OneRun
    PROVE  Spec => [](IInv /\ Kept)
<1>1. Init => IInv /\ Kept
  BY InitTypes, InitKept DEF OneRun
<1>2. IInv /\ Kept /\ [Next]_vars => (IInv /\ Kept)'
  BY NextTypes, NextKeeps
<1> QED
  BY <1>1, <1>2, PTL DEF Spec

-----------------------------------------------------------------------------
(* Walks. *)

\* "they need to be at difficulty transition boundaries in order to verify the block difficulty at
\* the immediately following transition"
StartsAtTransition == StartHeight >= DGW_START_BLOCK \/ StartHeight % BLOCK_DIFFICULTY_INTERVAL = 0

\* From one multiple to the next.
LEMMA NextMultiple ==
    ASSUME NEW d \in Nat, NEW m \in Nat, NEW n \in Nat, d > 0, m % d = 0, n % d = 0, m < n
    PROVE  m + d <= n
<1>1. PICK i \in Nat : m = d * i
  <2>1. m = d * (m \div d) + (m % d) /\ m \div d \in Nat
    OBVIOUS
  <2> QED
    BY <2>1
<1>2. PICK j \in Nat : n = d * j
  <2>1. n = d * (n \div d) + (n % d) /\ n \div d \in Nat
    OBVIOUS
  <2> QED
    BY <2>1
<1>3. i < j
  <2> SUFFICES ASSUME j <= i
               PROVE  FALSE
    OBVIOUS
  <2>1. PICK k \in Nat : i = j + k
    <3>1. i - j \in Nat /\ i = j + (i - j)
      OBVIOUS
    <3> QED
      BY <3>1
  <2>2. d * (j + k) = d * j + d * k /\ d * k \in Nat
    OBVIOUS
  <2> QED
    BY <1>1, <1>2, <2>1, <2>2
<1>4. PICK k \in Nat : j = i + 1 + k
  <2>1. j - i - 1 \in Nat /\ j = i + 1 + (j - i - 1)
    BY <1>3
  <2> QED
    BY <2>1
<1>5. d * (i + 1 + k) = d * i + d + d * k /\ d * k \in Nat
  OBVIOUS
<1> QED
  BY <1>1, <1>2, <1>4, <1>5

LEMMA TransitionFound ==
    ASSUME StartsAtTransition, IInv, Kept, NEW b \in Block, Prev(b) = lastBlock, AtTransition(b)
    PROVE  HasTransition(b)
<1>1. Memory(blocks) /\ lastBlock \in Block /\ lastBlock \in DOMAIN blocks /\ Unbroken(blocks, Low(lastBlock))
  BY DEF IInv, ChainOK, Kept, Sound
<1>2. /\ Height(lastBlock) \in Nat /\ Height(lastBlock) >= StartHeight /\ StartHeight \in Nat
      /\ Height(b) = Height(lastBlock) + 1
  BY <1>1, Heighted, Started DEF Kept, Sound
<1>3. Low(lastBlock) \in Nat /\ Low(lastBlock) <= Height(b) - Interval(b) /\ Interval(b) \in Nat /\ Interval(b) >= 1
  <2>1. CASE Interval(b) = 1
    BY <1>1, <1>2, <2>1, LowIs
  <2>2. CASE Interval(b) # 1
    <3>1. Interval(b) = BLOCK_DIFFICULTY_INTERVAL /\ Height(b) % BLOCK_DIFFICULTY_INTERVAL = 0
      BY <2>2 DEF Interval, AtTransition
    <3>2. StartHeight % BLOCK_DIFFICULTY_INTERVAL = 0
      BY <1>2, <2>2, NumberAssumption DEF Interval, StartsAtTransition
    <3>3. StartHeight + BLOCK_DIFFICULTY_INTERVAL <= Height(b)
      BY <1>2, <3>1, <3>2, NextMultiple, Started
    <3> QED
      BY <1>1, <1>2, <3>1, <3>3, Started DEF Low
  <2> QED
    BY <2>1, <2>2
<1>4. Height(b) - Interval(b) \in Low(lastBlock)..Height(lastBlock)
  BY <1>2, <1>3
<1>5. \E y \in Chain(blocks, lastBlock) : Height(y) = Height(b) - Interval(b)
  BY <1>1, <1>3, <1>4, ChainReaches
<1>6. Before(b) = Chain(blocks, lastBlock)
  BY DEF Before, Prev
<1> QED
  BY <1>5, <1>6 DEF HasTransition

(***************************************************************************)
(* In one run of the app, from the last checkpoint and with the checkpoint *)
(* at a transition, as the comment above checkpoint_array demands (from    *)
(* DGW_START_BLOCK on every block is one), no block that extends the main  *)
(* chain is refused for want of the previous transition, whatever          *)
(* _BRPeerManagerVerifyBlock has freed and however deep the                *)
(* reorganisations were. (A rescan takes the tip back below what was       *)
(* freed, and is excluded where blocks are freed at all.)                  *)
(***************************************************************************)
THEOREM TransitionsKept ==
    ASSUME OneRun, StartsAtTransition
    PROVE  Spec => []TransitionHeld
<1>1. IInv /\ Kept => TransitionHeld
  <2> SUFFICES ASSUME IInv, Kept
               PROVE  TransitionHeld
    OBVIOUS
  <2>1. lastBlock \in DOMAIN blocks
    BY DEF Kept, Sound
  <2>2. \A b \in Block : BlockData[b].prev = lastBlock /\ AtTransition(b) => HasTransition(b)
    BY TransitionFound DEF Prev
  <2> QED
    BY <2>1, <2>2 DEF TransitionHeld
<1> QED
  BY <1>1, MemoryKept, PTL

\* No checkpoint follows another.
CheckpointsApart == \A c \in Checkpoints : Prev(c) \notin Checkpoints

LEMMA ExistingWalk ==
    ASSUME FreesNothing, CheckpointsApart, NEW p \in Peers, NEW b \in Block, IInv, Kept, ExistingBlock(p, b)
    PROVE  app' = app
<1>1. Accepted(b) /\ b \in DOMAIN blocks
  BY DEF ExistingBlock
<1>2. PICK bs : bs = Pruned(b)
  OBVIOUS
<1>3. Memory(bs) /\ Sound(bs, lastBlock)
  BY <1>1, <1>2, AcceptedIs
<1>4. /\ lastBlock \in Block /\ lastBlock \in DOMAIN bs
      /\ Height(lastBlock) \in Nat /\ Height(lastBlock) >= StartHeight /\ StartHeight \in Nat /\ Height(b) \in Nat
  BY <1>1, <1>3, AcceptedIs DEF Sound
<1>5. Low(lastBlock) = StartHeight /\ Unbroken(bs, StartHeight)
  BY <1>3, <1>4, LowIs DEF Sound
<1>6. PICK y \in Chain(bs, lastBlock) : Height(y) = StartHeight
  <2>1. StartHeight \in StartHeight..Height(lastBlock) /\ StartHeight \in Int
    BY <1>4
  <2> QED
    BY <1>3, <1>4, <1>5, <2>1, ChainReaches
<1>7. Height(b) >= StartHeight
  <2> SUFFICES ASSUME Height(b) < StartHeight
               PROVE  FALSE
    BY <1>4
  <2>1. Prev(b) \in DOMAIN blocks /\ Prev(b) \in Block /\ Height(Prev(b)) \in Nat /\ Height(b) = Height(Prev(b)) + 1
    BY <1>1, AcceptedIs, Heighted DEF HasPrev, Memory, Prev
  <2>2. b \in Checkpoints /\ Prev(b) \in Checkpoints
    BY <1>1, <1>4, <2>1 DEF Kept, Sound
  <2> QED
    BY <2>2 DEF CheckpointsApart
<1>8. {x \in Chain(Pruned(b), lastBlock) : Height(x) <= Height(b)} # {}
  BY <1>2, <1>4, <1>6, <1>7
<1> QED
  BY <1>8 DEF ExistingBlock

\* Two branches part less than a difficulty interval below the shorter one's end.
ShallowForks ==
    \A u, v \in Block : Height(v) <= Height(u) =>
        \E j \in Ancestors[u] \cap Ancestors[v] : Height(j) + BLOCK_DIFFICULTY_INTERVAL > Height(v)

\* The join of a longer fork and the main chain is in memory, and both walks get there.
LEMMA JoinFound ==
    ASSUME FreesNothing \/ ShallowForks, NEW p \in Peers, NEW b \in Block, IInv, Kept, Reorganize(p, b),
           NEW bs, bs = AddBlock(Pruned(b), b)
    PROVE  \E j \in Chain(bs, b) \cap Chain(bs, lastBlock) : Height(j) >= Low(lastBlock)
<1>1. /\ Memory(bs) /\ Sound(bs, b) /\ Height(b) > Height(lastBlock) /\ lastBlock \in DOMAIN bs
      /\ b \in DOMAIN bs /\ lastBlock \in Block /\ Unbroken(bs, Low(lastBlock))
  BY ReorganizeSound
<1>2. /\ Height(b) \in Nat /\ Height(lastBlock) \in Nat /\ StartHeight \in Nat
      /\ Height(lastBlock) >= StartHeight
  BY <1>1, Heighted, Started DEF Kept, Sound
<1>3. Low(lastBlock) \in Nat /\ Low(lastBlock) >= StartHeight /\ Low(lastBlock) <= Height(lastBlock)
  BY <1>1, <1>2, LowIs
<1>4. ASSUME NEW k \in Nat, Low(lastBlock) <= k, k <= Height(lastBlock)
      PROVE  /\ \E y \in Chain(bs, b) : Height(y) = k
             /\ \E z \in Chain(bs, lastBlock) : Height(z) = k
  <2>1. k \in Low(lastBlock)..Height(lastBlock) /\ k \in Low(lastBlock)..Height(b)
    BY <1>1, <1>2, <1>3, <1>4
  <2> QED
    BY <1>1, <1>3, <2>1, ChainReaches
<1>5. CASE Low(lastBlock) = StartHeight
  <2>1. PICK y \in Chain(bs, b), z \in Chain(bs, lastBlock) : Height(y) = StartHeight /\ Height(z) = StartHeight
    BY <1>2, <1>3, <1>4, <1>5
  <2>2. y = StartBlock /\ z = StartBlock
    BY <1>1, <2>1, ChainIn DEF Sound
  <2> QED
    BY <1>2, <1>5, <2>1, <2>2
<1>6. CASE Low(lastBlock) # StartHeight
  <2>1. ShallowForks /\ Low(lastBlock) = Height(lastBlock) + 1 - BLOCK_DIFFICULTY_INTERVAL
    BY <1>6 DEF Low
  <2>2. PICK j \in Ancestors[b] \cap Ancestors[lastBlock] :
            Height(j) + BLOCK_DIFFICULTY_INTERVAL > Height(lastBlock)
    BY <1>1, <1>2, <2>1 DEF ShallowForks
  <2>3. j \in Block /\ Height(j) \in Nat /\ Height(j) <= Height(lastBlock)
    BY <1>1, <1>2, AncestorsUnfold, Heighted
  <2>4. Low(lastBlock) <= Height(j)
    BY <1>2, <2>1, <2>2, <2>3, Started
  <2>5. PICK y \in Chain(bs, b), z \in Chain(bs, lastBlock) : Height(y) = Height(j) /\ Height(z) = Height(j)
    BY <1>4, <2>3, <2>4
  <2>6. y \in Ancestors[b] /\ z \in Ancestors[lastBlock]
    BY <1>1, <2>5, ChainOfBranch
  <2>7. y = j /\ z = j
    BY <1>1, <2>2, <2>5, <2>6, OneOfHeight
  <2> QED
    BY <2>4, <2>5, <2>7
<1> QED
  BY <1>5, <1>6

LEMMA ReorganizeWalk ==
    ASSUME FreesNothing \/ ShallowForks, NEW p \in Peers, NEW b \in Block, IInv, Kept, Reorganize(p, b)
    PROVE  app' = app
<1>1. PICK bs : bs = AddBlock(Pruned(b), b)
  OBVIOUS
<1>2. Chain(bs, b) \cap Chain(bs, lastBlock) # {}
  BY <1>1, JoinFound
<1>3. ~JoinIsNull(Chain(bs, b), Chain(bs, lastBlock))
  BY <1>2 DEF JoinIsNull
<1> QED
  BY <1>1, <1>3 DEF Reorganize

LEMMA RelayedWalks ==
    ASSUME FreesNothing, CheckpointsApart, NEW p \in Peers, NEW b \in Block, IInv, Kept, PeerRelayedBlock(p, b)
    PROVE  app' = app
<1>1. CASE ExistingBlock(p, b)
  BY <1>1, ExistingWalk
<1>2. CASE Reorganize(p, b)
  BY <1>2, ReorganizeWalk
<1>3. CASE \/ IgnoreBlock(p, b) \/ OrphanBlock(p, b) \/ ExtendsMainChain(p, b) \/ InvalidBlock(p, b)
           \/ MinedDuringRescan(p, b) \/ IgnoreOldFork(p, b) \/ ExtendFork(p, b)
  BY <1>3 DEF IgnoreBlock, OrphanBlock, ExtendsMainChain, InvalidBlock, MinedDuringRescan, IgnoreOldFork,
              ExtendFork
<1> QED
  BY <1>1, <1>2, <1>3 DEF PeerRelayedBlock

LEMMA NextWalks ==
    ASSUME OneRun, FreesNothing, CheckpointsApart, IInv, Kept, WalksFindBlocks, [Next]_vars
    PROVE  WalksFindBlocks'
<1>1. ASSUME NEW p \in Peers, NEW b \in Relayable, Deliver(p, b)
      PROVE  app' = app
  BY <1>1, RelayableBlocks, RelayedWalks DEF Deliver
<1>2. ASSUME NEW p \in Peers, RelayNext(p)
      PROVE  app' = app
  BY <1>2, HandTypes, RelayedWalks DEF RelayNext
<1>3. CASE BRPeerManagerRescan
  <2>1. StartBlock \in DOMAIN blocks
    BY DEF Kept, Sound
  <2> QED
    BY <1>3, <2>1 DEF BRPeerManagerRescan, WalksFindBlocks
<1>4. ~BRPeerManagerNew
  BY DEF OneRun, BRPeerManagerNew
<1>5. CASE ResetFilter \/ (\E p \in Peers : UpdateFilterPingDone(p) \/ UpdateFilterLoadDone(p))
  BY <1>5 DEF ResetFilter, UpdateFilterPingDone, UpdateFilterLoadDone, WalksFindBlocks
<1>6. CASE \E p \in Peers : PeerDisconnected(p) \/ \E h \in Announced : PeerConnected(p, h)
  BY <1>6 DEF PeerDisconnected, PeerConnected, WalksFindBlocks
<1>7. CASE UNCHANGED vars
  BY <1>7 DEF vars, WalksFindBlocks
<1> QED
  BY <1>1, <1>2, <1>3, <1>4, <1>5, <1>6, <1>7 DEF Next, WalksFindBlocks

(***************************************************************************)
(* Where no block is freed the walks back along prevBlock that the code    *)
(* does not test for NULL, for the join of a fork, for an existing block   *)
(* and for the checkpoint of a rescan, always find a block, in one run of  *)
(* the app that starts at the last checkpoint and if no checkpoint follows *)
(* another immediately: one that does is in memory with its prevBlock, and *)
(* when it is relayed the walk from the tip ends above it.                 *)
(***************************************************************************)
THEOREM WalksEnd ==
    ASSUME OneRun, FreesNothing, CheckpointsApart
    PROVE  Spec => []WalksFindBlocks
<1>1. Init => WalksFindBlocks
  BY DEF Init, WalksFindBlocks
<1>2. IInv /\ Kept /\ WalksFindBlocks /\ [Next]_vars => WalksFindBlocks'
  BY NextWalks
<1> QED
  BY <1>1, <1>2, MemoryKept, PTL DEF Spec


-----------------------------------------------------------------------------
(* The heights of the wallet's transactions. *)

\* Every transaction of tip's branch has its block's height.
Right(hs, tip) == \A x \in Ancestors[tip] : \A t \in BlockData[x].txs : hs[t] = Height(x)

\* Every height is that of a block of tip's branch with the transaction.
OnBranch(hs, tip) ==
    \A t \in Tx : hs[t] # TX_UNCONFIRMED =>
        \E x \in Ancestors[tip] : t \in BlockData[x].txs /\ Height(x) = hs[t]

\* No branch confirms a transaction twice.
OncePerBranch ==
    \A b \in Block : \A x, y \in Ancestors[b] : BlockData[x].txs \cap BlockData[y].txs # {} => x = y

\* The wallet has no transaction up to the checkpoint: "earliestKeyTime" is later.
NothingBefore == \A b \in Block : Height(b) <= StartHeight => BlockData[b].txs = {}

LEMMA ConfirmIs ==
    ASSUME NEW hs, NEW S, NEW t \in Tx
    PROVE  \/ \E x \in S : t \in BlockData[x].txs /\ Confirm(hs, S)[t] = Height(x)
           \/ (\A x \in S : t \notin BlockData[x].txs) /\ Confirm(hs, S)[t] = hs[t]
<1>1. CASE \E x \in S : t \in BlockData[x].txs
  <2>1. PICK x \in S : x = CHOOSE y \in S : t \in BlockData[y].txs
    BY <1>1
  <2> QED
    BY <1>1, <2>1 DEF Confirm
<1>2. CASE \A x \in S : t \notin BlockData[x].txs
  BY <1>2 DEF Confirm
<1> QED
  BY <1>1, <1>2

LEMMA Transactions == \A b \in Block : BlockData[b].txs \subseteq Tx
  BY BlockAssumption

\* The transactions of b are confirmed, which is on the branch of the tip new.
Confirms(b, new) ==
    /\ txHeight' = Confirm(txHeight, {b}) /\ b \in Ancestors[new] /\ new \in Block
    /\ Ancestors[lastBlock] \subseteq Ancestors[new] /\ Ancestors[new] \subseteq Ancestors[lastBlock] \cup {b}

\* Up to the height join the branch of the tip new is the old one; what follows is confirmed.
Joins(join, new) ==
    /\ new \in Block /\ join \in Nat
    /\ txHeight' = Confirm(UnconfirmAfter(join), {x \in Ancestors[new] : Height(x) > join})
    /\ {x \in Ancestors[new] : Height(x) <= join} = {x \in Ancestors[lastBlock] : Height(x) <= join}

LEMMA ConfirmsRight ==
    ASSUME OncePerBranch, NEW b, NEW new, Confirms(b, new), Right(txHeight, lastBlock)
    PROVE  Right(txHeight', new)
<1> SUFFICES ASSUME NEW x \in Ancestors[new], NEW t \in BlockData[x].txs
             PROVE  txHeight'[t] = Height(x)
  BY DEF Right
<1>1. x \in Block /\ t \in Tx /\ (x = b \/ x \in Ancestors[lastBlock])
  BY AncestorsUnfold, Transactions DEF Confirms
<1>2. t \in BlockData[b].txs => x = b
  BY DEF OncePerBranch, Confirms
<1>3. \/ t \in BlockData[b].txs /\ txHeight'[t] = Height(b)
      \/ t \notin BlockData[b].txs /\ txHeight'[t] = txHeight[t]
  BY <1>1, ConfirmIs DEF Confirms
<1> QED
  BY <1>1, <1>2, <1>3 DEF Right

LEMMA ConfirmsOnBranch ==
    ASSUME NEW b, NEW new, Confirms(b, new), OnBranch(txHeight, lastBlock)
    PROVE  OnBranch(txHeight', new)
<1> SUFFICES ASSUME NEW t \in Tx, txHeight'[t] # TX_UNCONFIRMED
             PROVE  \E x \in Ancestors[new] : t \in BlockData[x].txs /\ Height(x) = txHeight'[t]
  BY DEF OnBranch
<1>1. \/ t \in BlockData[b].txs /\ txHeight'[t] = Height(b)
      \/ t \notin BlockData[b].txs /\ txHeight'[t] = txHeight[t]
  BY ConfirmIs DEF Confirms
<1> QED
  BY <1>1 DEF OnBranch, Confirms

LEMMA JoinsRight ==
    ASSUME OncePerBranch, NEW join, NEW new, Joins(join, new), Right(txHeight, lastBlock)
    PROVE  Right(txHeight', new)
<1> SUFFICES ASSUME NEW x \in Ancestors[new], NEW t \in BlockData[x].txs
             PROVE  txHeight'[t] = Height(x)
  BY DEF Right
<1>1. x \in Block /\ t \in Tx /\ Height(x) \in Nat /\ join \in Nat
  BY AncestorsUnfold, Transactions, Heighted DEF Joins
<1>2. PICK S : S = {y \in Ancestors[new] : Height(y) > join}
  OBVIOUS
<1>3. \A y \in S : t \in BlockData[y].txs => y = x
  BY <1>2 DEF OncePerBranch, Joins
<1>4. PICK hs : hs = UnconfirmAfter(join)
  OBVIOUS
<1>5. \/ \E y \in S : t \in BlockData[y].txs /\ txHeight'[t] = Height(y)
      \/ x \notin S /\ txHeight'[t] = hs[t]
  <2>1. txHeight' = Confirm(hs, S)
    BY <1>2, <1>4 DEF Joins
  <2> QED
    BY <1>1, <2>1, ConfirmIs
<1>6. CASE x \notin S
  <2>1. Height(x) <= join /\ x \in Ancestors[lastBlock]
    BY <1>1, <1>2, <1>6 DEF Joins
  <2>2. txHeight[t] = Height(x)
    BY <2>1 DEF Right
  <2>3. hs[t] = Height(x)
    BY <1>1, <1>4, <2>1, <2>2 DEF UnconfirmAfter
  <2> QED
    BY <1>3, <1>5, <2>3
<1> QED
  BY <1>3, <1>5, <1>6

LEMMA JoinsOnBranch ==
    ASSUME NEW join, NEW new, lastBlock \in Block, Joins(join, new), OnBranch(txHeight, lastBlock)
    PROVE  OnBranch(txHeight', new)
<1> SUFFICES ASSUME NEW t \in Tx, txHeight'[t] # TX_UNCONFIRMED
             PROVE  \E x \in Ancestors[new] : t \in BlockData[x].txs /\ Height(x) = txHeight'[t]
  BY DEF OnBranch
<1>1. PICK S : S = {y \in Ancestors[new] : Height(y) > join}
  OBVIOUS
<1>2. PICK hs : hs = UnconfirmAfter(join)
  OBVIOUS
<1>3. \/ \E y \in S : t \in BlockData[y].txs /\ txHeight'[t] = Height(y)
      \/ txHeight'[t] = hs[t]
  <2>1. txHeight' = Confirm(hs, S)
    BY <1>1, <1>2 DEF Joins
  <2> QED
    BY <2>1, ConfirmIs
<1>4. join \in Nat /\ \A x \in Ancestors[lastBlock] : Height(x) \in Nat
  BY AncestorsUnfold, Heighted DEF Joins
<1>5. CASE txHeight'[t] = hs[t]
  <2>1. txHeight[t] = txHeight'[t] /\ ~(txHeight[t] > join)
    BY <1>2, <1>5 DEF UnconfirmAfter
  <2>2. PICK x \in Ancestors[lastBlock] : t \in BlockData[x].txs /\ Height(x) = txHeight[t]
    BY <2>1 DEF OnBranch
  <2>3. x \in Ancestors[new]
    <3>1. Height(x) <= join
      BY <1>4, <2>1, <2>2
    <3> QED
      BY <2>2, <3>1 DEF Joins
  <2> QED
    BY <2>1, <2>2, <2>3
<1> QED
  BY <1>1, <1>3, <1>5

\* A block that extends the main chain, or is on it already.
LEMMA ExtendsConfirms ==
    ASSUME NEW p \in Peers, NEW b \in Block, IInv, Kept, ExtendsMainChain(p, b)
    PROVE  Confirms(b, lastBlock')
<1>1. /\ Prev(b) = lastBlock /\ lastBlock \in Block /\ lastBlock' = b
      /\ txHeight' = Confirm(txHeight, {b})
  BY DEF ExtendsMainChain, Prev, IInv, ChainOK
<1>2. Ancestors[b] = {b} \cup Ancestors[lastBlock]
  BY <1>1, AncestorsUnfold
<1> QED
  BY <1>1, <1>2 DEF Confirms

LEMMA ExistingConfirms ==
    ASSUME NEW p \in Peers, NEW b \in Block, IInv, Kept, ExistingBlock(p, b)
    PROVE  lastBlock' = lastBlock /\ (txHeight' = txHeight \/ Confirms(b, lastBlock))
<1>1. lastBlock' = lastBlock /\ Accepted(b)
  BY DEF ExistingBlock
<1>2. PICK bs : bs = Pruned(b)
  OBVIOUS
<1>3. Memory(bs) /\ lastBlock \in DOMAIN bs /\ lastBlock \in Block
  BY <1>1, <1>2, AcceptedIs DEF Sound
<1>4. Chain(bs, lastBlock) \subseteq Ancestors[lastBlock]
  BY <1>3, ChainOfBranch
<1>5. \/ txHeight' = txHeight
      \/ b \in Chain(bs, lastBlock) /\ txHeight' = Confirm(txHeight, {b})
  BY <1>2 DEF ExistingBlock
<1> QED
  BY <1>1, <1>3, <1>4, <1>5 DEF Confirms

\* The join of a reorganisation is in memory: see JoinFound.
LEMMA ReorganizeJoins ==
    ASSUME FreesNothing \/ ShallowForks, NEW p \in Peers, NEW b \in Block, IInv, Kept, Reorganize(p, b)
    PROVE  lastBlock' = b /\ \E join : Joins(join, b)
<1>1. PICK bs : bs = AddBlock(Pruned(b), b)
  OBVIOUS
<1>2. /\ Memory(bs) /\ Unbroken(bs, Low(lastBlock)) /\ b \in DOMAIN bs /\ lastBlock \in DOMAIN bs
      /\ lastBlock \in Block /\ Height(b) > Height(lastBlock)
  BY <1>1, ReorganizeSound
<1>3. PICK fork, main : fork = Chain(bs, b) /\ main = Chain(bs, lastBlock)
  OBVIOUS
<1>4. fork \subseteq Ancestors[b] /\ main \subseteq Ancestors[lastBlock] /\ fork \subseteq Block
  BY <1>2, <1>3, ChainOfBranch, AncestorsUnfold
<1>5. PICK j \in fork \cap main : Height(j) >= Low(lastBlock)
  BY <1>1, <1>3, JoinFound
<1>6. PICK join : join = Max({Height(x) : x \in fork \cap main})
  OBVIOUS
<1>7. PICK top \in fork \cap main : Height(top) = join /\ Height(j) <= join
  <2>1. fork \cap main \subseteq Block /\ fork \cap main # {}
    BY <1>4, <1>5
  <2>2. join \in {Height(x) : x \in fork \cap main} /\ \A x \in fork \cap main : Height(x) <= join
    BY <1>6, <2>1, HighestIs
  <2> QED
    BY <1>5, <2>2
<1>8. /\ top \in Ancestors[b] /\ top \in Ancestors[lastBlock] /\ top \in Block /\ j \in Block
      /\ join \in Nat /\ Height(j) \in Nat /\ Low(lastBlock) \in Nat /\ Low(lastBlock) <= join
  <2>1. top \in Ancestors[b] /\ top \in Ancestors[lastBlock] /\ top \in Block /\ j \in Block
    BY <1>4, <1>5, <1>7
  <2>2. Low(lastBlock) \in Nat
    BY <1>2, LowIs DEF Kept, Sound
  <2> QED
    BY <1>5, <1>7, <2>1, <2>2, Heighted
<1>9. {x \in fork : Height(x) > join} = {x \in Ancestors[b] : Height(x) > join}
  <2> SUFFICES ASSUME NEW x \in Ancestors[b], Height(x) > join
               PROVE  x \in fork
    BY <1>4
  <2>1. x \in Block /\ Height(x) \in Nat /\ Height(b) \in Nat /\ Height(x) <= Height(b)
    BY AncestorsUnfold, Heighted
  <2>2. Height(x) \in Low(lastBlock)..Height(b)
    BY <1>8, <2>1
  <2>3. PICK y \in fork : Height(y) = Height(x)
    BY <1>2, <1>3, <1>8, <2>2, ChainReaches
  <2> QED
    BY <1>4, <2>3, OneOfHeight
<1>10. {x \in Ancestors[b] : Height(x) <= join} = {x \in Ancestors[lastBlock] : Height(x) <= join}
  <2>1. ASSUME NEW u \in Block, top \in Ancestors[u]
        PROVE  {x \in Ancestors[u] : Height(x) <= join} = Ancestors[top]
    <3>1. Ancestors[top] \subseteq Ancestors[u] /\ \A x \in Ancestors[u] : Height(x) <= join => x \in Ancestors[top]
      BY <1>7, <2>1, BranchOrdered DEF Ordered
    <3>2. \A x \in Ancestors[top] : Height(x) <= join
      BY <1>7, <1>8, AncestorsUnfold, Heighted
    <3> QED
      BY <3>1, <3>2
  <2> QED
    BY <1>2, <1>8, <2>1
<1>11. ~JoinIsNull(fork, main)
  BY <1>5 DEF JoinIsNull
<1>12. lastBlock' = b /\ ReorganizeTx(fork, main)
  BY <1>1, <1>3, <1>11 DEF Reorganize
<1>13. txHeight' = Confirm(UnconfirmAfter(join), {x \in fork : Height(x) > join})
  <2>1. fork \ bare = fork
    BY DEF Kept
  <2> QED
    BY <1>5, <1>6, <1>12, <2>1 DEF ReorganizeTx
<1>14. Joins(join, b)
  BY <1>8, <1>9, <1>10, <1>13 DEF Joins
<1> QED
  BY <1>12, <1>14

\* What a relayed block may do to the heights.
LEMMA RelayedHeights ==
    ASSUME FreesNothing \/ ShallowForks, NEW p \in Peers, NEW b \in Block, IInv, Kept, PeerRelayedBlock(p, b)
    PROVE  \/ UNCHANGED <<txHeight, lastBlock>>
           \/ Confirms(b, lastBlock')
           \/ \E join : Joins(join, lastBlock')
<1>1. CASE ExtendsMainChain(p, b)
  BY <1>1, ExtendsConfirms
<1>2. CASE ExistingBlock(p, b)
  <2>1. lastBlock' = lastBlock /\ (txHeight' = txHeight \/ Confirms(b, lastBlock))
    BY <1>2, ExistingConfirms
  <2> QED
    BY <2>1
<1>3. CASE Reorganize(p, b)
  <2>1. lastBlock' = b /\ \E join : Joins(join, b)
    BY <1>3, ReorganizeJoins
  <2> QED
    BY <2>1
<1>4. CASE \/ IgnoreBlock(p, b) \/ OrphanBlock(p, b) \/ InvalidBlock(p, b)
           \/ MinedDuringRescan(p, b) \/ IgnoreOldFork(p, b) \/ ExtendFork(p, b)
  BY <1>4 DEF IgnoreBlock, OrphanBlock, InvalidBlock, MinedDuringRescan, IgnoreOldFork, ExtendFork
<1> QED
  BY <1>1, <1>2, <1>3, <1>4 DEF PeerRelayedBlock

\* And the other steps.
LEMMA NextHeights ==
    ASSUME OneRun, FreesNothing \/ ShallowForks, IInv, Kept, [Next]_vars
    PROVE  \/ UNCHANGED <<txHeight, lastBlock>>
           \/ \E b : Confirms(b, lastBlock')
           \/ \E join : Joins(join, lastBlock')
           \/ Rescans /\ lastBlock' = StartBlock /\ UNCHANGED txHeight
<1>1. ASSUME NEW p \in Peers, NEW b \in Relayable, Deliver(p, b)
      PROVE  \/ UNCHANGED <<txHeight, lastBlock>>
             \/ \E x : Confirms(x, lastBlock')
             \/ \E join : Joins(join, lastBlock')
  BY <1>1, RelayableBlocks, RelayedHeights DEF Deliver
<1>2. ASSUME NEW p \in Peers, RelayNext(p)
      PROVE  \/ UNCHANGED <<txHeight, lastBlock>>
             \/ \E x : Confirms(x, lastBlock')
             \/ \E join : Joins(join, lastBlock')
  BY <1>2, HandTypes, RelayedHeights DEF RelayNext
<1>3. CASE BRPeerManagerRescan
  BY <1>3 DEF BRPeerManagerRescan
<1>4. ~BRPeerManagerNew
  BY DEF OneRun, BRPeerManagerNew
<1>5. CASE ResetFilter \/ (\E p \in Peers : UpdateFilterPingDone(p) \/ UpdateFilterLoadDone(p))
  BY <1>5 DEF ResetFilter, UpdateFilterPingDone, UpdateFilterLoadDone, chainVars
<1>6. CASE \E p \in Peers : PeerDisconnected(p) \/ \E h \in Announced : PeerConnected(p, h)
  BY <1>6 DEF PeerDisconnected, PeerConnected, chainVars
<1>7. CASE UNCHANGED vars
  BY <1>7 DEF vars, chainVars
<1> QED
  BY <1>1, <1>2, <1>3, <1>4, <1>5, <1>6, <1>7 DEF Next

LEMMA StartRight ==
    ASSUME NothingBefore, NEW hs
    PROVE  Right(hs, StartBlock)
  BY AncestorsUnfold, Started, Heighted DEF NothingBefore, Right, StartHeight

(***************************************************************************)
(* In one run of the app, from a checkpoint before the wallet's first      *)
(* transaction, every transaction of a main chain block has that block's   *)
(* height when the chain is synced, and before: through orphans, forks,    *)
(* reorganisations and rescans, in any order and from any peer, for any    *)
(* block tree that confirms no transaction twice on a branch and whose     *)
(* forks are no deeper than a difficulty interval where blocks are freed.  *)
(***************************************************************************)
THEOREM SyncedIsConfirmed ==
    ASSUME OneRun, FreesNothing \/ ShallowForks, OncePerBranch, NothingBefore
    PROVE  Spec => []SyncedConfirmed
<1>1. Init => Right(txHeight, lastBlock)
  BY StartRight DEF Init
<1>2. IInv /\ Kept /\ Right(txHeight, lastBlock) /\ [Next]_vars => Right(txHeight, lastBlock)'
  <2> SUFFICES ASSUME IInv, Kept, Right(txHeight, lastBlock), [Next]_vars
               PROVE  Right(txHeight', lastBlock')
    BY DEF Right
  <2> QED
    BY NextHeights, ConfirmsRight, JoinsRight, StartRight
<1>3. IInv /\ Kept /\ Right(txHeight, lastBlock) => SyncedConfirmed
  <2> SUFFICES ASSUME IInv, Kept, Right(txHeight, lastBlock)
               PROVE  SyncedConfirmed
    OBVIOUS
  <2>1. MainChain \subseteq Ancestors[lastBlock]
    BY ChainOfBranch DEF MainChain, IInv, ChainOK, Kept, Sound
  <2> QED
    BY <2>1 DEF SyncedConfirmed, Right
<1> QED
  BY <1>1, <1>2, <1>3, MemoryKept, PTL DEF Spec

(***************************************************************************)
(* In one run of the app without a rescan every height is that of a block  *)
(* with the transaction on the branch of the tip: a reorganisation leaves  *)
(* none on the branch that was abandoned, also when blocks of it, or of    *)
(* the main chain behind the join, have been freed.                        *)
(***************************************************************************)
THEOREM ConfirmedOnBranch ==
    ASSUME OneRun, Rescans = FALSE, FreesNothing \/ ShallowForks
    PROVE  Spec => []ConfirmedOnMainChain
<1>1. Init => OnBranch(txHeight, lastBlock)
  BY DEF Init, OnBranch
<1>2. IInv /\ Kept /\ OnBranch(txHeight, lastBlock) /\ [Next]_vars => OnBranch(txHeight, lastBlock)'
  <2> SUFFICES ASSUME IInv, Kept, OnBranch(txHeight, lastBlock), [Next]_vars
               PROVE  OnBranch(txHeight', lastBlock')
    BY DEF OnBranch
  <2>1. lastBlock \in Block
    BY DEF IInv, ChainOK
  <2> QED
    BY <2>1, NextHeights, ConfirmsOnBranch, JoinsOnBranch
<1>3. OnBranch(txHeight, lastBlock) => ConfirmedOnMainChain
  BY DEF OnBranch, ConfirmedOnMainChain
<1> QED
  BY <1>1, <1>2, <1>3, MemoryKept, PTL DEF Spec

=============================================================================
