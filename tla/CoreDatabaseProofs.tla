------------------------- MODULE CoreDatabaseProofs -------------------------
(***************************************************************************)
(* What is saved is what the wallet has, once nothing is left to save, for *)
(* any chain, any peers and any queue, through failed statements, lost     *)
(* jobs, removals and reorganisations.  The jobs of one transaction run in *)
(* the order in which the wallet changed it: the last update that waits    *)
(* has its height, and a row that is to go has a deletion that waits.      *)
(*                                                                         *)
(* And nothing goes missing: the chain that the next start begins with has *)
(* no transaction that is not saved as well.  See the second half.         *)
(***************************************************************************)
EXTENDS CoreDatabase, FiniteSetTheorems, SequenceTheorems, NaturalsInduction, WellFoundedInduction, TLAPS

-----------------------------------------------------------------------------
(* The inductive invariant. *)

\* The jobs of a transaction that wait in the queue q.
Adds(q, t) == {i \in DOMAIN q : q[i].op = "added" /\ q[i].tx = t}

Deletes(q, t) == {i \in DOMAIN q : q[i].op = "deleted" /\ q[i].tx = t}

Updates(q, t) == {i \in DOMAIN q : q[i].op = "updated" /\ t \in q[i].left}

\* Only transactions of allTx have rows, and jobs that wait.
Known(q, hs, ls, rs, t) ==
    t \in DOMAIN rs \cup ls \/ Adds(q, t) # {} \/ Deletes(q, t) # {} \/ Updates(q, t) # {} => t \in DOMAIN hs

\* A transaction that was removed from the list is removed from the table, after it is added to it.
Removed(q, ls, rs, t) ==
    IF t \in ls THEN Deletes(q, t) = {}
    ELSE /\ t \in DOMAIN rs => Deletes(q, t) # {}
         /\ \A i \in Adds(q, t) : \E j \in Deletes(q, t) : i < j

\* The last update has the height of the wallet, or else the row has.
Current(q, hs, rs, t) ==
    /\ \A i \in Updates(q, t) : (\A j \in Updates(q, t) : j <= i) => q[i].height = hs[t]
    /\ t \in DOMAIN rs /\ Updates(q, t) = {} => rs[t] = hs[t]

Settled(q, hs, ls, rs) ==
    \A t \in Tx : Known(q, hs, ls, rs, t) /\ Removed(q, ls, rs, t) /\ Current(q, hs, rs, t)

Heights == {Height(b) : b \in Block} \cup {TX_UNCONFIRMED}

\* Successive blocks of a branch.
Section(S) ==
    /\ S # {} /\ S \subseteq Block
    /\ \A x, y \in S : \A h \in Height(x)..Height(y) : \E z \in S : Height(z) = h

GoodJob(job) == job \in Job /\ (job.op = "blocks" => Section(job.blocks))

Typed ==
    /\ app \in {"running", "exited"}
    /\ DOMAIN height \subseteq Tx /\ height \in [DOMAIN height -> Heights]
    /\ listed \subseteq DOMAIN height
    /\ tip \in blocks /\ blocks \subseteq Block /\ bare \subseteq blocks
    /\ saving \in [Peers -> Job \cup {NoJob}]
    /\ \A p \in Peers : saving[p] # NoJob => GoodJob(saving[p]) /\ saving[p].op = "blocks"
    /\ queue \in Seq(Job) /\ \A i \in DOMAIN queue : GoodJob(queue[i])
    /\ DOMAIN rows \subseteq Tx /\ rows \in [DOMAIN rows -> Heights]
    /\ store \in Seq(Block)

IInv ==
    /\ Typed
    /\ app = "running" => Settled(queue, height, listed, rows)

-----------------------------------------------------------------------------
(* A job is put on the queue. *)

\* r is the queue q with j at its end.
IsPushed(q, j, r) ==
    /\ Len(q) \in Nat /\ DOMAIN q = 1..Len(q) /\ DOMAIN r = 1..(Len(q) + 1)
    /\ \A i \in 1..Len(q) : r[i] = q[i]
    /\ r[Len(q) + 1] = j

\* So it is when the database's queue takes a job.
LEMMA Pushed ==
    ASSUME NEW q \in Seq(Job), NEW j \in Job
    PROVE  q \o <<j>> \in Seq(Job) /\ IsPushed(q, j, q \o <<j>>)
<1>1. Append(q, j) = q \o <<j>>
  BY AppendIsConcat
<1>2. /\ Append(q, j) \in Seq(Job) /\ Len(Append(q, j)) = Len(q) + 1
      /\ \A i \in 1..Len(q) : Append(q, j)[i] = q[i]
      /\ Append(q, j)[Len(q) + 1] = j
  BY AppendProperties
<1>3. Len(q) \in Nat /\ DOMAIN q = 1..Len(q) /\ DOMAIN Append(q, j) = 1..Len(Append(q, j))
  BY <1>2, LenProperties
<1> QED
  BY <1>1, <1>2, <1>3 DEF IsPushed

\* The jobs of one transaction that were there, and no other if the new one is not about it.
LEMMA PushedAdds ==
    ASSUME NEW q, NEW j, NEW r, NEW t, IsPushed(q, j, r), ~(j.op = "added" /\ j.tx = t)
    PROVE  Adds(r, t) = Adds(q, t)
  BY DEF IsPushed, Adds

LEMMA PushedDeletes ==
    ASSUME NEW q, NEW j, NEW r, NEW t, IsPushed(q, j, r), ~(j.op = "deleted" /\ j.tx = t)
    PROVE  Deletes(r, t) = Deletes(q, t)
  BY DEF IsPushed, Deletes

LEMMA PushedUpdates ==
    ASSUME NEW q, NEW j, NEW r, NEW t, IsPushed(q, j, r), ~(j.op = "updated" /\ t \in j.left)
    PROVE  Updates(r, t) = Updates(q, t)
  BY DEF IsPushed, Updates

\* A transaction that the new job is not about stays settled.
LEMMA PushedOther ==
    ASSUME NEW q, NEW j, NEW r, NEW hs, NEW hs2, NEW ls, NEW ls2, NEW rs, NEW t, IsPushed(q, j, r),
           Known(q, hs, ls, rs, t) /\ Removed(q, ls, rs, t) /\ Current(q, hs, rs, t),
           j.op \in {"added", "deleted"} => j.tx # t,
           j.op = "updated" => t \notin j.left,
           t \in DOMAIN hs => t \in DOMAIN hs2 /\ hs2[t] = hs[t],
           t \in ls <=> t \in ls2
    PROVE  Known(r, hs2, ls2, rs, t) /\ Removed(r, ls2, rs, t) /\ Current(r, hs2, rs, t)
<1>1. /\ Adds(r, t) = Adds(q, t) /\ Deletes(r, t) = Deletes(q, t)
      /\ Updates(r, t) = Updates(q, t)
      /\ \A i \in Updates(q, t) : r[i] = q[i]
  <2>1. Adds(r, t) = Adds(q, t)
    BY PushedAdds
  <2>2. Deletes(r, t) = Deletes(q, t)
    BY PushedDeletes
  <2>3. Updates(r, t) = Updates(q, t)
    BY PushedUpdates
  <2>4. \A i \in Updates(q, t) : r[i] = q[i]
    BY DEF IsPushed, Updates
  <2> QED
    BY <2>1, <2>2, <2>3, <2>4
<1>2. Known(r, hs2, ls2, rs, t) /\ Removed(r, ls2, rs, t)
  BY <1>1 DEF Known, Removed
<1>3. Current(r, hs2, rs, t)
  <2>1. t \in DOMAIN rs \/ Updates(q, t) # {} => hs2[t] = hs[t]
    BY DEF Known
  <2> QED
    BY <1>1, <2>1 DEF Current
<1> QED
  BY <1>2, <1>3

\* The jobs are what they say.
LEMMA JobTypes ==
    ASSUME NEW t \in Tx
    PROVE  /\ TxAdded(t) \in Job /\ TxAdded(t).op = "added" /\ TxAdded(t).tx = t
           /\ TxDeleted(t) \in Job /\ TxDeleted(t).op = "deleted" /\ TxDeleted(t).tx = t
  BY DEF TxAdded, TxDeleted, Job

\* So is the update of some transactions.
LEMMA UpdateType ==
    ASSUME NEW S \in SUBSET Tx, NEW h \in Heights
    PROVE  /\ TxUpdated(S, h) \in Job /\ TxUpdated(S, h).op = "updated"
           /\ TxUpdated(S, h).left = S /\ TxUpdated(S, h).height = h
  BY DEF TxUpdated, Job, Heights

\* The wallet registers a transaction: nothing waits that is about it, and no row is there.
LEMMA SettledAdd ==
    ASSUME NEW q, NEW r, NEW hs, NEW hs2, NEW ls, NEW rs, NEW t \in Tx,
           Settled(q, hs, ls, rs), t \notin DOMAIN hs, IsPushed(q, TxAdded(t), r),
           DOMAIN hs2 = DOMAIN hs \cup {t}, \A x \in DOMAIN hs : hs2[x] = hs[x]
    PROVE  Settled(r, hs2, ls \cup {t}, rs)
<1> DEFINE j == TxAdded(t)
<1>1. IsPushed(q, j, r) /\ j.op = "added" /\ j.tx = t
  BY JobTypes
<1>2. \A x \in DOMAIN hs : x \in DOMAIN hs2 /\ hs2[x] = hs[x]
  OBVIOUS
<1>3. t \in DOMAIN hs2
  OBVIOUS
<1> HIDE DEF j
<1>4. ASSUME NEW x \in Tx
      PROVE  Known(r, hs2, ls \cup {t}, rs, x) /\ Removed(r, ls \cup {t}, rs, x)
             /\ Current(r, hs2, rs, x)
  <2>1. Known(q, hs, ls, rs, x) /\ Removed(q, ls, rs, x) /\ Current(q, hs, rs, x)
    BY DEF Settled
  <2>2. CASE x # t
    BY <1>1, <1>2, <2>1, <2>2, PushedOther
  <2>3. CASE x = t
    <3>1. Adds(q, t) = {} /\ Deletes(q, t) = {} /\ Updates(q, t) = {} /\ t \notin DOMAIN rs
      BY <2>1, <2>3 DEF Known
    <3>2. Deletes(r, t) = {} /\ Updates(r, t) = {}
      BY <1>1, <3>1, PushedDeletes, PushedUpdates
    <3> QED
      BY <1>3, <2>3, <3>1, <3>2 DEF Known, Removed, Current
  <2> QED
    BY <2>2, <2>3
<1> QED
  BY <1>4 DEF Settled, j

\* The wallet removes a transaction: the deletion waits behind all that is about it.
LEMMA SettledDelete ==
    ASSUME NEW q, NEW r, NEW hs, NEW ls, NEW rs, NEW t \in Tx,
           Settled(q, hs, ls, rs), t \in ls, IsPushed(q, TxDeleted(t), r)
    PROVE  Settled(r, hs, ls \ {t}, rs)
<1> DEFINE j == TxDeleted(t)
<1>1. IsPushed(q, j, r) /\ j.op = "deleted" /\ j.tx = t
  BY JobTypes
<1> HIDE DEF j
<1>2. ASSUME NEW x \in Tx
      PROVE  Known(r, hs, ls \ {t}, rs, x) /\ Removed(r, ls \ {t}, rs, x)
             /\ Current(r, hs, rs, x)
  <2>1. Known(q, hs, ls, rs, x) /\ Removed(q, ls, rs, x) /\ Current(q, hs, rs, x)
    BY DEF Settled
  <2>2. CASE x # t
    BY <1>1, <2>1, <2>2, PushedOther
  <2>3. CASE x = t
    <3>1. /\ Adds(r, t) = Adds(q, t) /\ Updates(r, t) = Updates(q, t)
          /\ Len(q) + 1 \in Deletes(r, t)
          /\ \A i \in Adds(q, t) : i < Len(q) + 1
          /\ \A i \in Updates(q, t) : r[i] = q[i]
      <4>1. Adds(r, t) = Adds(q, t)
        BY <1>1, PushedAdds
      <4>2. Updates(r, t) = Updates(q, t)
        BY <1>1, PushedUpdates
      <4>3. Len(q) + 1 \in Deletes(r, t)
        BY <1>1 DEF IsPushed, Deletes
      <4>4. /\ \A i \in Adds(q, t) : i < Len(q) + 1
            /\ \A i \in Updates(q, t) : r[i] = q[i]
        BY <1>1 DEF IsPushed, Adds, Updates
      <4> QED
        BY <4>1, <4>2, <4>3, <4>4
    <3>2. t \in DOMAIN hs
      BY <2>1, <2>3 DEF Known
    <3>3. Removed(r, ls \ {t}, rs, t)
      BY <3>1 DEF Removed
    <3>4. Current(r, hs, rs, t)
      BY <2>1, <2>3, <3>1 DEF Current
    <3> QED
      BY <2>3, <3>2, <3>3, <3>4 DEF Known
  <2> QED
    BY <2>2, <2>3
<1> QED
  BY <1>2 DEF Settled, j

\* The wallet gives transactions a height: the job that says so is the last that is about them.
LEMMA SettledUpdate ==
    ASSUME NEW q, NEW r, NEW hs, NEW ls, NEW rs, NEW S \in SUBSET Tx, NEW h \in Heights,
           Settled(q, hs, ls, rs), S \subseteq DOMAIN hs, IsPushed(q, TxUpdated(S, h), r)
    PROVE  Settled(r, [x \in DOMAIN hs |-> IF x \in S THEN h ELSE hs[x]], ls, rs)
<1> DEFINE j == TxUpdated(S, h)
           hs2 == [x \in DOMAIN hs |-> IF x \in S THEN h ELSE hs[x]]
<1>1. IsPushed(q, j, r) /\ j.op = "updated" /\ j.left = S /\ j.height = h
  BY UpdateType
<1>2. DOMAIN hs2 = DOMAIN hs /\ \A x \in DOMAIN hs : hs2[x] = IF x \in S THEN h ELSE hs[x]
  OBVIOUS
<1> HIDE DEF j, hs2
<1>3. ASSUME NEW x \in Tx
      PROVE  Known(r, hs2, ls, rs, x) /\ Removed(r, ls, rs, x)
             /\ Current(r, hs2, rs, x)
  <2>1. Known(q, hs, ls, rs, x) /\ Removed(q, ls, rs, x) /\ Current(q, hs, rs, x)
    BY DEF Settled
  <2>2. CASE x \notin S
    BY <1>1, <1>2, <2>1, <2>2, PushedOther
  <2>3. CASE x \in S
    <3>1. /\ Adds(r, x) = Adds(q, x) /\ Deletes(r, x) = Deletes(q, x)
          /\ Len(q) + 1 \in Updates(r, x)
      <4>1. Adds(r, x) = Adds(q, x)
        BY <1>1, PushedAdds
      <4>2. Deletes(r, x) = Deletes(q, x)
        BY <1>1, PushedDeletes
      <4>3. Len(q) + 1 \in Updates(r, x)
        BY <1>1, <2>3 DEF IsPushed, Updates
      <4> QED
        BY <4>1, <4>2, <4>3
    <3>2. x \in DOMAIN hs2 /\ hs2[x] = h
      BY <1>2, <2>3
    <3>3. \A i \in Updates(r, x) : i = Len(q) + 1 \/ ~ (Len(q) + 1 <= i)
      BY <1>1 DEF IsPushed, Updates
    <3>4. r[Len(q) + 1] = j
      BY <1>1 DEF IsPushed
    <3>5. Current(r, hs2, rs, x)
      BY <1>1, <3>1, <3>2, <3>3, <3>4 DEF Current
    <3> QED
      BY <2>1, <3>1, <3>2, <3>5 DEF Known, Removed
  <2> QED
    BY <2>2, <2>3
<1> QED
  BY <1>3 DEF Settled, j, hs2

\* Blocks are to be saved, which is about no transaction.
LEMMA SettledBlocks ==
    ASSUME NEW q, NEW r, NEW hs, NEW ls, NEW rs, NEW j, j.op = "blocks",
           Settled(q, hs, ls, rs), IsPushed(q, j, r)
    PROVE  Settled(r, hs, ls, rs)
  BY PushedOther DEF Settled

\* Queues that differ only in the jobs that save blocks have the same jobs of each transaction.
LEMMA SameJobs ==
    ASSUME NEW q, NEW r, DOMAIN r = DOMAIN q,
           \A i \in DOMAIN q : r[i] = q[i] \/ (q[i].op = "blocks" /\ r[i].op = "blocks")
    PROVE  \A t : /\ Adds(r, t) = Adds(q, t) /\ Deletes(r, t) = Deletes(q, t)
                  /\ Updates(r, t) = Updates(q, t)
                  /\ \A i \in Updates(q, t) : r[i] = q[i]
<1> TAKE t
<1>1. Adds(r, t) = Adds(q, t)
  BY DEF Adds
<1>2. Deletes(r, t) = Deletes(q, t)
  BY DEF Deletes
<1>3. Updates(r, t) = Updates(q, t) /\ \A i \in Updates(q, t) : r[i] = q[i]
  BY DEF Updates
<1> QED
  BY <1>1, <1>2, <1>3

\* Jobs that save blocks may change: no transaction depends on them.
LEMMA SettledSame ==
    ASSUME NEW q, NEW r, NEW hs, NEW ls, NEW rs, Settled(q, hs, ls, rs), DOMAIN r = DOMAIN q,
           \A i \in DOMAIN q : r[i] = q[i] \/ (q[i].op = "blocks" /\ r[i].op = "blocks")
    PROVE  Settled(r, hs, ls, rs)
<1>1. ASSUME NEW t \in Tx
      PROVE  Known(r, hs, ls, rs, t) /\ Removed(r, ls, rs, t) /\ Current(r, hs, rs, t)
  <2>1. /\ Adds(r, t) = Adds(q, t) /\ Deletes(r, t) = Deletes(q, t)
        /\ Updates(r, t) = Updates(q, t)
        /\ \A i \in Updates(q, t) : r[i] = q[i]
    BY SameJobs
  <2>2. Known(q, hs, ls, rs, t) /\ Removed(q, ls, rs, t) /\ Current(q, hs, rs, t)
    BY DEF Settled
  <2> QED
    BY <2>1, <2>2 DEF Known, Removed, Current
<1> QED
  BY <1>1 DEF Settled

-----------------------------------------------------------------------------
(* The oldest job runs. *)

\* r is the queue q without its first job.
IsPopped(q, r) ==
    /\ Len(q) \in Nat \ {0} /\ DOMAIN q = 1..Len(q) /\ DOMAIN r = 1..(Len(q) - 1)
    /\ \A i \in 1..(Len(q) - 1) : r[i] = q[i + 1]

\* So it is when the database takes a job.
LEMMA Popped ==
    ASSUME NEW q \in Seq(Job), q # <<>>
    PROVE  Tail(q) \in Seq(Job) /\ IsPopped(q, Tail(q)) /\ Head(q) = q[1] /\ 1 \in DOMAIN q
<1>1. /\ Tail(q) \in Seq(Job) /\ Len(Tail(q)) = Len(q) - 1
      /\ \A i \in 1..Len(Tail(q)) : Tail(q)[i] = q[i + 1]
      /\ Head(q) = q[1]
  BY HeadTailProperties
<1>2. Len(q) \in Nat /\ DOMAIN q = 1..Len(q) /\ DOMAIN Tail(q) = 1..Len(Tail(q)) /\ Len(q) # 0
  BY <1>1, LenProperties, EmptySeq
<1> QED
  BY <1>1, <1>2 DEF IsPopped

\* The jobs of one transaction: those that are left move up.
LEMMA PoppedAdds ==
    ASSUME NEW q, NEW r, NEW t, IsPopped(q, r)
    PROVE  /\ \A i \in Adds(r, t) : i \in Nat /\ i + 1 \in Adds(q, t)
           /\ \A i \in Adds(q, t) : i \in Nat /\ 1 <= i
  BY DEF IsPopped, Adds

LEMMA PoppedDeletes ==
    ASSUME NEW q, NEW r, NEW t, IsPopped(q, r)
    PROVE  /\ \A i \in Deletes(r, t) : i \in Nat /\ i + 1 \in Deletes(q, t)
           /\ \A i \in Deletes(q, t) : i \in Nat /\ 1 <= i /\ (i # 1 => i - 1 \in Deletes(r, t))
  BY DEF IsPopped, Deletes

LEMMA PoppedUpdates ==
    ASSUME NEW q, NEW r, NEW t, IsPopped(q, r)
    PROVE  /\ \A i \in Updates(r, t) : i \in Nat /\ i + 1 \in Updates(q, t) /\ r[i] = q[i + 1]
           /\ \A i \in Updates(q, t) : i \in Nat /\ 1 <= i /\ (i # 1 => i - 1 \in Updates(r, t))
  BY DEF IsPopped, Updates

\* What a job may do to the row of a transaction.
RowStep(q, hs, rs, rs2, t) ==
    /\ 1 \notin Updates(q, t)
    /\ t \in DOMAIN rs2 =>
          /\ t \in DOMAIN rs \/ 1 \in Adds(q, t)
          /\ 1 \notin Deletes(q, t)
          /\ rs2[t] = hs[t] \/ (t \in DOMAIN rs /\ rs2[t] = rs[t])

\* A transaction stays settled when the oldest job has run,
LEMMA PoppedOne ==
    ASSUME NEW q, NEW r, NEW hs, NEW ls, NEW rs, NEW rs2, NEW t, IsPopped(q, r),
           Known(q, hs, ls, rs, t) /\ Removed(q, ls, rs, t) /\ Current(q, hs, rs, t),
           RowStep(q, hs, rs, rs2, t)
    PROVE  Known(r, hs, ls, rs2, t) /\ Removed(r, ls, rs2, t) /\ Current(r, hs, rs2, t)
<1>1. /\ \A i \in Adds(r, t) : i \in Nat /\ i + 1 \in Adds(q, t)
      /\ \A i \in Adds(q, t) : i \in Nat /\ 1 <= i
  BY PoppedAdds
<1>2. /\ \A i \in Deletes(r, t) : i \in Nat /\ i + 1 \in Deletes(q, t)
      /\ \A i \in Deletes(q, t) : i \in Nat /\ 1 <= i /\ (i # 1 => i - 1 \in Deletes(r, t))
  BY PoppedDeletes
<1>3. /\ \A i \in Updates(r, t) : i \in Nat /\ i + 1 \in Updates(q, t) /\ r[i] = q[i + 1]
      /\ \A i \in Updates(q, t) : i \in Nat /\ 1 <= i /\ (i # 1 => i - 1 \in Updates(r, t))
  BY PoppedUpdates
<1>4. Known(r, hs, ls, rs2, t)
  BY <1>1, <1>2, <1>3 DEF Known, RowStep
<1>5. Removed(r, ls, rs2, t)
  <2>1. CASE t \in ls
    BY <1>2, <2>1 DEF Removed
  <2>2. CASE t \notin ls
    <3>1. ASSUME NEW i \in Adds(r, t)
          PROVE  \E j \in Deletes(r, t) : i < j
      <4>1. PICK k \in Deletes(q, t) : i + 1 < k
        BY <1>1, <2>2, <3>1 DEF Removed
      <4>2. k - 1 \in Deletes(r, t) /\ i < k - 1
        BY <1>1, <1>2, <3>1, <4>1
      <4> QED
        BY <4>2
    <3>2. ASSUME t \in DOMAIN rs2
          PROVE  Deletes(r, t) # {}
      <4>1. PICK k \in Deletes(q, t) : k # 1
        <5>1. CASE t \in DOMAIN rs
          BY <2>2, <3>2, <5>1 DEF Removed, RowStep
        <5>2. CASE 1 \in Adds(q, t)
          BY <1>2, <2>2, <5>2 DEF Removed
        <5> QED
          BY <3>2, <5>1, <5>2 DEF RowStep
      <4> QED
        BY <1>2, <4>1
    <3> QED
      BY <2>2, <3>1, <3>2 DEF Removed
  <2> QED
    BY <2>1, <2>2
<1>6. Current(r, hs, rs2, t)
  <2>1. ASSUME NEW i \in Updates(r, t), \A j \in Updates(r, t) : j <= i
        PROVE  r[i].height = hs[t]
    <3>1. \A j \in Updates(q, t) : j <= i + 1
      BY <1>3, <2>1 DEF RowStep
    <3> QED
      BY <1>3, <3>1 DEF Current
  <2>2. ASSUME t \in DOMAIN rs2, Updates(r, t) = {}
        PROVE  rs2[t] = hs[t]
    <3>1. Updates(q, t) = {}
      BY <1>3, <2>2 DEF RowStep
    <3> QED
      BY <2>2, <3>1 DEF Current, RowStep
  <2> QED
    BY <2>1, <2>2 DEF Current
<1> QED
  BY <1>4, <1>5, <1>6

\* and so do all of them.
LEMMA SettledPop ==
    ASSUME NEW q, NEW r, NEW hs, NEW ls, NEW rs, NEW rs2, IsPopped(q, r), Settled(q, hs, ls, rs),
           \A t \in Tx : RowStep(q, hs, rs, rs2, t)
    PROVE  Settled(r, hs, ls, rs2)
  BY PoppedOne DEF Settled

\* One row is updated, and its transaction is no more to be updated by the job.
RowUpdated(q, r, rs, rs2, t) ==
    /\ DOMAIN r = DOMAIN q /\ DOMAIN q \subseteq Nat \ {0} /\ 1 \in DOMAIN q
    /\ q[1].op = "updated" /\ t \in q[1].left /\ t \in DOMAIN rs
    /\ r[1].op = "updated" /\ r[1].left = q[1].left \ {t} /\ r[1].height = q[1].height
    /\ \A i \in DOMAIN q : i # 1 => r[i] = q[i]
    /\ DOMAIN rs2 = DOMAIN rs /\ rs2[t] = q[1].height
    /\ \A x \in DOMAIN rs : x # t => rs2[x] = rs[x]

LEMMA SettledUpdateRow ==
    ASSUME NEW q, NEW r, NEW hs, NEW ls, NEW rs, NEW rs2, NEW t, Settled(q, hs, ls, rs),
           RowUpdated(q, r, rs, rs2, t)
    PROVE  Settled(r, hs, ls, rs2)
<1> USE DEF RowUpdated
<1>1. ASSUME NEW x \in Tx
      PROVE  Known(r, hs, ls, rs2, x) /\ Removed(r, ls, rs2, x) /\ Current(r, hs, rs2, x)
  <2>1. Known(q, hs, ls, rs, x) /\ Removed(q, ls, rs, x) /\ Current(q, hs, rs, x)
    BY DEF Settled
  <2>2. Adds(r, x) = Adds(q, x)
    BY DEF Adds
  <2>3. Deletes(r, x) = Deletes(q, x)
    BY DEF Deletes
  <2>4. Updates(r, x) = IF x = t THEN Updates(q, x) \ {1} ELSE Updates(q, x)
    BY DEF Updates
  <2>5. \A i \in Updates(r, x) : r[i].height = q[i].height
    BY DEF Updates
  <2>6. Known(r, hs, ls, rs2, x) /\ Removed(r, ls, rs2, x)
    BY <2>1, <2>2, <2>3, <2>4 DEF Known, Removed
  <2>7. Current(r, hs, rs2, x)
    <3>1. CASE x # t
      BY <2>1, <2>4, <2>5, <3>1 DEF Current
    <3>2. CASE x = t
      <4>1. 1 \in Updates(q, t) /\ \A i \in Updates(q, t) : i \in Nat /\ 1 <= i
        BY DEF Updates
      <4>2. ASSUME NEW i \in Updates(r, t), \A j \in Updates(r, t) : j <= i
            PROVE  r[i].height = hs[t]
        <5>1. i \in Updates(q, t) /\ \A j \in Updates(q, t) : j <= i
          BY <2>4, <3>2, <4>1, <4>2
        <5> QED
          BY <2>1, <2>5, <3>2, <5>1 DEF Current
      <4>3. ASSUME Updates(r, t) = {}
            PROVE  rs2[t] = hs[t]
        <5>1. \A j \in Updates(q, t) : j <= 1
          BY <2>4, <3>2, <4>3
        <5> QED
          BY <2>1, <3>2, <4>1, <5>1 DEF Current
      <4> QED
        BY <3>2, <4>2, <4>3 DEF Current
    <3> QED
      BY <3>1, <3>2
  <2> QED
    BY <2>6, <2>7
<1> QED
  BY <1>1 DEF Settled

\* The fields of a job.
LEMMA JobFields ==
    ASSUME NEW j \in Job
    PROVE  /\ j.op \in {"added", "deleted", "updated", "blocks"}
           /\ j.op \in {"added", "deleted"} => j.tx \in Tx
           /\ j.op = "updated" => j.left \in SUBSET Tx /\ j.height \in Heights
                                  /\ j = [op |-> "updated", left |-> j.left, height |-> j.height]
           /\ j.op = "blocks" => j.blocks \in SUBSET Block
                                  /\ j = [op |-> "blocks", replace |-> j.replace, blocks |-> j.blocks,
                                          intact |-> j.intact]
                                  /\ j.replace \in BOOLEAN /\ j.intact \in BOOLEAN
<1>1. CASE j \in [op : {"added", "deleted"}, tx : Tx]
  BY <1>1
<1>2. CASE j \in [op : {"updated"}, left : SUBSET Tx, height : Heights]
  BY <1>2
<1>3. CASE j \in [op : {"blocks"}, replace : BOOLEAN, blocks : SUBSET Block, intact : BOOLEAN]
  BY <1>3
<1> QED
  BY <1>1, <1>2, <1>3 DEF Job, Heights

\* The job of txAdded.  It reads the height when it runs, which later updates have too.
LEMMA InsertSettled ==
    ASSUME Typed, Settled(queue, height, listed, rows), InsertRow
    PROVE  Settled(queue', height', listed', rows')
<1>1. /\ queue \in Seq(Job) /\ queue # <<>> /\ queue' = Tail(queue)
      /\ height' = height /\ listed' = listed
  BY DEF Typed, InsertRow, Runs
<1>2. IsPopped(queue, queue') /\ Head(queue) = queue[1] /\ 1 \in DOMAIN queue
  BY <1>1, Popped
<1>3. queue[1].op = "added"
  BY <1>2 DEF InsertRow, Runs
<1> DEFINE t == queue[1].tx
<1>4. \/ rows' = rows
      \/ rows' = [x \in DOMAIN rows \cup {t} |-> IF x = t THEN height[t] ELSE rows[x]]
  BY <1>2 DEF InsertRow
<1>5. ASSUME NEW x \in Tx
      PROVE  RowStep(queue, height, rows, rows', x)
  <2>1. 1 \notin Updates(queue, x) /\ 1 \notin Deletes(queue, x)
    BY <1>3 DEF Updates, Deletes
  <2>2. x = t => 1 \in Adds(queue, x)
    BY <1>2, <1>3 DEF Adds
  <2> QED
    BY <1>4, <2>1, <2>2 DEF RowStep
<1> QED
  BY <1>1, <1>2, <1>5, SettledPop

\* The job of txDeleted.
LEMMA DeleteSettled ==
    ASSUME Typed, Settled(queue, height, listed, rows), DeleteRow
    PROVE  Settled(queue', height', listed', rows')
<1>1. /\ queue \in Seq(Job) /\ queue # <<>> /\ queue' = Tail(queue)
      /\ height' = height /\ listed' = listed
  BY DEF Typed, DeleteRow, Runs
<1>2. IsPopped(queue, queue') /\ Head(queue) = queue[1] /\ 1 \in DOMAIN queue
  BY <1>1, Popped
<1>3. queue[1].op = "deleted"
  BY <1>2 DEF DeleteRow, Runs
<1>4. rows' = [x \in DOMAIN rows \ {queue[1].tx} |-> rows[x]]
  BY <1>2 DEF DeleteRow, Restrict
<1>5. ASSUME NEW x \in Tx
      PROVE  RowStep(queue, height, rows, rows', x)
  <2>1. 1 \notin Updates(queue, x)
    BY <1>3 DEF Updates
  <2>2. 1 \in Deletes(queue, x) => x = queue[1].tx
    BY DEF Deletes
  <2> QED
    BY <1>4, <2>1, <2>2 DEF RowStep
<1> QED
  BY <1>1, <1>2, <1>5, SettledPop

\* One row of the job of txUpdated,
LEMMA RowIsUpdated ==
    ASSUME Typed, UpdateRow
    PROVE  \E t \in DOMAIN rows : RowUpdated(queue, queue', rows, rows', t)
<1>1. queue \in Seq(Job) /\ queue # <<>> /\ height' = height /\ listed' = listed
  BY DEF Typed, UpdateRow, Runs
<1>2. IsPopped(queue, Tail(queue)) /\ Head(queue) = queue[1] /\ 1 \in DOMAIN queue
  BY <1>1, Popped
<1>3. queue[1].op = "updated" /\ queue[1] \in Job
  BY <1>1, <1>2, ElementOfSeq DEF UpdateRow, Runs, IsPopped
<1>4. queue[1] = [op |-> "updated", left |-> queue[1].left, height |-> queue[1].height]
  BY <1>3, JobFields
<1>5. PICK t \in queue[1].left \cap DOMAIN rows :
          /\ rows' = [rows EXCEPT ![t] = queue[1].height]
          /\ queue' = [queue EXCEPT ![1].left = @ \ {t}]
  BY <1>2 DEF UpdateRow
<1>6. queue' = [queue EXCEPT ![1] = [queue[1] EXCEPT !.left = queue[1].left \ {t}]]
  BY <1>5
<1>7. /\ DOMAIN queue' = DOMAIN queue
      /\ queue'[1] = [queue[1] EXCEPT !.left = queue[1].left \ {t}]
      /\ \A i \in DOMAIN queue : i # 1 => queue'[i] = queue[i]
  BY <1>2, <1>6
<1>8. /\ queue'[1].op = "updated" /\ queue'[1].left = queue[1].left \ {t}
      /\ queue'[1].height = queue[1].height
  BY <1>4, <1>7
<1>9. DOMAIN queue \subseteq Nat \ {0}
  BY <1>2 DEF IsPopped
<1>10. /\ DOMAIN rows' = DOMAIN rows /\ rows'[t] = queue[1].height
       /\ \A x \in DOMAIN rows : x # t => rows'[x] = rows[x]
  BY <1>5
<1>11. t \in queue[1].left /\ t \in DOMAIN rows
  OBVIOUS
<1>12. RowUpdated(queue, queue', rows, rows', t)
  BY <1>2, <1>3, <1>7, <1>8, <1>9, <1>10, <1>11 DEF RowUpdated
<1> QED
  BY <1>11, <1>12

\* after which the others are as they should be.
LEMMA UpdateRowSettled ==
    ASSUME Typed, Settled(queue, height, listed, rows), UpdateRow
    PROVE  Settled(queue', height', listed', rows')
<1>1. height' = height /\ listed' = listed
  BY DEF UpdateRow
<1>2. PICK t \in DOMAIN rows : RowUpdated(queue, queue', rows, rows', t)
  BY RowIsUpdated
<1> QED
  BY <1>1, <1>2, SettledUpdateRow

\* Its end, unless the app exits.
LEMMA UpdatedSettled ==
    ASSUME Typed, Settled(queue, height, listed, rows), UpdatedRows, app' = "running"
    PROVE  Settled(queue', height', listed', rows')
<1>1. /\ queue \in Seq(Job) /\ queue # <<>> /\ queue' = Tail(queue)
      /\ height' = height /\ listed' = listed /\ rows' = rows
  BY DEF Typed, UpdatedRows, Runs
<1>2. IsPopped(queue, queue') /\ Head(queue) = queue[1] /\ 1 \in DOMAIN queue
  BY <1>1, Popped
<1>3. queue[1].op = "updated" /\ queue[1].left = {}
  BY <1>2 DEF UpdatedRows, Runs
<1>4. ASSUME NEW x \in Tx
      PROVE  RowStep(queue, height, rows, rows', x)
  <2>1. 1 \notin Updates(queue, x) /\ 1 \notin Deletes(queue, x)
    BY <1>3 DEF Updates, Deletes
  <2> QED
    BY <1>1, <2>1 DEF RowStep
<1> QED
  BY <1>1, <1>2, <1>4, SettledPop

\* The job of saveBlocks.
LEMMA StoreSettled ==
    ASSUME Typed, Settled(queue, height, listed, rows), StoreBlocks
    PROVE  Settled(queue', height', listed', rows')
<1>1. /\ queue \in Seq(Job) /\ queue # <<>> /\ queue' = Tail(queue)
      /\ height' = height /\ listed' = listed /\ rows' = rows
  BY DEF Typed, StoreBlocks, Runs
<1>2. IsPopped(queue, queue') /\ Head(queue) = queue[1] /\ 1 \in DOMAIN queue
  BY <1>1, Popped
<1>3. queue[1].op = "blocks"
  BY <1>2 DEF StoreBlocks, Runs
<1>4. ASSUME NEW x \in Tx
      PROVE  RowStep(queue, height, rows, rows', x)
  <2>1. 1 \notin Updates(queue, x) /\ 1 \notin Deletes(queue, x)
    BY <1>3 DEF Updates, Deletes
  <2> QED
    BY <1>1, <2>1 DEF RowStep
<1> QED
  BY <1>1, <1>2, <1>4, SettledPop

\* The next start begins with the rows and an empty queue.
LEMMA StartSettled ==
    ASSUME NEW rs
    PROVE  Settled(<<>>, rs, DOMAIN rs, rs)
  BY DEF Settled, Known, Removed, Current, Adds, Deletes, Updates

-----------------------------------------------------------------------------
(* Numbers. *)

\* A set of numbers has a least one.
LEMMA LeastNumber ==
    ASSUME NEW T, T \subseteq Nat, T # {}
    PROVE  \E n \in T : \A m \in T : n <= m
<1> DEFINE R == OpToRel(<, Nat)
<1>1. \A x, y \in Nat : x < y => <<x, y>> \in R
  BY DEF OpToRel
<1>2. IsWellFoundedOn(R, Nat)
  BY NatLessThanWellFounded
<1> HIDE DEF R
<1>3. PICK x \in T : \A y \in T : ~ (<<y, x>> \in R)
  BY <1>2, WFMin
<1>4. \A y \in T : ~ (y < x)
  BY <1>1, <1>3
<1>5. \A y \in T : x <= y
  BY <1>4
<1> QED
  BY <1>3, <1>5

\* What holds 0 and, with a number, the next one holds all of them.
LEMMA NumberInduction ==
    ASSUME NEW S, 0 \in S, \A n \in Nat : n \in S => n + 1 \in S
    PROVE  Nat \subseteq S
<1> SUFFICES ASSUME Nat \ S # {}
             PROVE  FALSE
  OBVIOUS
<1>1. PICK n \in Nat \ S : \A m \in Nat \ S : n <= m
  BY LeastNumber
<1>2. n # 0 /\ n - 1 \in Nat
  OBVIOUS
<1>3. n - 1 \in S
  BY <1>1, <1>2
<1> QED
  BY <1>1, <1>2, <1>3

\* The least number of a set.
LEMMA MinIs ==
    ASSUME NEW T, T \subseteq Nat, T # {}
    PROVE  Min(T) \in T /\ \A m \in T : Min(T) <= m
  BY LeastNumber DEF Min

\* The greatest number of a bounded set.
LEMMA MaxIs ==
    ASSUME NEW T, NEW bound \in Nat, T \subseteq Nat, T # {}, \A n \in T : n <= bound
    PROVE  Max(T) \in T /\ \A m \in T : m <= Max(T)
<1> DEFINE U == {n \in Nat : \A m \in T : m <= n}
<1>1. bound \in U
  OBVIOUS
<1>2. PICK top \in U : \A n \in U : top <= n
  BY <1>1, LeastNumber
<1>3. top \in T
  <2> SUFFICES ASSUME top \notin T
               PROVE  FALSE
    OBVIOUS
  <2>1. PICK m \in T : TRUE
    OBVIOUS
  <2>2. m \in Nat /\ m <= top /\ m # top
    BY <1>2
  <2>3. top - 1 \in Nat
    BY <1>2, <2>2
  <2>4. \A n \in T : n <= top - 1
    BY <1>2
  <2> QED
    BY <1>2, <2>3, <2>4
<1>4. \A m \in T : m <= top
  BY <1>2
<1> HIDE DEF U
<1>5. \E x \in T : \A y \in T : x >= y
  BY <1>3, <1>4
<1> QED
  BY <1>5 DEF Max

-----------------------------------------------------------------------------
(* Walks along the blocks. *)

LEMMA Heighted == \A b \in Block : Height(b) \in Nat /\ Height(b) < TX_UNCONFIRMED
  BY DatabaseAssumption

\* W[x]: what is found from x along next, while it is in S.
Walks(W, next, S) ==
    W = [x \in Block |-> {x} \cup (IF next[x] \in S THEN W[next[x]] ELSE {})]

\* A walk that always gets nearer to its end.
Ranked(next, S, rank) ==
    \A x \in Block : rank[x] \in Nat /\ (next[x] \in S => next[x] \in Block /\ rank[next[x]] < rank[x])

\* Such walks end: the recursive function exists.
LEMMA WalkExists ==
    ASSUME NEW next, NEW S, NEW rank, NEW bound \in Nat, Ranked(next, S, rank),
           \A x \in Block : rank[x] <= bound
    PROVE  \E W : Walks(W, next, S)
<1> DEFINE e(f, x) == {x} \cup (IF next[x] \in S THEN f[next[x]] ELSE {})
           K == {k \in Nat : \E f : \A x \in Block : rank[x] <= k => f[x] = e(f, x)}
           step(f) == [x \in Block |-> e(f, x)]
<1>1. ASSUME NEW k \in Nat, NEW f, \A x \in Block : rank[x] <= k => f[x] = e(f, x)
      PROVE  \A x \in Block : rank[x] <= k + 1 => step(f)[x] = e(step(f), x)
  <2> SUFFICES ASSUME NEW x \in Block, rank[x] <= k + 1
               PROVE  step(f)[x] = e(step(f), x)
    OBVIOUS
  <2>1. next[x] \in S => next[x] \in Block /\ rank[next[x]] <= k
    BY DEF Ranked
  <2>2. next[x] \in S => step(f)[next[x]] = f[next[x]]
    BY <1>1, <2>1
  <2> QED
    BY <2>2
<1>2. 0 \in K
  <2> DEFINE f == [x \in Block |-> {x}]
  <2>1. \A x \in Block : rank[x] <= 0 => f[x] = e(f, x)
    BY DEF Ranked
  <2> QED
    BY <2>1
<1>3. ASSUME NEW k \in Nat, k \in K
      PROVE  k + 1 \in K
  <2>1. PICK f : \A x \in Block : rank[x] <= k => f[x] = e(f, x)
    BY <1>3
  <2>2. \A x \in Block : rank[x] <= k + 1 => step(f)[x] = e(step(f), x)
    BY <1>1, <2>1
  <2> HIDE DEF step, e
  <2> QED
    BY <2>2
<1>4. bound \in K
  <2> HIDE DEF K
  <2> QED
    BY <1>2, <1>3, NumberInduction
<1>5. PICK f : \A x \in Block : rank[x] <= bound => f[x] = e(f, x)
  BY <1>4
<1>6. \A x \in Block : step(f)[x] = f[x]
  BY <1>5
<1>7. \A x \in Block : next[x] \in S => next[x] \in Block
  BY DEF Ranked
<1>8. step(f) = [x \in Block |-> e(step(f), x)]
  BY <1>6, <1>7
<1> DEFINE W == step(f)
<1>9. W = [x \in Block |-> {x} \cup (IF next[x] \in S THEN W[next[x]] ELSE {})]
  BY <1>8
<1> HIDE DEF W
<1> QED
  BY <1>9 DEF Walks

\* A walk goes along blocks.
LEMMA WalkBlocks ==
    ASSUME NEW W, NEW next, NEW S, NEW rank, Walks(W, next, S), Ranked(next, S, rank)
    PROVE  \A x \in Block : x \in W[x] /\ W[x] \subseteq Block
<1> DEFINE K == {k \in Nat : \A x \in Block : rank[x] <= k => W[x] \subseteq Block}
<1>1. \A x \in Block : W[x] = {x} \cup (IF next[x] \in S THEN W[next[x]] ELSE {})
  BY DEF Walks
<1>2. 0 \in K
  BY <1>1 DEF Ranked
<1>3. ASSUME NEW k \in Nat, k \in K
      PROVE  k + 1 \in K
  <2>1. ASSUME NEW x \in Block, rank[x] <= k + 1
        PROVE  W[x] \subseteq Block
    <3>1. next[x] \in S => next[x] \in Block /\ rank[next[x]] <= k
      BY <2>1 DEF Ranked
    <3> QED
      BY <1>1, <1>3, <3>1
  <2> QED
    BY <2>1
<1>4. Nat \subseteq K
  <2> HIDE DEF K
  <2> QED
    BY <1>2, <1>3, NumberInduction
<1>5. \A x \in Block : rank[x] \in Nat /\ rank[x] <= rank[x]
  BY DEF Ranked
<1> QED
  BY <1>1, <1>4, <1>5

\* b and what is found from it along prevBlock: one block of each height, from b down.
IsBranch(S, b) ==
    /\ b \in S /\ S \subseteq Block
    /\ \A x \in S : Height(x) <= Height(b)
    /\ \A x \in S : \A h \in Height(x)..Height(b) : \E z \in S : Height(z) = h

\* The chain of a block in memory is a branch.
LEMMA ChainIsBranch ==
    ASSUME NEW bs \in SUBSET Block, NEW b \in Block
    PROVE  IsBranch(Chain(bs, b), b)
<1> DEFINE next == [x \in Block |-> BlockData[x].prev]
           rank == [x \in Block |-> Height(x)]
           C == CHOOSE f : f = [x \in Block |->
                    {x} \cup (IF BlockData[x].prev \in bs THEN f[BlockData[x].prev] ELSE {})]
<1>1. \A x \in Block : /\ next[x] = BlockData[x].prev
                       /\ Height(x) \in Nat
                       /\ BlockData[x].prev \in bs =>
                             BlockData[x].prev \in Block /\ Height(x) = Height(BlockData[x].prev) + 1
  BY DatabaseAssumption
<1>2. Ranked(next, bs, rank)
  BY <1>1 DEF Ranked
<1>3. \E f : f = [x \in Block |-> {x} \cup (IF BlockData[x].prev \in bs THEN f[BlockData[x].prev] ELSE {})]
  <2>1. \A x \in Block : rank[x] <= TX_UNCONFIRMED
    BY Heighted, DatabaseAssumption
  <2> HIDE DEF rank, next
  <2>2. PICK W : Walks(W, next, bs)
    BY <1>2, <2>1, WalkExists, DatabaseAssumption
  <2>3. W = [x \in Block |-> {x} \cup (IF next[x] \in bs THEN W[next[x]] ELSE {})]
    BY <2>2 DEF Walks
  <2>4. W = [x \in Block |-> {x} \cup (IF BlockData[x].prev \in bs THEN W[BlockData[x].prev] ELSE {})]
    BY <1>1, <2>3
  <2> QED
    BY <2>4, Zenon
<1>4. C = [x \in Block |-> {x} \cup (IF BlockData[x].prev \in bs THEN C[BlockData[x].prev] ELSE {})]
  BY <1>3
<1>5. Chain(bs, b) = C[b]
  BY DEF Chain
<1> HIDE DEF C
<1>6. Walks(C, next, bs)
  BY <1>4 DEF Walks
<1> HIDE DEF next, rank
<1>7. \A x \in Block : x \in C[x] /\ C[x] \subseteq Block
  BY <1>2, <1>6, WalkBlocks
<1> DEFINE K == {k \in Nat : \A x \in Block : Height(x) = k => IsBranch(C[x], x)}
<1>8. ASSUME NEW x \in Block, BlockData[x].prev \notin bs
      PROVE  IsBranch(C[x], x)
  <2>1. C[x] = {x}
    BY <1>4, <1>8
  <2> QED
    BY <1>1, <2>1 DEF IsBranch
<1>9. ASSUME NEW x \in Block, BlockData[x].prev \in bs, IsBranch(C[BlockData[x].prev], BlockData[x].prev)
      PROVE  IsBranch(C[x], x)
  <2>1. PICK y : y = BlockData[x].prev
    OBVIOUS
  <2>2. C[x] = {x} \cup C[y]
    BY <1>4, <1>9, <2>1
  <2>3. y \in Block /\ Height(y) \in Nat /\ Height(x) = Height(y) + 1 /\ IsBranch(C[y], y)
    BY <1>1, <1>9, <2>1
  <2>4. \A z \in C[y] : Height(z) \in Nat /\ Height(z) <= Height(y)
    BY <1>1, <2>3 DEF IsBranch
  <2>5. ASSUME NEW z \in C[x], NEW h \in Height(z)..Height(x)
        PROVE  \E w \in C[x] : Height(w) = h
    <3>1. CASE h = Height(x)
      BY <2>2, <3>1
    <3>2. CASE h # Height(x)
      <4>1. z \in C[y] /\ h \in Height(z)..Height(y)
        BY <2>2, <2>3, <2>4, <3>2
      <4> QED
        BY <2>2, <2>3, <4>1 DEF IsBranch
    <3> QED
      BY <3>1, <3>2
  <2>6. \A z \in C[x] : Height(z) <= Height(x)
    BY <2>2, <2>3, <2>4
  <2> QED
    BY <1>7, <2>5, <2>6 DEF IsBranch
<1>10. 0 \in K
  <2>1. ASSUME NEW x \in Block, Height(x) = 0
        PROVE  BlockData[x].prev \notin bs
    BY <1>1, <2>1
  <2> QED
    BY <1>8, <2>1
<1>11. ASSUME NEW k \in Nat, k \in K
       PROVE  k + 1 \in K
  <2>1. ASSUME NEW x \in Block, Height(x) = k + 1
        PROVE  IsBranch(C[x], x)
    <3>1. CASE BlockData[x].prev \notin bs
      BY <1>8, <3>1
    <3>2. CASE BlockData[x].prev \in bs
      <4>1. PICK y : y = BlockData[x].prev
        OBVIOUS
      <4>2. y \in Block /\ Height(y) \in Nat /\ Height(x) = Height(y) + 1
        BY <1>1, <3>2, <4>1
      <4>3. Height(y) = k
        BY <2>1, <4>2
      <4>4. IsBranch(C[y], y)
        BY <1>11, <4>2, <4>3
      <4> QED
        BY <1>9, <3>2, <4>1, <4>4
    <3> QED
      BY <3>1, <3>2
  <2> QED
    BY <2>1
<1> HIDE DEF K
<1>12. Nat \subseteq K
  BY <1>10, <1>11, NumberInduction
<1> QED
  BY <1>1, <1>5, <1>12 DEF K

\* The part of a branch from one height up, if there is any, is a section.
LEMMA UpperPart ==
    ASSUME NEW S, NEW T, NEW b \in Block, NEW low \in Int, IsBranch(S, b), T # {},
           T = {x \in S : Height(x) >= low}
    PROVE  Section(T)
<1>1. \A x \in S : x \in Block /\ Height(x) \in Nat /\ Height(x) <= Height(b)
  BY Heighted DEF IsBranch
<1>2. ASSUME NEW x \in T, NEW y \in T, NEW h \in Height(x)..Height(y)
      PROVE  \E z \in T : Height(z) = h
  <2>1. x \in S /\ y \in S /\ Height(x) \in Nat /\ Height(y) \in Nat /\ Height(x) >= low
    BY <1>1
  <2>2. h \in Height(x)..Height(b) /\ h >= low
    BY <1>1, <2>1, Heighted
  <2>3. PICK z \in S : Height(z) = h
    BY <2>1, <2>2 DEF IsBranch
  <2> QED
    BY <2>2, <2>3
<1> QED
  BY <1>1, <1>2 DEF Section

\* A section, from its highest block down.
LEMMA DownwardsIs ==
    ASSUME NEW S, Section(S)
    PROVE  /\ Max({Height(x) : x \in S}) \in Nat /\ Min({Height(x) : x \in S}) \in Nat
           /\ Downwards(S) \in [1..(Max({Height(x) : x \in S}) - Min({Height(x) : x \in S}) + 1) -> Block]
           /\ Downwards(S) \in Seq(Block)
<1> DEFINE heights == {Height(x) : x \in S}
<1>1. heights \subseteq Nat /\ heights # {} /\ \A n \in heights : n <= TX_UNCONFIRMED
  BY Heighted, DatabaseAssumption DEF Section
<1>2. PICK top, low : top = Max(heights) /\ low = Min(heights)
  OBVIOUS
<1>3. top \in heights /\ low \in heights /\ low <= top
  <2> HIDE DEF heights
  <2>1. TX_UNCONFIRMED \in Nat
    BY DatabaseAssumption
  <2>2. Max(heights) \in heights /\ \A m \in heights : m <= Max(heights)
    BY <1>1, <2>1, MaxIs
  <2>3. Min(heights) \in heights
    BY <1>1, MinIs
  <2> QED
    BY <1>2, <2>2, <2>3
<1>4. Downwards(S) = [i \in 1..(top - low + 1) |-> CHOOSE x \in S : Height(x) = top + 1 - i]
  BY <1>2 DEF Downwards
<1>5. PICK x \in S, y \in S : Height(x) = low /\ Height(y) = top
  BY <1>3
<1>6. top \in Nat /\ low \in Nat
  BY <1>1, <1>3
<1>7. ASSUME NEW i \in 1..(top - low + 1)
      PROVE  (CHOOSE z \in S : Height(z) = top + 1 - i) \in Block
  <2>1. top + 1 - i \in low..top
    BY <1>6
  <2>2. PICK h : h = top + 1 - i
    OBVIOUS
  <2>3. \E z \in S : Height(z) = h
    BY <1>5, <2>1, <2>2 DEF Section
  <2>4. (CHOOSE z \in S : Height(z) = h) \in S
    BY <2>3
  <2> QED
    BY <2>2, <2>4 DEF Section
<1>8. Downwards(S) \in [1..(top - low + 1) -> Block]
  BY <1>4, <1>7
<1>9. top - low + 1 \in Nat
  BY <1>3, <1>6
<1>10. Downwards(S) \in Seq(Block)
  BY <1>8, <1>9
<1> QED
  BY <1>2, <1>6, <1>8, <1>10

-----------------------------------------------------------------------------
(* The next start. *)

\* The store as the invariant has it.
Stored == store \in Seq(Block)

\* The rows are blocks.
LEMMA StoreIs ==
    ASSUME Stored
    PROVE  /\ Len(store) \in Nat /\ DOMAIN store = 1..Len(store)
           /\ \A i \in DOMAIN store : store[i] \in Block /\ i \in Nat /\ i <= Len(store)
<1>1. Len(store) \in Nat /\ DOMAIN store = 1..Len(store)
  BY LenProperties DEF Stored
<1>2. \A i \in 1..Len(store) : store[i] \in Block
  BY ElementOfSeq DEF Stored
<1> QED
  BY <1>1, <1>2

\* The walk of the next start goes up by one block at a time.
LEMMA FollowingIs ==
    ASSUME Stored, NEW b \in Block
    PROVE  /\ Following(b) \in Block \cup {NoBlock}
           /\ Following(b) # NoBlock => Following(b) \in Block /\ Height(Following(b)) = Height(b) + 1
<1>1. PICK next : next = {i \in DOMAIN store : BlockData[store[i]].prev = b}
  OBVIOUS
<1>2. Following(b) = IF next = {} THEN NoBlock ELSE store[Max(next)]
  BY <1>1 DEF Following
<1>3. CASE next = {}
  BY <1>2, <1>3
<1>4. CASE next # {}
  <2>1. Max(next) \in next
    <3>1. next \subseteq Nat /\ \A i \in next : i <= Len(store)
      BY <1>1, StoreIs
    <3> QED
      BY <1>4, <3>1, MaxIs, StoreIs
  <2>2. PICK x : x = store[Max(next)]
    OBVIOUS
  <2>3. x \in Block /\ BlockData[x].prev = b
    BY <1>1, <2>1, <2>2, StoreIs
  <2>4. Height(x) = Height(b) + 1
    BY <2>3, DatabaseAssumption
  <2> QED
    BY <1>2, <1>4, <2>2, <2>3, <2>4
<1> QED
  BY <1>3, <1>4

\* It begins at a block, if there is a transition block.
LEMMA LastTransitionIs ==
    ASSUME Stored
    PROVE  LastTransition \in Block \cup {NoBlock}
<1>1. PICK T : T = {i \in DOMAIN store : Height(store[i]) % BLOCK_DIFFICULTY_INTERVAL = 0}
  OBVIOUS
<1>2. PICK high : high = Max({Height(store[i]) : i \in T})
  OBVIOUS
<1>3. PICK rowsOf : rowsOf = {i \in T : Height(store[i]) = high}
  OBVIOUS
<1>4. LastTransition = IF T = {} THEN NoBlock ELSE store[Min(rowsOf)]
  BY <1>1, <1>2, <1>3 DEF LastTransition
<1>5. ASSUME T # {}
      PROVE  store[Min(rowsOf)] \in Block
  <2> DEFINE H == {Height(store[i]) : i \in T}
  <2>1. H \subseteq Nat /\ H # {} /\ \A n \in H : n <= TX_UNCONFIRMED
    BY <1>1, <1>5, StoreIs, Heighted, DatabaseAssumption
  <2>2. high \in H
    <3> HIDE DEF H
    <3>1. Max(H) \in H
      BY <2>1, MaxIs, DatabaseAssumption
    <3> QED
      BY <1>2, <3>1 DEF H
  <2>3. rowsOf # {} /\ rowsOf \subseteq DOMAIN store
    BY <1>1, <1>3, <2>2
  <2>4. rowsOf \subseteq Nat
    BY <2>3, StoreIs
  <2>5. Min(rowsOf) \in rowsOf
    BY <2>3, <2>4, MinIs
  <2> QED
    BY <2>3, <2>5, StoreIs
<1> QED
  BY <1>4, <1>5

\* The chain that is restored, and its tip.
LEMMA RestoredIs ==
    ASSUME Stored
    PROVE  Restored \subseteq Block /\ RestoredTip \in Restored
<1> DEFINE next == [x \in Block |-> Following(x)]
           rank == [x \in Block |-> TX_UNCONFIRMED - Height(x)]
           F == CHOOSE f : f = [b \in Block |->
                    {b} \cup (IF Following(b) = NoBlock THEN {} ELSE f[Following(b)])]
<1>1. \A x \in Block : next[x] = Following(x) /\ (Following(x) \in Block <=> Following(x) # NoBlock)
  BY FollowingIs, DatabaseAssumption
<1>2. Ranked(next, Block, rank) /\ \A x \in Block : rank[x] <= TX_UNCONFIRMED
  <2>1. ASSUME NEW x \in Block
        PROVE  rank[x] \in Nat /\ rank[x] <= TX_UNCONFIRMED
    BY Heighted, DatabaseAssumption
  <2>2. ASSUME NEW x \in Block, Following(x) \in Block
        PROVE  rank[Following(x)] < rank[x]
    <3>1. PICK y : y = Following(x)
      OBVIOUS
    <3>2. y \in Block /\ Height(y) = Height(x) + 1
      BY <1>1, <2>2, <3>1, FollowingIs
    <3>3. rank[y] < rank[x]
      BY <3>2, Heighted, DatabaseAssumption
    <3> QED
      BY <3>1, <3>3
  <2> QED
    BY <2>1, <2>2 DEF Ranked
<1>3. \E f : f = [b \in Block |-> {b} \cup (IF Following(b) = NoBlock THEN {} ELSE f[Following(b)])]
  <2> HIDE DEF rank, next
  <2>1. PICK W : Walks(W, next, Block)
    BY <1>2, WalkExists, DatabaseAssumption
  <2>2. W = [x \in Block |-> {x} \cup (IF next[x] \in Block THEN W[next[x]] ELSE {})]
    BY <2>1 DEF Walks
  <2>3. W = [b \in Block |-> {b} \cup (IF Following(b) = NoBlock THEN {} ELSE W[Following(b)])]
    BY <1>1, <2>2
  <2> QED
    BY <2>3, Zenon
<1>4. F = [b \in Block |-> {b} \cup (IF Following(b) = NoBlock THEN {} ELSE F[Following(b)])]
  BY <1>3
<1>5. Restored = {Genesis} \cup (IF LastTransition = NoBlock THEN {} ELSE F[LastTransition])
  BY DEF Restored
<1> HIDE DEF F
<1>6. Walks(F, next, Block)
  <2>1. F = [b \in Block |-> {b} \cup (IF next[b] \in Block THEN F[next[b]] ELSE {})]
    BY <1>1, <1>4
  <2> QED
    BY <2>1 DEF Walks
<1> HIDE DEF next, rank
<1>7. \A x \in Block : F[x] \subseteq Block
  BY <1>2, <1>6, WalkBlocks
<1>8. Restored \subseteq Block
  BY <1>5, <1>7, LastTransitionIs, DatabaseAssumption
<1>9. RestoredTip \in Restored
  <2> DEFINE H == {Height(x) : x \in Restored}
  <2>1. H \subseteq Nat /\ H # {} /\ \A n \in H : n <= TX_UNCONFIRMED
    BY <1>5, <1>8, Heighted, DatabaseAssumption
  <2>2. \E n \in H : \A m \in H : m <= n
    <3> HIDE DEF H
    <3> QED
      BY <2>1, MaxIs, DatabaseAssumption
  <2>3. PICK b \in Restored : \A x \in Restored : Height(x) <= Height(b)
    BY <2>2
  <2> QED
    BY <2>3 DEF RestoredTip
<1> QED
  BY <1>8, <1>9

-----------------------------------------------------------------------------
(* Heights are set. *)

\* The wallet gives the transactions of S a height, with a job if there are any.
Change(hs, S, h) ==
    [heights |-> [t \in DOMAIN hs |-> IF t \in S THEN h ELSE hs[t]],
     jobs |-> IF S = {} THEN <<>> ELSE <<TxUpdated(S, h)>>]

\* A queue after which the rows are as they should be.
Good(q, hs, ls, rs, D) ==
    /\ q \in Seq(Job) /\ (\A i \in DOMAIN q : GoodJob(q[i]))
    /\ hs \in [D -> Heights]
    /\ Settled(q, hs, ls, rs)

\* A job at the end of the queue.
LEMMA PushGood ==
    ASSUME NEW q \in Seq(Job), NEW j \in Job, \A i \in DOMAIN q : GoodJob(q[i]), GoodJob(j)
    PROVE  /\ q \o <<j>> \in Seq(Job) /\ IsPushed(q, j, q \o <<j>>)
           /\ \A i \in DOMAIN (q \o <<j>>) : GoodJob((q \o <<j>>)[i])
<1>1. PICK r : r = q \o <<j>>
  OBVIOUS
<1>2. r \in Seq(Job) /\ IsPushed(q, j, r)
  BY <1>1, Pushed
<1>3. \A i \in DOMAIN r : GoodJob(r[i])
  BY <1>2 DEF IsPushed
<1> QED
  BY <1>1, <1>2, <1>3

\* A change of heights and its job leave the rows settled.
LEMMA ChangeGood ==
    ASSUME NEW q, NEW hs, NEW ls, NEW rs, NEW D \in SUBSET Tx, NEW S \in SUBSET D, NEW h \in Heights,
           Good(q, hs, ls, rs, D)
    PROVE  /\ Change(hs, S, h).jobs \in Seq(Job)
           /\ Good(q \o Change(hs, S, h).jobs, Change(hs, S, h).heights, ls, rs, D)
<1>1. PICK hs2 : hs2 = [t \in DOMAIN hs |-> IF t \in S THEN h ELSE hs[t]]
  OBVIOUS
<1>2. /\ Change(hs, S, h).heights = hs2
      /\ Change(hs, S, h).jobs = IF S = {} THEN <<>> ELSE <<TxUpdated(S, h)>>
  BY <1>1 DEF Change
<1>3. q \in Seq(Job) /\ (\A i \in DOMAIN q : GoodJob(q[i])) /\ hs \in [D -> Heights] /\ DOMAIN hs = D
  BY DEF Good
<1>4. hs2 \in [D -> Heights]
  BY <1>1, <1>3
<1>5. CASE S = {}
  <2>1. hs2 = hs
    BY <1>1, <1>3, <1>5
  <2>2. q \o <<>> = q /\ <<>> \in Seq(Job)
    BY <1>3, ConcatEmptySeq
  <2> QED
    BY <1>2, <1>5, <2>1, <2>2
<1>6. CASE S # {}
  <2>1. PICK j : j = TxUpdated(S, h)
    OBVIOUS
  <2>2. S \in SUBSET Tx
    OBVIOUS
  <2>3. j \in Job /\ j.op = "updated" /\ GoodJob(j)
    BY <2>1, <2>2, UpdateType DEF GoodJob
  <2>4. PICK r : r = q \o <<j>>
    OBVIOUS
  <2>5. r \in Seq(Job) /\ IsPushed(q, j, r) /\ \A i \in DOMAIN r : GoodJob(r[i])
    BY <1>3, <2>3, <2>4, PushGood
  <2>6. Settled(r, hs2, ls, rs)
    BY <1>1, <1>3, <2>1, <2>2, <2>5, SettledUpdate DEF Good
  <2>7. <<j>> \in Seq(Job)
    BY <2>3
  <2> QED
    BY <1>2, <1>4, <1>6, <2>1, <2>4, <2>5, <2>6, <2>7 DEF Good
<1> QED
  BY <1>5, <1>6

\* BRWalletUpdateTransactions and BRWalletSetTxUnconfirmedAfter are such changes.
LEMMA UpdateGood ==
    ASSUME NEW q, NEW hs, NEW ls, NEW rs, NEW D \in SUBSET Tx, NEW S, NEW h \in Heights,
           Good(q, hs, ls, rs, D)
    PROVE  /\ UpdateTransactions(hs, S, h).jobs \in Seq(Job)
           /\ Good(q \o UpdateTransactions(hs, S, h).jobs, UpdateTransactions(hs, S, h).heights, ls, rs, D)
<1>1. PICK C : C = {t \in S \cap DOMAIN hs : hs[t] # h}
  OBVIOUS
<1>2. UpdateTransactions(hs, S, h) = Change(hs, C, h)
  BY <1>1 DEF UpdateTransactions, Change
<1>3. C \in SUBSET D
  BY <1>1 DEF Good
<1> QED
  BY <1>2, <1>3, ChangeGood

LEMMA UnconfirmGood ==
    ASSUME NEW q, NEW rs, NEW D \in SUBSET Tx, NEW h, listed \subseteq D, Good(q, height, listed, rs, D)
    PROVE  /\ SetTxUnconfirmedAfter(h).jobs \in Seq(Job)
           /\ Good(q \o SetTxUnconfirmedAfter(h).jobs, SetTxUnconfirmedAfter(h).heights, listed, rs, D)
<1>1. PICK C : C = {t \in listed : height[t] > h}
  OBVIOUS
<1>2. SetTxUnconfirmedAfter(h) = Change(height, C, TX_UNCONFIRMED)
  BY <1>1 DEF SetTxUnconfirmedAfter, Change
<1>3. C \in SUBSET D /\ TX_UNCONFIRMED \in Heights
  BY <1>1 DEF Heights
<1> QED
  BY <1>2, <1>3, ChangeGood

\* C[n]: what is done after n blocks.
Confirms(C, first, list, count) ==
    C = [n \in 0..count |-> IF n = 0 THEN first ELSE ConfirmBlock(C[n - 1], list[n])]

LEMMA ConfirmsExists ==
    ASSUME NEW first, NEW list, NEW count \in Nat
    PROVE  \E C : Confirms(C, first, list, count)
<1> DEFINE e(f, n) == IF n = 0 THEN first ELSE ConfirmBlock(f[n - 1], list[n])
           K == {k \in Nat : \E f : \A n \in 0..count : n <= k => f[n] = e(f, n)}
           step(f) == [n \in 0..count |-> e(f, n)]
<1>1. ASSUME NEW k \in Nat, NEW f, \A n \in 0..count : n <= k => f[n] = e(f, n)
      PROVE  \A n \in 0..count : n <= k + 1 => step(f)[n] = e(step(f), n)
  <2> SUFFICES ASSUME NEW n \in 0..count, n <= k + 1
               PROVE  step(f)[n] = e(step(f), n)
    OBVIOUS
  <2>1. CASE n = 0
    BY <2>1
  <2>2. CASE n # 0
    <3>1. n - 1 \in 0..count /\ n - 1 <= k
      BY <2>2
    <3>2. step(f)[n - 1] = f[n - 1]
      BY <1>1, <3>1
    <3> QED
      BY <2>2, <3>2
  <2> QED
    BY <2>1, <2>2
<1>2. 0 \in K
  <2> DEFINE f == [n \in 0..count |-> first]
  <2>1. \A n \in 0..count : n <= 0 => f[n] = e(f, n)
    OBVIOUS
  <2> HIDE DEF f, e
  <2> QED
    BY <2>1
<1>3. ASSUME NEW k \in Nat, k \in K
      PROVE  k + 1 \in K
  <2>1. PICK f : \A n \in 0..count : n <= k => f[n] = e(f, n)
    BY <1>3
  <2>2. \A n \in 0..count : n <= k + 1 => step(f)[n] = e(step(f), n)
    BY <1>1, <2>1
  <2> HIDE DEF step, e
  <2> QED
    BY <2>2
<1>4. count \in K
  <2> HIDE DEF K
  <2> QED
    BY <1>2, <1>3, NumberInduction
<1>5. PICK f : \A n \in 0..count : n <= count => f[n] = e(f, n)
  BY <1>4
<1>6. \A n \in 0..count : step(f)[n] = f[n]
  BY <1>5
<1>7. \A n \in 0..count : n # 0 => n - 1 \in 0..count
  OBVIOUS
<1>8. \A n \in 0..count : e(step(f), n) = e(f, n)
  BY <1>6, <1>7
<1> DEFINE W == step(f)
<1>9. W = [n \in 0..count |-> e(W, n)]
  BY <1>8
<1> HIDE DEF W
<1>10. W = [n \in 0..count |-> IF n = 0 THEN first ELSE ConfirmBlock(W[n - 1], list[n])]
  BY <1>9
<1> QED
  BY <1>10 DEF Confirms

LEMMA ConfirmDownIs ==
    ASSUME NEW first, NEW list, NEW count \in Nat
    PROVE  \E C : Confirms(C, first, list, count) /\ ConfirmDown(first, list, count) = C[count]
<1> DEFINE C == CHOOSE f : f = [n \in 0..count |-> IF n = 0 THEN first ELSE ConfirmBlock(f[n - 1], list[n])]
<1>1. \E f : f = [n \in 0..count |-> IF n = 0 THEN first ELSE ConfirmBlock(f[n - 1], list[n])]
  <2>1. PICK f : Confirms(f, first, list, count)
    BY ConfirmsExists
  <2> QED
    BY <2>1, Zenon DEF Confirms
<1>2. C = [n \in 0..count |-> IF n = 0 THEN first ELSE ConfirmBlock(C[n - 1], list[n])]
  BY <1>1
<1>3. ConfirmDown(first, list, count) = C[count]
  BY DEF ConfirmDown
<1> HIDE DEF C
<1> QED
  BY <1>2, <1>3 DEF Confirms

\* All that is done in acc waits after q.
Waits(q, ls, rs, D, acc) ==
    acc.jobs \in Seq(Job) /\ Good(q \o acc.jobs, acc.heights, ls, rs, D)

\* One block of the new main chain,
LEMMA ConfirmGood ==
    ASSUME NEW q \in Seq(Job), NEW ls, NEW rs, NEW D \in SUBSET Tx, NEW acc, NEW x \in Block,
           Waits(q, ls, rs, D, acc)
    PROVE  Waits(q, ls, rs, D, ConfirmBlock(acc, x))
<1>1. PICK u : u = UpdateTransactions(acc.heights, TxHashes(x), Height(x))
  OBVIOUS
<1>2. ConfirmBlock(acc, x).heights = u.heights /\ ConfirmBlock(acc, x).jobs = acc.jobs \o u.jobs
  BY <1>1 DEF ConfirmBlock
<1>3. Height(x) \in Heights
  BY DEF Heights
<1>4. Good(q \o acc.jobs, acc.heights, ls, rs, D) /\ acc.jobs \in Seq(Job)
  BY DEF Waits
<1>5. u.jobs \in Seq(Job) /\ Good((q \o acc.jobs) \o u.jobs, u.heights, ls, rs, D)
  BY <1>1, <1>3, <1>4, UpdateGood
<1>6. (q \o acc.jobs) \o u.jobs = q \o (acc.jobs \o u.jobs)
  <2>1. \A a, c \in Seq(Job) : (q \o a) \o c = q \o (a \o c)
    BY ConcatAssociative
  <2> QED
    BY <1>4, <1>5, <2>1
<1>7. acc.jobs \o u.jobs \in Seq(Job)
  BY <1>4, <1>5, ConcatProperties
<1> QED
  BY <1>2, <1>5, <1>6, <1>7 DEF Waits

\* and all of them.
LEMMA ConfirmDownGood ==
    ASSUME NEW q \in Seq(Job), NEW ls, NEW rs, NEW D \in SUBSET Tx, NEW first, NEW list, NEW count \in Nat,
           Waits(q, ls, rs, D, first), \A n \in 1..count : list[n] \in Block
    PROVE  Waits(q, ls, rs, D, ConfirmDown(first, list, count))
<1>1. PICK C : Confirms(C, first, list, count) /\ ConfirmDown(first, list, count) = C[count]
  BY ConfirmDownIs
<1>2. \A n \in 0..count : C[n] = IF n = 0 THEN first ELSE ConfirmBlock(C[n - 1], list[n])
  BY <1>1 DEF Confirms
<1> DEFINE K == {k \in Nat : k <= count => Waits(q, ls, rs, D, C[k])}
<1>3. 0 \in K
  BY <1>2
<1>4. ASSUME NEW k \in Nat, k \in K
      PROVE  k + 1 \in K
  <2> SUFFICES ASSUME k + 1 <= count
               PROVE  Waits(q, ls, rs, D, C[k + 1])
    OBVIOUS
  <2>1. C[k + 1] = ConfirmBlock(C[k], list[k + 1])
    BY <1>2
  <2>2. Waits(q, ls, rs, D, C[k]) /\ list[k + 1] \in Block
    BY <1>4
  <2> QED
    BY <2>1, <2>2, ConfirmGood
<1> HIDE DEF K
<1>5. count \in K
  BY <1>3, <1>4, NumberInduction
<1> QED
  BY <1>1, <1>5 DEF K

-----------------------------------------------------------------------------
(* The blocks to save. *)

Saves(s) ==
    /\ s \in [Peers -> Job \cup {NoJob}]
    /\ \A p \in Peers : s[p] # NoJob => GoodJob(s[p]) /\ s[p].op = "blocks"

\* What is saved is a section of the chain.
LEMMA SaveSetGood ==
    ASSUME NEW bs \in SUBSET Block, NEW b \in Block, NEW count \in Nat \ {0}, SaveSet(bs, b, count) # {}
    PROVE  Section(SaveSet(bs, b, count))
<1>1. PICK C : C = Chain(bs, b)
  OBVIOUS
<1>2. IsBranch(C, b)
  BY <1>1, ChainIsBranch
<1>3. PICK last : last = {x \in C : Height(x) > Height(b) - count}
  OBVIOUS
<1>4. PICK lowest : lowest = Min({Height(x) : x \in last})
  OBVIOUS
<1>5. PICK skip : skip = (0 - lowest) % BLOCK_DIFFICULTY_INTERVAL
  OBVIOUS
<1>6. PICK T : T = SaveSet(bs, b, count)
  OBVIOUS
<1>7. T = {x \in last : Height(x) >= lowest + skip}
  BY <1>1, <1>3, <1>4, <1>5, <1>6 DEF SaveSet
<1>8. \A x \in C : x \in Block /\ Height(x) \in Nat
  BY <1>2, Heighted DEF IsBranch
<1>9. lowest \in Nat
  <2> DEFINE H == {Height(x) : x \in last}
  <2>1. b \in last
    BY <1>2, <1>3, Heighted DEF IsBranch
  <2>2. H \subseteq Nat /\ H # {}
    BY <1>3, <1>8, <2>1
  <2> HIDE DEF H
  <2>3. Min(H) \in H
    BY <2>2, MinIs
  <2> QED
    BY <1>4, <2>2, <2>3 DEF H
<1>10. skip \in Int
  BY <1>5, <1>9, DatabaseAssumption
<1>11. PICK low \in Int : low >= lowest + skip /\ low >= Height(b) - count + 1
                          /\ (low = lowest + skip \/ low = Height(b) - count + 1)
  <2>1. lowest + skip \in Int /\ Height(b) - count + 1 \in Int
    BY <1>9, <1>10, Heighted
  <2> QED
    BY <2>1
<1>12. T = {x \in C : Height(x) >= low}
  BY <1>3, <1>7, <1>8, <1>9, <1>10, <1>11, Heighted
<1> QED
  BY <1>2, <1>6, <1>11, <1>12, UpperPart

\* The job that saves it.
LEMMA SaveJob ==
    ASSUME NEW S, Section(S)
    PROVE  SaveBlocks(S) \in Job /\ SaveBlocks(S).op = "blocks" /\ GoodJob(SaveBlocks(S))
<1>1. PICK j : j = SaveBlocks(S)
  OBVIOUS
<1>2. j = [op |-> "blocks", replace |-> Cardinality(S) > 1, blocks |-> S, intact |-> TRUE]
  BY <1>1 DEF SaveBlocks
<1>3. (Cardinality(S) > 1) \in BOOLEAN /\ S \in SUBSET Block
  BY DEF Section
<1>4. j \in [op : {"blocks"}, replace : BOOLEAN, blocks : SUBSET Block, intact : BOOLEAN]
  BY <1>2, <1>3
<1>5. j \in Job
  BY <1>4 DEF Job
<1>6. j.op = "blocks" /\ j.blocks = S
  BY <1>2
<1> QED
  BY <1>1, <1>5, <1>6 DEF GoodJob

\* The blocks that a thread has in hand after the unlock.
LEMMA SaveNextGood ==
    ASSUME NEW p \in Peers, NEW bs \in SUBSET Block, NEW b \in Block, Saves(saving), SaveNext(p, bs, b)
    PROVE  Saves(saving')
<1>1. PICK count \in SaveCounts(b) :
          saving' = [saving EXCEPT ![p] =
              IF (IF count = 0 THEN {} ELSE SaveSet(bs, b, count)) = {} THEN NoJob
              ELSE SaveBlocks(IF count = 0 THEN {} ELSE SaveSet(bs, b, count))]
  BY DEF SaveNext
<1>2. count \in Nat
  BY Heighted, DatabaseAssumption DEF SaveCounts, FullCount
<1>3. PICK S : S = IF count = 0 THEN {} ELSE SaveSet(bs, b, count)
  OBVIOUS
<1>4. S # {} => Section(S)
  BY <1>2, <1>3, SaveSetGood
<1>5. PICK j : j = IF S = {} THEN NoJob ELSE SaveBlocks(S)
  OBVIOUS
<1>6. saving' = [saving EXCEPT ![p] = j]
  BY <1>1, <1>3, <1>5
<1>7. j = NoJob \/ (j \in Job /\ GoodJob(j) /\ j.op = "blocks")
  BY <1>4, <1>5, SaveJob
<1> QED
  BY <1>6, <1>7 DEF Saves

\* A job that points to a freed block is the job it was.
LEMMA DangleGood ==
    ASSUME NEW j \in Job, NEW b, GoodJob(j)
    PROVE  /\ Dangle(j, b) \in Job /\ GoodJob(Dangle(j, b)) /\ Dangle(j, b).op = j.op
           /\ Dangle(j, b) = j \/ j.op = "blocks"
<1>1. CASE ~(j # NoJob /\ j.op = "blocks" /\ b \in j.blocks)
  BY <1>1 DEF Dangle
<1>2. CASE j # NoJob /\ j.op = "blocks" /\ b \in j.blocks
  <2>1. PICK k : k = [j EXCEPT !.intact = FALSE]
    OBVIOUS
  <2>2. Dangle(j, b) = k
    BY <1>2, <2>1 DEF Dangle
  <2>3. /\ j = [op |-> "blocks", replace |-> j.replace, blocks |-> j.blocks, intact |-> j.intact]
        /\ j.replace \in BOOLEAN /\ j.blocks \in SUBSET Block
    BY <1>2, JobFields
  <2>4. k = [op |-> "blocks", replace |-> j.replace, blocks |-> j.blocks, intact |-> FALSE]
    <3>1. PICK r, s, i : j = [op |-> "blocks", replace |-> r, blocks |-> s, intact |-> i]
      BY <2>3, Zenon
    <3>2. j.replace = r /\ j.blocks = s
      BY <3>1
    <3>3. k = [op |-> "blocks", replace |-> r, blocks |-> s, intact |-> FALSE]
      BY <2>1, <3>1
    <3> QED
      BY <3>2, <3>3
  <2>5. k \in Job
    BY <2>3, <2>4 DEF Job
  <2>6. k.op = "blocks" /\ k.blocks = j.blocks
    BY <2>4
  <2> QED
    BY <1>2, <2>2, <2>5, <2>6 DEF GoodJob
<1> QED
  BY <1>1, <1>2

\* Freeing a block leaves what the threads have in hand well typed.
LEMMA DangleSaves ==
    ASSUME NEW b, Saves(saving)
    PROVE  Saves([q \in Peers |-> Dangle(saving[q], b)])
<1>1. ASSUME NEW q \in Peers
      PROVE  \/ Dangle(saving[q], b) = NoJob
             \/ /\ Dangle(saving[q], b) \in Job /\ GoodJob(Dangle(saving[q], b))
                /\ Dangle(saving[q], b).op = "blocks"
  <2>1. CASE saving[q] = NoJob
    BY <2>1 DEF Dangle
  <2>2. CASE saving[q] # NoJob
    BY <2>2, DangleGood DEF Saves, GoodJob
  <2> QED
    BY <2>1, <2>2
<1> QED
  BY <1>1 DEF Saves

-----------------------------------------------------------------------------
(* _peerRelayedBlock. *)

LEMMA RunningGood ==
    ASSUME IInv, app = "running"
    PROVE  /\ Good(queue, height, listed, rows, DOMAIN height)
           /\ DOMAIN height \in SUBSET Tx /\ listed \subseteq DOMAIN height
           /\ Saves(saving) /\ queue \in Seq(Job)
           /\ tip \in blocks /\ blocks \in SUBSET Block /\ bare \subseteq blocks
  BY DEF IInv, Typed, Good, Saves

\* What a block that is relayed leaves.
BlockStep ==
    /\ tip' \in blocks' /\ blocks' \subseteq Block /\ bare' \subseteq blocks'
    /\ Saves(saving')
    /\ Good(queue', height', listed, rows, DOMAIN height)

LEMMA ExtendsStep ==
    ASSUME IInv, app = "running", NEW p \in Peers, NEW b \in Block, ExtendsMainChain(p, b)
    PROVE  BlockStep
<1>1. PICK u : u = UpdateTransactions(height, BlockData[b].txs, Height(b))
  OBVIOUS
<1>2. /\ blocks' = blocks \cup {b} /\ tip' = b /\ bare' = bare
      /\ height' = u.heights /\ queue' = queue \o u.jobs
      /\ SaveNext(p, blocks', b)
  BY <1>1 DEF ExtendsMainChain, Enqueue
<1>3. Height(b) \in Heights
  BY DEF Heights
<1>4. Good(queue', height', listed, rows, DOMAIN height)
  BY <1>1, <1>2, <1>3, RunningGood, UpdateGood
<1>5. blocks' \in SUBSET Block
  BY <1>2, RunningGood
<1>6. Saves(saving')
  BY <1>2, <1>5, RunningGood, SaveNextGood
<1> QED
  BY <1>2, <1>4, <1>5, <1>6, RunningGood DEF BlockStep

LEMMA ExistingStep ==
    ASSUME IInv, app = "running", NEW p \in Peers, NEW b \in Block, ExistingBlock(p, b)
    PROVE  BlockStep
<1>1. PICK u : u = IF b \in Chain(blocks, tip) THEN UpdateTransactions(height, BlockData[b].txs, Height(b))
                                               ELSE [heights |-> height, jobs |-> <<>>]
  OBVIOUS
<1>2. PICK q : q = [i \in DOMAIN queue |-> Dangle(queue[i], b)]
  OBVIOUS
<1>3. /\ blocks' = blocks /\ tip' = tip /\ bare' = bare \ {b}
      /\ height' = u.heights /\ queue' = q \o u.jobs
      /\ saving' = [x \in Peers |-> Dangle(saving[x], b)]
  BY <1>1, <1>2 DEF ExistingBlock
<1>4. Len(queue) \in Nat /\ DOMAIN queue = 1..Len(queue) /\ \A i \in DOMAIN queue : queue[i] \in Job
  BY RunningGood, LenProperties, ElementOfSeq
<1>5. \A i \in DOMAIN queue : /\ q[i] \in Job /\ GoodJob(q[i])
                              /\ q[i] = queue[i] \/ (queue[i].op = "blocks" /\ q[i].op = "blocks")
  BY <1>2, <1>4, DangleGood, RunningGood DEF Good
<1>6. q \in Seq(Job) /\ DOMAIN q = DOMAIN queue
  BY <1>2, <1>4, <1>5
<1>7. Settled(q, height, listed, rows)
  BY <1>5, <1>6, SettledSame, RunningGood DEF Good
<1>8. Good(q, height, listed, rows, DOMAIN height)
  BY <1>5, <1>6, <1>7, RunningGood DEF Good
<1>9. Good(q \o u.jobs, u.heights, listed, rows, DOMAIN height)
  <2>1. CASE b \in Chain(blocks, tip)
    <3>1. Height(b) \in Heights
      BY DEF Heights
    <3> QED
      BY <1>1, <1>8, <2>1, <3>1, RunningGood, UpdateGood
  <2>2. CASE b \notin Chain(blocks, tip)
    <3>1. u.jobs = <<>> /\ u.heights = height
      BY <1>1, <2>2
    <3>2. q \o <<>> = q
      BY <1>6, ConcatEmptySeq
    <3> QED
      BY <1>8, <3>1, <3>2
  <2> QED
    BY <2>1, <2>2
<1>10. Saves(saving')
  BY <1>3, RunningGood, DangleSaves
<1> QED
  BY <1>3, <1>9, <1>10, RunningGood DEF BlockStep

LEMMA ForkStep ==
    ASSUME IInv, app = "running", NEW p \in Peers, NEW b \in Block, ExtendFork(p, b)
    PROVE  BlockStep
  BY RunningGood DEF BlockStep, ExtendFork

\* The branches to b and to top in memory, their join, and the blocks of the first after it.
ForkOf(bs, b, top, C, M, join, fork) ==
    /\ C = Chain(bs, b) /\ M = Chain(bs, top) /\ C \cap M # {}
    /\ join = Max({Height(x) : x \in C \cap M})
    /\ fork = {x \in C : Height(x) > join}
    /\ Height(b) > Height(top)

\* What the blocks after the join are,
AfterJoin(b, C, M, join, fork) ==
    /\ join \in Nat /\ join < Height(b)
    /\ \E x \in C \cap M : Height(x) = join
    /\ \A x \in C \cap M : Height(x) <= join
    /\ Section(fork) /\ Downwards(fork) \in [1..(Height(b) - join) -> Block]

\* from the tip of the new main chain down.
LEMMA ForkIs ==
    ASSUME NEW bs \in SUBSET Block, NEW b \in Block, NEW top \in Block, NEW C, NEW M, NEW join, NEW fork,
           b \in bs, ForkOf(bs, b, top, C, M, join, fork)
    PROVE  AfterJoin(b, C, M, join, fork)
<1>1. bs \in SUBSET Block /\ b \in Block /\ top \in Block
  OBVIOUS
<1>2. fork = {x \in C : Height(x) > join} /\ Height(b) > Height(top)
  BY DEF ForkOf
<1>3. IsBranch(C, b) /\ IsBranch(M, top)
  BY <1>1, ChainIsBranch DEF ForkOf
<1>4. /\ \E x \in C \cap M : Height(x) = join
      /\ \A x \in C \cap M : Height(x) <= join
  <2> DEFINE H == {Height(x) : x \in C \cap M}
  <2>1. H \subseteq Nat /\ H # {} /\ \A n \in H : n <= TX_UNCONFIRMED
    BY <1>3, Heighted, DatabaseAssumption DEF IsBranch, ForkOf
  <2>2. join \in H /\ \A n \in H : n <= join
    <3> HIDE DEF H
    <3>1. Max(H) \in H /\ \A n \in H : n <= Max(H)
      BY <2>1, MaxIs, DatabaseAssumption
    <3> QED
      BY <3>1 DEF H, ForkOf
  <2> QED
    BY <2>2
<1>5. PICK x \in C \cap M : Height(x) = join
  BY <1>4
<1>6. join \in Nat /\ join < Height(b) /\ Height(b) \in Nat
  <2>1. Height(x) \in Nat /\ Height(x) <= Height(top)
    BY <1>3, Heighted DEF IsBranch
  <2>2. Height(b) \in Nat /\ Height(top) \in Nat
    BY <1>1, Heighted
  <2> QED
    BY <1>2, <1>5, <2>1, <2>2
<1>7. Section(fork)
  <2>1. fork = {z \in C : Height(z) >= join + 1}
    BY <1>2, <1>3, <1>6, Heighted DEF IsBranch
  <2>2. b \in fork
    BY <1>2, <1>3, <1>6 DEF IsBranch
  <2> QED
    BY <1>1, <1>3, <1>6, <2>1, <2>2, UpperPart
<1>8. Max({Height(z) : z \in fork}) = Height(b) /\ Min({Height(z) : z \in fork}) = join + 1
  <2> DEFINE H == {Height(z) : z \in fork}
  <2>1. H \subseteq Nat /\ \A n \in H : join + 1 <= n /\ n <= Height(b)
    BY <1>2, <1>3, <1>6, Heighted DEF IsBranch
  <2>2. Height(b) \in H
    BY <1>2, <1>3, <1>6 DEF IsBranch
  <2>3. join + 1 \in H
    <3>1. join + 1 \in Height(x)..Height(b)
      BY <1>5, <1>6
    <3>2. PICK z \in C : Height(z) = join + 1
      BY <1>3, <1>5, <3>1 DEF IsBranch
    <3>3. z \in fork
      BY <1>2, <1>6, <3>2
    <3> QED
      BY <3>2, <3>3
  <2> HIDE DEF H
  <2>4. Max(H) \in H /\ \A n \in H : n <= Max(H)
    BY <1>6, <2>1, <2>2, MaxIs
  <2>5. Min(H) \in H /\ \A n \in H : Min(H) <= n
    BY <2>1, <2>2, MinIs
  <2>6. PICK high, low, hb : high = Max(H) /\ low = Min(H) /\ hb = Height(b)
    OBVIOUS
  <2>7. high \in Nat /\ high <= hb /\ hb <= high /\ hb \in Nat
    BY <1>6, <2>1, <2>2, <2>4, <2>6
  <2>8. low \in Nat /\ join + 1 <= low /\ low <= join + 1
    BY <1>6, <2>1, <2>3, <2>5, <2>6
  <2>9. high = hb /\ low = join + 1
    BY <1>6, <2>7, <2>8
  <2> QED
    BY <2>6, <2>9 DEF H
<1>9. Downwards(fork) \in [1..(Height(b) - join) -> Block]
  <2>1. Downwards(fork) \in
            [1..(Max({Height(z) : z \in fork}) - Min({Height(z) : z \in fork}) + 1) -> Block]
    BY <1>7, DownwardsIs
  <2>2. Height(b) - (join + 1) + 1 = Height(b) - join
    BY <1>6
  <2> QED
    BY <1>8, <2>1, <2>2
<1> QED
  BY <1>4, <1>6, <1>7, <1>9 DEF AfterJoin

LEMMA ReorganizeStep ==
    ASSUME IInv, app = "running", NEW p \in Peers, NEW b \in Block, Reorganize(p, b)
    PROVE  BlockStep
<1>1. PICK bs : bs = blocks \cup {b}
  OBVIOUS
<1>2. PICK C, M : C = Chain(bs, b) /\ M = Chain(bs, tip)
  OBVIOUS
<1>3. PICK join : join = Max({Height(x) : x \in C \cap M})
  OBVIOUS
<1>4. PICK fork : fork = {x \in C : Height(x) > join}
  OBVIOUS
<1>5. PICK all : all = ConfirmDown(SetTxUnconfirmedAfter(join), Downwards(fork), Height(b) - join)
  OBVIOUS
<1>6. /\ Height(b) > Height(tip) /\ C \cap M # {}
      /\ blocks' = bs /\ tip' = b /\ bare' = bare
      /\ height' = all.heights /\ queue' = queue \o all.jobs
      /\ SaveNext(p, bs, b)
  BY <1>1, <1>2, <1>3, <1>4, <1>5 DEF Reorganize, Enqueue
<1>7. bs \in SUBSET Block /\ b \in bs /\ tip \in Block
  BY <1>1, RunningGood
<1>8. ForkOf(bs, b, tip, C, M, join, fork)
  BY <1>2, <1>3, <1>4, <1>6 DEF ForkOf
<1>9. AfterJoin(b, C, M, join, fork)
  BY <1>7, <1>8, ForkIs
<1>10. PICK list, count : list = Downwards(fork) /\ count = Height(b) - join
  OBVIOUS
<1>11. count \in Nat /\ \A n \in 1..count : list[n] \in Block
  BY <1>9, <1>10, Heighted DEF AfterJoin
<1>12. PICK first : first = SetTxUnconfirmedAfter(join)
  OBVIOUS
<1>13. Waits(queue, listed, rows, DOMAIN height, first)
  BY <1>12, RunningGood, UnconfirmGood DEF Waits
<1>14. Waits(queue, listed, rows, DOMAIN height, ConfirmDown(first, list, count))
  BY <1>11, <1>13, RunningGood, ConfirmDownGood
<1>15. all = ConfirmDown(first, list, count)
  BY <1>5, <1>10, <1>12
<1>16. Good(queue', height', listed, rows, DOMAIN height)
  BY <1>6, <1>14, <1>15 DEF Waits
<1>17. Saves(saving')
  BY <1>6, <1>7, RunningGood, SaveNextGood
<1> QED
  BY <1>1, <1>6, <1>7, <1>16, <1>17, RunningGood DEF BlockStep

-----------------------------------------------------------------------------
(* Every step keeps the invariant. *)

LEMMA RelayedBlockKeeps ==
    ASSUME IInv, NEW p \in Peers, NEW b \in Block, RelayedBlock(p, b)
    PROVE  IInv'
<1>1. /\ app = "running" /\ app' = app /\ listed' = listed /\ rows' = rows /\ store' = store
      /\ ExtendsMainChain(p, b) \/ ExistingBlock(p, b) \/ ExtendFork(p, b) \/ Reorganize(p, b)
  BY DEF RelayedBlock
<1>2. BlockStep
  BY <1>1, ExtendsStep, ExistingStep, ForkStep, ReorganizeStep
<1>3. DOMAIN height' = DOMAIN height
  BY <1>2 DEF BlockStep, Good
<1> QED
  BY <1>1, <1>2, <1>3 DEF BlockStep, Good, Saves, IInv, Typed

\* The jobs that the wallet's callbacks put on the queue.
LEMMA TxJobs ==
    ASSUME NEW t \in Tx, Typed
    PROVE  /\ queue \o <<TxAdded(t)>> \in Seq(Job) /\ IsPushed(queue, TxAdded(t), queue \o <<TxAdded(t)>>)
           /\ \A i \in DOMAIN (queue \o <<TxAdded(t)>>) : GoodJob((queue \o <<TxAdded(t)>>)[i])
           /\ queue \o <<TxDeleted(t)>> \in Seq(Job) /\ IsPushed(queue, TxDeleted(t), queue \o <<TxDeleted(t)>>)
           /\ \A i \in DOMAIN (queue \o <<TxDeleted(t)>>) : GoodJob((queue \o <<TxDeleted(t)>>)[i])
<1>1. PICK j, k : j = TxAdded(t) /\ k = TxDeleted(t)
  OBVIOUS
<1>2. j \in Job /\ GoodJob(j) /\ k \in Job /\ GoodJob(k)
  BY <1>1, JobTypes DEF GoodJob
<1>3. queue \in Seq(Job) /\ \A i \in DOMAIN queue : GoodJob(queue[i])
  BY DEF Typed
<1> QED
  BY <1>1, <1>2, <1>3, PushGood

LEMMA RelayedTxKeeps ==
    ASSUME IInv, NEW t \in Tx, RelayedTx(t)
    PROVE  IInv'
<1>1. PICK q : q = queue \o <<TxAdded(t)>>
  OBVIOUS
<1>2. q \in Seq(Job) /\ IsPushed(queue, TxAdded(t), q) /\ \A i \in DOMAIN q : GoodJob(q[i])
  BY <1>1, TxJobs DEF IInv
<1>3. /\ app = "running" /\ t \notin DOMAIN height /\ queue' = q /\ listed' = listed \cup {t}
      /\ height' = [x \in DOMAIN height \cup {t} |-> IF x = t THEN TX_UNCONFIRMED ELSE height[x]]
      /\ UNCHANGED <<app, blocks, tip, bare, saving, rows, store>>
  BY <1>1 DEF RelayedTx, Enqueue
<1>4. Settled(q, height', listed', rows)
  <2>1. Settled(queue, height, listed, rows)
    BY <1>3 DEF IInv
  <2>2. DOMAIN height' = DOMAIN height \cup {t} /\ \A x \in DOMAIN height : height'[x] = height[x]
    BY <1>3
  <2>3. Settled(q, height', listed \cup {t}, rows)
    BY <1>2, <1>3, <2>1, <2>2, SettledAdd
  <2> QED
    BY <1>3, <2>3
<1>5. TX_UNCONFIRMED \in Heights
  BY DEF Heights
<1>6. DOMAIN height' = DOMAIN height \cup {t} /\ height' \in [DOMAIN height \cup {t} -> Heights]
  BY <1>3, <1>5 DEF IInv, Typed
<1> QED
  BY <1>2, <1>3, <1>4, <1>6 DEF IInv, Typed

LEMMA RemoveTxKeeps ==
    ASSUME IInv, NEW t \in Tx, RemoveTx(t)
    PROVE  IInv'
<1>1. PICK q : q = queue \o <<TxDeleted(t)>>
  OBVIOUS
<1>2. q \in Seq(Job) /\ IsPushed(queue, TxDeleted(t), q) /\ \A i \in DOMAIN q : GoodJob(q[i])
  BY <1>1, TxJobs DEF IInv
<1>3. /\ app = "running" /\ t \in listed /\ queue' = q /\ listed' = listed \ {t}
      /\ UNCHANGED <<app, height, blocks, tip, bare, saving, rows, store>>
  BY <1>1 DEF RemoveTx, Enqueue
<1>4. Settled(q, height, listed', rows)
  BY <1>2, <1>3, SettledDelete DEF IInv
<1> QED
  BY <1>2, <1>3, <1>4 DEF IInv, Typed

LEMMA CallSaveBlocksKeeps ==
    ASSUME IInv, NEW p \in Peers, CallSaveBlocks(p)
    PROVE  IInv'
<1>1. PICK j : j = saving[p]
  OBVIOUS
<1>2. PICK q : q = queue \o <<j>>
  OBVIOUS
<1>3. /\ app = "running" /\ j # NoJob /\ queue' = q /\ saving' = [saving EXCEPT ![p] = NoJob]
      /\ UNCHANGED <<app, height, listed, blocks, tip, bare, rows, store>>
  BY <1>1, <1>2 DEF CallSaveBlocks, Enqueue
<1>4. j \in Job /\ GoodJob(j) /\ j.op = "blocks"
  BY <1>1, <1>3 DEF IInv, Typed, GoodJob
<1>5. queue \in Seq(Job) /\ \A i \in DOMAIN queue : GoodJob(queue[i])
  BY DEF IInv, Typed
<1>6. q \in Seq(Job) /\ IsPushed(queue, j, q) /\ \A i \in DOMAIN q : GoodJob(q[i])
  BY <1>2, <1>4, <1>5, PushGood
<1>7. Settled(q, height, listed, rows)
  BY <1>3, <1>4, <1>6, SettledBlocks DEF IInv
<1> QED
  BY <1>3, <1>6, <1>7 DEF IInv, Typed

\* The queue without its oldest job.
LEMMA RestOfQueue ==
    ASSUME Typed, queue # <<>>
    PROVE  /\ Tail(queue) \in Seq(Job) /\ \A i \in DOMAIN Tail(queue) : GoodJob(Tail(queue)[i])
           /\ Head(queue) \in Job /\ GoodJob(Head(queue)) /\ Head(queue) = queue[1] /\ 1 \in DOMAIN queue
<1>1. queue \in Seq(Job) /\ \A i \in DOMAIN queue : GoodJob(queue[i])
  BY DEF Typed
<1>2. /\ Tail(queue) \in Seq(Job) /\ IsPopped(queue, Tail(queue))
      /\ Head(queue) = queue[1] /\ 1 \in DOMAIN queue
  BY <1>1, Popped
<1>3. \A i \in DOMAIN Tail(queue) : i + 1 \in DOMAIN queue /\ Tail(queue)[i] = queue[i + 1]
  BY <1>2 DEF IsPopped
<1> QED
  BY <1>1, <1>2, <1>3 DEF GoodJob

LEMMA InsertRowKeeps ==
    ASSUME IInv, InsertRow
    PROVE  IInv'
<1>1. /\ app = "running" /\ queue # <<>> /\ queue' = Tail(queue) /\ Head(queue).op = "added"
      /\ UNCHANGED <<app, height, listed, blocks, tip, bare, saving, store>>
  BY DEF InsertRow, Runs
<1>2. Settled(queue', height', listed', rows')
  BY <1>1, InsertSettled DEF IInv
<1>3. PICK t : t = Head(queue).tx
  OBVIOUS
<1>4. t \in Tx /\ t \in DOMAIN height
  <2>1. t \in Tx
    BY <1>1, <1>3, RestOfQueue, JobFields DEF IInv
  <2>2. 1 \in Adds(queue, t)
    BY <1>1, <1>3, RestOfQueue DEF Adds, IInv
  <2>3. Known(queue, height, listed, rows, t)
    BY <1>1, <2>1 DEF IInv, Settled
  <2> QED
    BY <2>1, <2>2, <2>3 DEF Known
<1>5. DOMAIN rows' \subseteq Tx /\ rows' \in [DOMAIN rows' -> Heights]
  <2>1. CASE rows' = rows
    BY <2>1 DEF IInv, Typed
  <2>2. CASE rows' = [x \in DOMAIN rows \cup {t} |-> IF x = t THEN height[t] ELSE rows[x]]
    BY <1>4, <2>2 DEF IInv, Typed
  <2> QED
    BY <1>3, <2>1, <2>2 DEF InsertRow
<1> QED
  BY <1>1, <1>2, <1>5, RestOfQueue DEF IInv, Typed

LEMMA DeleteRowKeeps ==
    ASSUME IInv, DeleteRow
    PROVE  IInv'
<1>1. /\ app = "running" /\ queue # <<>> /\ queue' = Tail(queue)
      /\ rows' = [x \in DOMAIN rows \ {Head(queue).tx} |-> rows[x]]
      /\ UNCHANGED <<app, height, listed, blocks, tip, bare, saving, store>>
  BY DEF DeleteRow, Runs, Restrict
<1>2. Settled(queue', height', listed', rows')
  BY <1>1, DeleteSettled DEF IInv
<1>3. DOMAIN rows' \subseteq Tx /\ rows' \in [DOMAIN rows' -> Heights]
  BY <1>1 DEF IInv, Typed
<1> QED
  BY <1>1, <1>2, <1>3, RestOfQueue DEF IInv, Typed

LEMMA UpdateRowKeeps ==
    ASSUME IInv, UpdateRow
    PROVE  IInv'
<1>1. /\ app = "running" /\ queue # <<>> /\ Head(queue).op = "updated"
      /\ UNCHANGED <<app, height, listed, blocks, tip, bare, saving, store>>
  BY DEF UpdateRow, Runs
<1>2. Settled(queue', height', listed', rows')
  BY <1>1, UpdateRowSettled DEF IInv
<1>3. PICK j : j = queue[1]
  OBVIOUS
<1>4. j \in Job /\ j.op = "updated" /\ Head(queue) = j /\ 1 \in DOMAIN queue
  BY <1>1, <1>3, RestOfQueue DEF IInv
<1>5. /\ j = [op |-> "updated", left |-> j.left, height |-> j.height]
      /\ j.left \in SUBSET Tx /\ j.height \in Heights
  BY <1>4, JobFields
<1>6. PICK t \in j.left \cap DOMAIN rows :
          /\ rows' = [rows EXCEPT ![t] = j.height]
          /\ queue' = [queue EXCEPT ![1].left = @ \ {t}]
  BY <1>4 DEF UpdateRow
<1>7. PICK k : k = [op |-> "updated", left |-> j.left \ {t}, height |-> j.height]
  OBVIOUS
<1>8. k = TxUpdated(j.left \ {t}, j.height)
  BY <1>7 DEF TxUpdated
<1>9. k \in Job /\ GoodJob(k)
  <2>1. j.left \ {t} \in SUBSET Tx
    BY <1>5
  <2> QED
    BY <1>5, <1>8, <2>1, UpdateType DEF GoodJob
<1>10. queue' = [queue EXCEPT ![1] = k]
  <2>1. queue' = [queue EXCEPT ![1] = [queue[1] EXCEPT !.left = queue[1].left \ {t}]]
    BY <1>6
  <2>2. PICK l, h : j = [op |-> "updated", left |-> l, height |-> h]
    BY <1>5, Zenon
  <2>3. j.left = l /\ j.height = h
    BY <2>2
  <2>4. [j EXCEPT !.left = j.left \ {t}] = k
    BY <1>7, <2>2, <2>3
  <2> QED
    BY <1>3, <2>1, <2>4
<1>11. queue' \in Seq(Job) /\ \A i \in DOMAIN queue' : GoodJob(queue'[i])
  BY <1>4, <1>9, <1>10 DEF IInv, Typed
<1>12. DOMAIN rows' \subseteq Tx /\ rows' \in [DOMAIN rows' -> Heights]
  BY <1>5, <1>6 DEF IInv, Typed
<1> QED
  BY <1>1, <1>2, <1>11, <1>12 DEF IInv, Typed

LEMMA UpdatedRowsKeeps ==
    ASSUME IInv, UpdatedRows
    PROVE  IInv'
<1>1. /\ app = "running" /\ queue # <<>> /\ queue' = Tail(queue) /\ app' \in {"running", "exited"}
      /\ UNCHANGED <<height, listed, blocks, tip, bare, saving, rows, store>>
  BY DEF UpdatedRows, Runs
<1>2. app' = "running" => Settled(queue', height', listed', rows')
  BY <1>1, UpdatedSettled DEF IInv
<1> QED
  BY <1>1, <1>2, RestOfQueue DEF IInv, Typed

LEMMA StoreBlocksKeeps ==
    ASSUME IInv, StoreBlocks
    PROVE  IInv'
<1>1. /\ app = "running" /\ queue # <<>> /\ queue' = Tail(queue) /\ app' \in {"running", "exited"}
      /\ Head(queue).op = "blocks"
      /\ UNCHANGED <<height, listed, blocks, tip, bare, saving, rows>>
  BY DEF StoreBlocks, Runs
<1>2. Settled(queue', height', listed', rows')
  BY <1>1, StoreSettled DEF IInv
<1>3. PICK j : j = Head(queue)
  OBVIOUS
<1>4. Section(j.blocks)
  BY <1>1, <1>3, RestOfQueue DEF IInv, GoodJob
<1>5. Downwards(j.blocks) \in Seq(Block)
  BY <1>4, DownwardsIs
<1>6. store' \in Seq(Block)
  <2>1. store \in Seq(Block) /\ <<>> \in Seq(Block)
    BY DEF IInv, Typed
  <2>2. \/ store' = store
        \/ store' = (IF j.replace THEN <<>> ELSE store) \o Downwards(j.blocks)
    BY <1>3 DEF StoreBlocks
  <2> QED
    BY <1>5, <2>1, <2>2, ConcatProperties
<1> QED
  BY <1>1, <1>2, <1>6, RestOfQueue DEF IInv, Typed

LEMMA StartKeeps ==
    ASSUME IInv, Start
    PROVE  IInv'
<1>1. Restored \subseteq Block /\ RestoredTip \in Restored
  BY RestoredIs DEF Stored, IInv, Typed
<1>2. /\ app' = "running" /\ height' = rows /\ listed' = DOMAIN rows /\ tip' = RestoredTip
      /\ blocks' = Restored /\ bare' = Restored /\ saving' = [p \in Peers |-> NoJob]
      /\ queue' = <<>> /\ rows' = rows /\ store' = store
  BY DEF Start
<1>3. Settled(queue', height', listed', rows')
  BY <1>2, StartSettled
<1>4. queue' \in Seq(Job) /\ DOMAIN queue' = {}
  BY <1>2
<1> QED
  BY <1>1, <1>2, <1>3, <1>4 DEF IInv, Typed

LEMMA InitHolds == Init => IInv
<1> SUFFICES ASSUME Init
             PROVE  IInv
  OBVIOUS
<1>1. Settled(queue, height, listed, rows)
  <2>1. listed = DOMAIN rows /\ height = rows /\ queue = <<>>
    BY DEF Init
  <2> QED
    BY <2>1, StartSettled
<1>2. queue \in Seq(Job) /\ DOMAIN queue = {} /\ store \in Seq(Block)
  BY DEF Init
<1>3. /\ DOMAIN height = {} /\ height \in [{} -> Heights]
      /\ DOMAIN rows = {} /\ rows \in [{} -> Heights]
  BY DEF Init
<1>4. tip \in blocks /\ blocks \subseteq Block /\ bare \subseteq blocks
  BY DatabaseAssumption DEF Init
<1> QED
  BY <1>1, <1>2, <1>3, <1>4 DEF Init, IInv, Typed

LEMMA NextKeeps == IInv /\ [Next]_vars => IInv'
<1> SUFFICES ASSUME IInv, [Next]_vars
             PROVE  IInv'
  OBVIOUS
<1>1. CASE UNCHANGED vars
  BY <1>1 DEF vars, IInv, Typed
<1>2. ASSUME NEW t \in Tx, RelayedTx(t) \/ RemoveTx(t)
      PROVE  IInv'
  BY <1>2, RelayedTxKeeps, RemoveTxKeeps
<1>3. ASSUME NEW p \in Peers, CallSaveBlocks(p)
      PROVE  IInv'
  BY <1>3, CallSaveBlocksKeeps
<1>4. ASSUME NEW p \in Peers, NEW b \in Block, RelayedBlock(p, b)
      PROVE  IInv'
  BY <1>4, RelayedBlockKeeps
<1>5. CASE InsertRow \/ DeleteRow \/ UpdateRow \/ UpdatedRows \/ StoreBlocks
  BY <1>5, InsertRowKeeps, DeleteRowKeeps, UpdateRowKeeps, UpdatedRowsKeeps, StoreBlocksKeeps
<1>6. CASE Start
  BY <1>6, StartKeeps
<1> QED
  BY <1>1, <1>2, <1>3, <1>4, <1>5, <1>6 DEF Next

LEMMA Invariant == Spec => []IInv
  BY InitHolds, NextKeeps, PTL DEF Spec

\* TypeOK, of any chain, any queue and any number of peers: in particular a section of one branch is
\* saved, a walk along prevBlock and the walk of the next start stay among the blocks, and the tip is
\* in memory.
THEOREM TypeCorrect == Spec => []TypeOK
<1>1. IInv => TypeOK
  BY ElementOfSeq, LenProperties DEF IInv, Typed, TypeOK, GoodJob
<1> QED
  BY <1>1, Invariant, PTL

\* RowsAreWallet: with nothing left to save, what CoreDatabase has saved is what the wallet has,
\* whatever statements failed, jobs were lost or transactions removed, and however a reorganisation
\* of any length updated their heights while earlier jobs still waited.
THEOREM RowsSaved == Spec => []RowsAreWallet
<1>1. IInv => RowsAreWallet
  <2> SUFFICES ASSUME IInv, AllSaved, NEW t \in DOMAIN rows
               PROVE  t \in listed /\ rows[t] = height[t]
    BY DEF RowsAreWallet
  <2>1. queue = <<>> /\ t \in Tx
    BY DEF AllSaved, IInv, Typed
  <2>2. Deletes(queue, t) = {} /\ Updates(queue, t) = {}
    BY <2>1 DEF Deletes, Updates
  <2>3. Removed(queue, listed, rows, t) /\ Current(queue, height, rows, t)
    BY <2>1 DEF IInv, AllSaved, Settled
  <2> QED
    BY <2>2, <2>3 DEF Removed, Current
<1> QED
  BY <1>1, Invariant, PTL

-----------------------------------------------------------------------------
(***************************************************************************)
(* Nothing goes missing.  A block of the longest branch that is on the     *)
(* main chain stays there, unless the app stops and starts from what it    *)
(* has saved.                                                              *)
(***************************************************************************)

LEMMA AncestorsUnfold ==
    \A x \in Block :
        /\ Ancestors[x] = {x} \cup (IF x = Genesis THEN {} ELSE Ancestors[BlockData[x].prev])
        /\ x \in Ancestors[x] /\ Ancestors[x] \subseteq Block
<1> DEFINE next == [x \in Block |-> BlockData[x].prev]
           rank == [x \in Block |-> Height(x)]
           A == CHOOSE f : f = [x \in Block |-> {x} \cup (IF x = Genesis THEN {} ELSE f[BlockData[x].prev])]
<1>1. \A x \in Block : /\ next[x] = BlockData[x].prev
                       /\ Height(x) \in Nat
                       /\ BlockData[x].prev \in Block => Height(x) = Height(BlockData[x].prev) + 1
                       /\ BlockData[x].prev \in Block <=> x # Genesis
  BY DatabaseAssumption
<1>2. Ranked(next, Block, rank)
  BY <1>1 DEF Ranked
<1>3. \E f : f = [x \in Block |-> {x} \cup (IF x = Genesis THEN {} ELSE f[BlockData[x].prev])]
  <2>1. \A x \in Block : rank[x] <= TX_UNCONFIRMED
    BY Heighted, DatabaseAssumption
  <2> HIDE DEF rank, next
  <2>2. PICK W : Walks(W, next, Block)
    BY <1>2, <2>1, WalkExists, DatabaseAssumption
  <2>3. W = [x \in Block |-> {x} \cup (IF next[x] \in Block THEN W[next[x]] ELSE {})]
    BY <2>2 DEF Walks
  <2>4. W = [x \in Block |-> {x} \cup (IF x = Genesis THEN {} ELSE W[BlockData[x].prev])]
    BY <1>1, <2>3
  <2> QED
    BY <2>4, Zenon
<1>4. A = [x \in Block |-> {x} \cup (IF x = Genesis THEN {} ELSE A[BlockData[x].prev])]
  BY <1>3
<1>5. \A x \in Block : Ancestors[x] = A[x]
  BY DEF Ancestors
<1> HIDE DEF A
<1>6. Walks(A, next, Block)
  <2>1. A = [x \in Block |-> {x} \cup (IF next[x] \in Block THEN A[next[x]] ELSE {})]
    BY <1>1, <1>4
  <2> QED
    BY <2>1 DEF Walks
<1> HIDE DEF next, rank
<1>7. \A x \in Block : x \in A[x] /\ A[x] \subseteq Block
  BY <1>2, <1>6, WalkBlocks
<1>8. \A x \in Block : A[x] = {x} \cup (IF x = Genesis THEN {} ELSE A[BlockData[x].prev])
  BY <1>4
<1> QED
  BY <1>1, <1>5, <1>7, <1>8

\* The blocks of a branch are in one line.
InLine(b) ==
    /\ Genesis \in Ancestors[b]
    /\ \A x \in Ancestors[b] :
          /\ x \in Block /\ Height(x) <= Height(b) /\ Ancestors[x] \subseteq Ancestors[b]
          /\ \A y \in Ancestors[b] : /\ Height(x) <= Height(y) => x \in Ancestors[y]
                                     /\ Height(x) = Height(y) => x = y

LEMMA BranchInLine ==
    \A b \in Block : InLine(b)
<1> DEFINE K == {k \in Nat : \A b \in Block : Height(b) <= k => InLine(b)}
<1>1. \A b \in Block : Height(b) \in Nat /\ (b # Genesis => BlockData[b].prev \in Block
                                                           /\ Height(b) = Height(BlockData[b].prev) + 1)
  BY DatabaseAssumption
<1>2. ASSUME NEW b \in Block, b # Genesis => InLine(BlockData[b].prev)
      PROVE  InLine(b)
  <2>1. CASE b = Genesis
    <3>1. Ancestors[b] = {b}
      BY <2>1, AncestorsUnfold
    <3> QED
      BY <1>1, <2>1, <3>1 DEF InLine
  <2>2. CASE b # Genesis
    <3>1. PICK p : p = BlockData[b].prev
      OBVIOUS
    <3>2. p \in Block /\ Height(p) \in Nat /\ Height(b) = Height(p) + 1 /\ InLine(p)
      BY <1>1, <1>2, <2>2, <3>1
    <3>3. Ancestors[b] = {b} \cup Ancestors[p]
      BY <2>2, <3>1, AncestorsUnfold
    <3>4. \A x \in Ancestors[p] : x \in Block /\ Height(x) \in Nat /\ Height(x) <= Height(p)
      BY <1>1, <3>2 DEF InLine
    <3>5. ASSUME NEW x \in Ancestors[b]
          PROVE  x \in Block /\ Height(x) <= Height(b) /\ Ancestors[x] \subseteq Ancestors[b]
      <4>1. CASE x = b
        BY <3>2, <4>1
      <4>2. CASE x \in Ancestors[p]
        BY <3>2, <3>3, <3>4, <4>2 DEF InLine
      <4> QED
        BY <3>3, <4>1, <4>2
    <3>6. ASSUME NEW x \in Ancestors[b], NEW y \in Ancestors[b]
          PROVE  /\ Height(x) <= Height(y) => x \in Ancestors[y]
                 /\ Height(x) = Height(y) => x = y
      <4>1. CASE x \in Ancestors[p] /\ y \in Ancestors[p]
        BY <3>2, <4>1 DEF InLine
      <4>2. CASE y = b
        <5>1. x = b \/ Height(x) < Height(b)
          BY <3>2, <3>3, <3>4
        <5> QED
          BY <3>2, <4>2, <5>1, <3>4, <3>3
      <4>3. CASE x = b /\ y \in Ancestors[p]
        <5>1. Height(y) < Height(b) /\ Height(y) \in Nat /\ Height(b) \in Nat
          BY <3>2, <3>4, <4>3
        <5> QED
          BY <4>3, <5>1
      <4> QED
        BY <3>3, <4>1, <4>2, <4>3
    <3> QED
      BY <3>2, <3>3, <3>5, <3>6 DEF InLine
  <2> QED
    BY <2>1, <2>2
<1>3. 0 \in K
  BY <1>1, <1>2
<1>4. ASSUME NEW k \in Nat, k \in K
      PROVE  k + 1 \in K
  <2>1. ASSUME NEW b \in Block, Height(b) <= k + 1
        PROVE  InLine(b)
    <3>1. b # Genesis => Height(BlockData[b].prev) <= k
      BY <1>1, <2>1
    <3> QED
      BY <1>1, <1>2, <1>4, <3>1
  <2> QED
    BY <2>1
<1>5. Nat \subseteq K
  <2> HIDE DEF K
  <2> QED
    BY <1>3, <1>4, NumberInduction
<1> QED
  BY <1>1, <1>5

\* The chain of a block in memory is the upper part of its branch.
LEMMA ChainOfBranch ==
    ASSUME NEW bs \in SUBSET Block, NEW b \in Block
    PROVE  /\ Chain(bs, b) \subseteq Ancestors[b] \cap (bs \cup {b})
           /\ \A x \in Ancestors[b], y \in Chain(bs, b) : Height(y) <= Height(x) => x \in Chain(bs, b)
<1> DEFINE next == [x \in Block |-> BlockData[x].prev]
           rank == [x \in Block |-> Height(x)]
           C == CHOOSE f : f = [x \in Block |->
                    {x} \cup (IF BlockData[x].prev \in bs THEN f[BlockData[x].prev] ELSE {})]
<1>1. \A x \in Block : /\ next[x] = BlockData[x].prev
                       /\ Height(x) \in Nat
                       /\ BlockData[x].prev \in bs =>
                             BlockData[x].prev \in Block /\ Height(x) = Height(BlockData[x].prev) + 1
                             /\ x # Genesis
  BY DatabaseAssumption
<1>2. Ranked(next, bs, rank)
  BY <1>1 DEF Ranked
<1>3. \E f : f = [x \in Block |-> {x} \cup (IF BlockData[x].prev \in bs THEN f[BlockData[x].prev] ELSE {})]
  <2>1. \A x \in Block : rank[x] <= TX_UNCONFIRMED
    BY Heighted, DatabaseAssumption
  <2> HIDE DEF rank, next
  <2>2. PICK W : Walks(W, next, bs)
    BY <1>2, <2>1, WalkExists, DatabaseAssumption
  <2>3. W = [x \in Block |-> {x} \cup (IF next[x] \in bs THEN W[next[x]] ELSE {})]
    BY <2>2 DEF Walks
  <2>4. W = [x \in Block |-> {x} \cup (IF BlockData[x].prev \in bs THEN W[BlockData[x].prev] ELSE {})]
    BY <1>1, <2>3
  <2> QED
    BY <2>4, Zenon
<1>4. C = [x \in Block |-> {x} \cup (IF BlockData[x].prev \in bs THEN C[BlockData[x].prev] ELSE {})]
  BY <1>3
<1>5. Chain(bs, b) = C[b]
  BY DEF Chain
<1> HIDE DEF C, next, rank
<1> DEFINE K == {k \in Nat : \A x \in Block : Height(x) <= k => C[x] \subseteq Ancestors[x] \cap (bs \cup {x})}
<1>6. ASSUME NEW x \in Block,
             BlockData[x].prev \in bs => C[BlockData[x].prev] \subseteq Ancestors[BlockData[x].prev] \cap bs
      PROVE  C[x] \subseteq Ancestors[x] \cap (bs \cup {x})
  <2>1. C[x] = {x} \cup (IF BlockData[x].prev \in bs THEN C[BlockData[x].prev] ELSE {})
    BY <1>4
  <2>2. x \in Ancestors[x]
    BY AncestorsUnfold
  <2>3. BlockData[x].prev \in bs => Ancestors[x] = {x} \cup Ancestors[BlockData[x].prev]
    BY <1>1, AncestorsUnfold
  <2> QED
    BY <1>6, <2>1, <2>2, <2>3
<1>7. 0 \in K
  <2>1. ASSUME NEW x \in Block, Height(x) <= 0
        PROVE  BlockData[x].prev \notin bs
    BY <1>1, <2>1
  <2> QED
    BY <1>6, <2>1
<1>8. ASSUME NEW k \in Nat, k \in K
      PROVE  k + 1 \in K
  <2>1. ASSUME NEW x \in Block, Height(x) <= k + 1
        PROVE  C[x] \subseteq Ancestors[x] \cap (bs \cup {x})
    <3>1. BlockData[x].prev \in bs => BlockData[x].prev \in Block /\ Height(BlockData[x].prev) <= k
      BY <1>1, <2>1
    <3>2. BlockData[x].prev \in bs =>
              C[BlockData[x].prev] \subseteq Ancestors[BlockData[x].prev] \cap (bs \cup {BlockData[x].prev})
      BY <1>8, <3>1
    <3> QED
      BY <1>6, <3>2
  <2> QED
    BY <2>1
<1>9. Nat \subseteq K
  <2> HIDE DEF K
  <2> QED
    BY <1>7, <1>8, NumberInduction
<1>10. Chain(bs, b) \subseteq Ancestors[b] \cap (bs \cup {b})
  BY <1>1, <1>5, <1>9
<1>11. ASSUME NEW x \in Ancestors[b], NEW y \in Chain(bs, b), Height(y) <= Height(x)
       PROVE  x \in Chain(bs, b)
  <2>1. x \in Block /\ Height(x) \in Nat /\ Height(x) <= Height(b) /\ Height(b) \in Nat
    BY BranchInLine, Heighted DEF InLine
  <2>2. IsBranch(Chain(bs, b), b)
    BY ChainIsBranch
  <2>3. Height(y) \in Nat
    BY <2>2, Heighted DEF IsBranch
  <2>4. PICK z \in Chain(bs, b) : Height(z) = Height(x)
    BY <1>11, <2>1, <2>2, <2>3 DEF IsBranch
  <2>5. z = x
    BY <1>10, <2>4, BranchInLine DEF InLine
  <2> QED
    BY <2>5
<1> QED
  BY <1>10, <1>11

-----------------------------------------------------------------------------
(* The next start, from any store. *)

Transitions(st) == {i \in DOMAIN st : Height(st[i]) % BLOCK_DIFFICULTY_INTERVAL = 0}

\* LastTransition, Following, Restored and RestoredTip of the rows st.
FirstOf(st) ==
    LET transitions == {i \in DOMAIN st : Height(st[i]) % BLOCK_DIFFICULTY_INTERVAL = 0}
        highest == Max({Height(st[i]) : i \in transitions})
    IN  IF transitions = {} THEN NoBlock
        ELSE st[Min({i \in transitions : Height(st[i]) = highest})]

NextOf(st, b) ==
    LET next == {i \in DOMAIN st : BlockData[st[i]].prev = b}
    IN  IF next = {} THEN NoBlock ELSE st[Max(next)]

ChainOf(st) ==
    LET F[b \in Block] == {b} \cup (IF NextOf(st, b) = NoBlock THEN {} ELSE F[NextOf(st, b)])
    IN  {Genesis} \cup (IF FirstOf(st) = NoBlock THEN {} ELSE F[FirstOf(st)])

TipOf(st) == CHOOSE b \in ChainOf(st) : \A x \in ChainOf(st) : Height(x) <= Height(b)

LEMMA StartIs == Restored = ChainOf(store) /\ RestoredTip = TipOf(store)
<1>1. Restored = ChainOf(store)
  BY DEF Restored, ChainOf, LastTransition, FirstOf, Following, NextOf
<1> QED
  BY <1>1 DEF RestoredTip, TipOf

LEMMA NextStartIs == Restored' = ChainOf(store') /\ RestoredTip' = TipOf(store')
<1>1. Restored' = ChainOf(store')
  BY DEF Restored, ChainOf, LastTransition, FirstOf, Following, NextOf
<1> QED
  BY <1>1 DEF RestoredTip, TipOf

\* The rows are numbered blocks.
LEMMA RowsAre ==
    ASSUME NEW st \in Seq(Block)
    PROVE  /\ Len(st) \in Nat /\ DOMAIN st = 1..Len(st)
           /\ \A i \in DOMAIN st : st[i] \in Block /\ i \in Nat /\ i <= Len(st)
<1>1. Len(st) \in Nat /\ DOMAIN st = 1..Len(st)
  BY LenProperties
<1>2. \A i \in 1..Len(st) : st[i] \in Block
  BY ElementOfSeq
<1> QED
  BY <1>1, <1>2

\* The block that follows is one above.
LEMMA NextOfIs ==
    ASSUME NEW st \in Seq(Block), NEW b \in Block
    PROVE  \/ NextOf(st, b) = NoBlock /\ \A i \in DOMAIN st : BlockData[st[i]].prev # b
           \/ /\ NextOf(st, b) \in Block /\ BlockData[NextOf(st, b)].prev = b
              /\ NextOf(st, b) # Genesis /\ Height(NextOf(st, b)) = Height(b) + 1
              /\ \E i \in DOMAIN st : NextOf(st, b) = st[i]
<1>1. PICK next : next = {i \in DOMAIN st : BlockData[st[i]].prev = b}
  OBVIOUS
<1>2. NextOf(st, b) = IF next = {} THEN NoBlock ELSE st[Max(next)]
  BY <1>1 DEF NextOf
<1>3. CASE next = {}
  BY <1>1, <1>2, <1>3
<1>4. CASE next # {}
  <2>1. Max(next) \in next
    <3>1. next \subseteq Nat /\ \A i \in next : i <= Len(st)
      BY <1>1, RowsAre
    <3> QED
      BY <1>4, <3>1, MaxIs, RowsAre
  <2>2. PICK i \in DOMAIN st : i = Max(next) /\ BlockData[st[i]].prev = b
    BY <1>1, <2>1
  <2>3. NextOf(st, b) = st[i] /\ st[i] \in Block
    BY <1>2, <1>4, <2>2, RowsAre
  <2>4. st[i] # Genesis /\ Height(st[i]) = Height(b) + 1
    BY <2>2, <2>3, DatabaseAssumption
  <2> QED
    BY <2>2, <2>3, <2>4
<1> QED
  BY <1>3, <1>4

\* It begins at the first row of those with the highest transition block.
LEMMA FirstOfIs ==
    ASSUME NEW st \in Seq(Block)
    PROVE  \/ FirstOf(st) = NoBlock /\ Transitions(st) = {}
           \/ \E i \in Transitions(st) :
                 /\ FirstOf(st) = st[i]
                 /\ \A j \in Transitions(st) : /\ Height(st[j]) <= Height(st[i])
                                               /\ Height(st[j]) = Height(st[i]) => i <= j
<1>1. PICK T : T = Transitions(st)
  OBVIOUS
<1>2. PICK high : high = Max({Height(st[i]) : i \in T})
  OBVIOUS
<1>3. PICK R : R = {i \in T : Height(st[i]) = high}
  OBVIOUS
<1>4. FirstOf(st) = IF T = {} THEN NoBlock ELSE st[Min(R)]
  BY <1>1, <1>2, <1>3 DEF FirstOf, Transitions
<1>5. \A i \in T : i \in DOMAIN st /\ i \in Nat /\ st[i] \in Block /\ Height(st[i]) \in Nat
                   /\ Height(st[i]) <= TX_UNCONFIRMED
  BY <1>1, RowsAre, Heighted, DatabaseAssumption DEF Transitions
<1>6. CASE T = {}
  BY <1>1, <1>4, <1>6
<1>7. CASE T # {}
  <2> DEFINE H == {Height(st[i]) : i \in T}
  <2>1. H \subseteq Nat /\ H # {} /\ \A n \in H : n <= TX_UNCONFIRMED
    BY <1>5, <1>7
  <2>2. high \in H /\ \A i \in T : Height(st[i]) <= high
    <3>1. \A i \in T : Height(st[i]) \in H
      OBVIOUS
    <3> HIDE DEF H
    <3>2. Max(H) \in H /\ \A n \in H : n <= Max(H)
      BY <2>1, MaxIs, DatabaseAssumption
    <3>3. high = Max(H)
      BY <1>2 DEF H
    <3> QED
      BY <3>1, <3>2, <3>3
  <2>3. R # {} /\ R \subseteq Nat
    BY <1>3, <1>5, <2>2
  <2>4. Min(R) \in R /\ \A i \in R : Min(R) <= i
    BY <2>3, MinIs
  <2>5. PICK i \in T : i = Min(R) /\ Height(st[i]) = high
    BY <1>3, <2>4
  <2>6. \A j \in T : Height(st[j]) <= Height(st[i]) /\ (Height(st[j]) = Height(st[i]) => i <= j)
    BY <1>3, <2>2, <2>4, <2>5
  <2> QED
    BY <1>1, <1>4, <1>7, <2>5, <2>6
<1> QED
  BY <1>6, <1>7

\* What is restored from st: with a block the one that follows it, and no more than must be.  It is
\* all on the branch of its tip.
Climbs(st, S) == \A x \in S : NextOf(st, x) # NoBlock => NextOf(st, x) \in S

LEMMA ChainOfIs ==
    ASSUME NEW st \in Seq(Block)
    PROVE  /\ ChainOf(st) \subseteq Block /\ TipOf(st) \in ChainOf(st)
           /\ ChainOf(st) \subseteq Ancestors[TipOf(st)]
           /\ FirstOf(st) = NoBlock => ChainOf(st) = {Genesis}
           /\ FirstOf(st) # NoBlock =>
                 /\ FirstOf(st) \in Block /\ FirstOf(st) \in ChainOf(st)
                 /\ \E S : /\ ChainOf(st) = {Genesis} \cup S /\ S \subseteq Block
                           /\ FirstOf(st) \in S /\ Climbs(st, S)
                           /\ \A X \in SUBSET Block : FirstOf(st) \in X /\ Climbs(st, X) => S \subseteq X
<1> DEFINE next == [x \in Block |-> NextOf(st, x)]
           rank == [x \in Block |-> TX_UNCONFIRMED - Height(x)]
           F == CHOOSE f : f = [b \in Block |->
                    {b} \cup (IF NextOf(st, b) = NoBlock THEN {} ELSE f[NextOf(st, b)])]
<1>1. \A x \in Block : /\ next[x] = NextOf(st, x)
                       /\ NextOf(st, x) \in Block <=> NextOf(st, x) # NoBlock
                       /\ NextOf(st, x) # NoBlock => x \in Ancestors[NextOf(st, x)]
  <2> SUFFICES ASSUME NEW x \in Block
               PROVE  /\ NextOf(st, x) \in Block <=> NextOf(st, x) # NoBlock
                      /\ NextOf(st, x) # NoBlock => x \in Ancestors[NextOf(st, x)]
    OBVIOUS
  <2>1. PICK y : y = NextOf(st, x)
    OBVIOUS
  <2>2. y = NoBlock \/ (y \in Block /\ BlockData[y].prev = x /\ y # Genesis)
    BY <2>1, NextOfIs
  <2>3. y \in Block /\ BlockData[y].prev = x /\ y # Genesis => x \in Ancestors[y]
    BY AncestorsUnfold
  <2> QED
    BY <2>1, <2>2, <2>3, DatabaseAssumption
<1>2. Ranked(next, Block, rank) /\ \A x \in Block : rank[x] <= TX_UNCONFIRMED
  <2>1. ASSUME NEW x \in Block
        PROVE  rank[x] \in Nat /\ rank[x] <= TX_UNCONFIRMED
    BY Heighted, DatabaseAssumption
  <2>2. ASSUME NEW x \in Block, NextOf(st, x) \in Block
        PROVE  rank[NextOf(st, x)] < rank[x]
    <3>1. PICK y : y = NextOf(st, x)
      OBVIOUS
    <3>2. y \in Block /\ Height(y) = Height(x) + 1
      BY <1>1, <2>2, <3>1, NextOfIs
    <3>3. rank[y] < rank[x]
      BY <3>2, Heighted, DatabaseAssumption
    <3> QED
      BY <3>1, <3>3
  <2> QED
    BY <2>1, <2>2 DEF Ranked
<1>3. \E f : f = [b \in Block |-> {b} \cup (IF NextOf(st, b) = NoBlock THEN {} ELSE f[NextOf(st, b)])]
  <2> HIDE DEF rank, next
  <2>1. PICK W : Walks(W, next, Block)
    BY <1>2, WalkExists, DatabaseAssumption
  <2>2. W = [x \in Block |-> {x} \cup (IF next[x] \in Block THEN W[next[x]] ELSE {})]
    BY <2>1 DEF Walks
  <2>3. W = [b \in Block |-> {b} \cup (IF NextOf(st, b) = NoBlock THEN {} ELSE W[NextOf(st, b)])]
    BY <1>1, <2>2
  <2> QED
    BY <2>3, Zenon
<1>4. F = [b \in Block |-> {b} \cup (IF NextOf(st, b) = NoBlock THEN {} ELSE F[NextOf(st, b)])]
  BY <1>3
<1>5. ChainOf(st) = {Genesis} \cup (IF FirstOf(st) = NoBlock THEN {} ELSE F[FirstOf(st)])
  BY DEF ChainOf
<1> HIDE DEF F
<1>6. Walks(F, next, Block)
  <2>1. F = [b \in Block |-> {b} \cup (IF next[b] \in Block THEN F[next[b]] ELSE {})]
    BY <1>1, <1>4
  <2> QED
    BY <2>1 DEF Walks
<1>7. \A x \in Block : /\ rank[x] \in Nat
                       /\ NextOf(st, x) # NoBlock => NextOf(st, x) \in Block /\ rank[NextOf(st, x)] < rank[x]
                       /\ F[x] = {x} \cup (IF NextOf(st, x) = NoBlock THEN {} ELSE F[NextOf(st, x)])
  BY <1>1, <1>2, <1>4 DEF Ranked
<1> HIDE DEF next, rank
<1>8. \A x \in Block : x \in F[x] /\ F[x] \subseteq Block
  BY <1>2, <1>6, WalkBlocks
<1> DEFINE Right(x) == /\ \E z \in F[x] : F[x] \subseteq Ancestors[z]
                       /\ Climbs(st, F[x])
                       /\ \A X \in SUBSET Block : x \in X /\ Climbs(st, X) => F[x] \subseteq X
           K == {k \in Nat : \A x \in Block : rank[x] <= k => Right(x)}
<1>9. ASSUME NEW x \in Block, NextOf(st, x) # NoBlock => Right(NextOf(st, x))
      PROVE  Right(x)
  <2>1. CASE NextOf(st, x) = NoBlock
    <3>1. F[x] = {x}
      BY <1>7, <2>1
    <3> QED
      BY <2>1, <3>1, AncestorsUnfold DEF Climbs
  <2>2. CASE NextOf(st, x) # NoBlock
    <3>1. PICK y : y = NextOf(st, x)
      OBVIOUS
    <3>2. y \in Block /\ F[x] = {x} \cup F[y] /\ Right(y) /\ x \in Ancestors[y] /\ y \in F[y]
      BY <1>1, <1>7, <1>8, <1>9, <2>2, <3>1
    <3>3. PICK z \in F[y] : F[y] \subseteq Ancestors[z]
      BY <3>2
    <3>4. x \in Ancestors[z]
      <4>1. z \in Block /\ y \in Ancestors[z]
        BY <1>8, <3>2, <3>3
      <4> QED
        BY <3>2, <4>1, BranchInLine DEF InLine
    <3>5. Climbs(st, F[x])
      BY <3>1, <3>2 DEF Climbs
    <3>6. ASSUME NEW X \in SUBSET Block, x \in X, Climbs(st, X)
          PROVE  F[x] \subseteq X
      <4>1. y \in X
        BY <2>2, <3>1, <3>6 DEF Climbs
      <4> QED
        BY <3>2, <3>6, <4>1
    <3> QED
      BY <3>2, <3>3, <3>4, <3>5, <3>6
  <2> QED
    BY <2>1, <2>2
<1> HIDE DEF Right
<1>10. 0 \in K
  <2>1. ASSUME NEW x \in Block, rank[x] <= 0
        PROVE  NextOf(st, x) = NoBlock
    BY <1>7, <2>1
  <2> QED
    BY <1>9, <2>1
<1>11. ASSUME NEW k \in Nat, k \in K
       PROVE  k + 1 \in K
  <2>1. ASSUME NEW x \in Block, rank[x] <= k + 1
        PROVE  Right(x)
    <3>1. NextOf(st, x) # NoBlock => NextOf(st, x) \in Block /\ rank[NextOf(st, x)] <= k
      BY <1>7, <2>1
    <3> QED
      BY <1>9, <1>11, <3>1
  <2> QED
    BY <2>1
<1>12. Nat \subseteq K
  <2> HIDE DEF K
  <2> QED
    BY <1>10, <1>11, NumberInduction
<1>13. \A x \in Block : Right(x)
  BY <1>7, <1>12
<1>14. FirstOf(st) = NoBlock \/ FirstOf(st) \in Block
  BY FirstOfIs, RowsAre DEF Transitions
<1>15. ChainOf(st) \subseteq Block
  BY <1>5, <1>8, <1>14, DatabaseAssumption
<1>16. PICK z \in ChainOf(st) : ChainOf(st) \subseteq Ancestors[z]
  <2>1. CASE FirstOf(st) = NoBlock
    <3>1. ChainOf(st) = {Genesis}
      BY <1>5, <2>1
    <3> QED
      BY <3>1, AncestorsUnfold, DatabaseAssumption
  <2>2. CASE FirstOf(st) # NoBlock
    <3>1. PICK y \in F[FirstOf(st)] : F[FirstOf(st)] \subseteq Ancestors[y]
      BY <1>13, <1>14, <2>2 DEF Right
    <3>2. y \in Block
      BY <1>8, <1>14, <2>2, <3>1
    <3>3. Genesis \in Ancestors[y]
      BY <3>2, BranchInLine DEF InLine
    <3> QED
      BY <1>5, <2>2, <3>1, <3>3
  <2> QED
    BY <2>1, <2>2
<1>17. TipOf(st) = z
  <2>1. z \in Block
    BY <1>15
  <2>2. \A x \in ChainOf(st) : Height(x) <= Height(z)
    BY <1>16, <2>1, BranchInLine DEF InLine
  <2>3. PICK t : t = TipOf(st)
    OBVIOUS
  <2>4. t \in ChainOf(st) /\ Height(z) <= Height(t)
    BY <2>2, <2>3 DEF TipOf
  <2>5. t \in Ancestors[z] /\ z \in Ancestors[z] /\ Height(t) <= Height(z)
    BY <1>16, <2>2, <2>4
  <2>6. t \in Block /\ Height(t) \in Nat /\ Height(z) \in Nat
    BY <1>15, <2>1, <2>4, Heighted
  <2>7. Height(t) = Height(z)
    BY <2>4, <2>5, <2>6
  <2>8. t = z
    BY <2>1, <2>5, <2>7, BranchInLine DEF InLine
  <2> QED
    BY <2>3, <2>8
<1>18. ASSUME FirstOf(st) # NoBlock
       PROVE  /\ FirstOf(st) \in Block /\ FirstOf(st) \in ChainOf(st)
              /\ \E S : /\ ChainOf(st) = {Genesis} \cup S /\ S \subseteq Block
                        /\ FirstOf(st) \in S /\ Climbs(st, S)
                        /\ \A X \in SUBSET Block : FirstOf(st) \in X /\ Climbs(st, X) => S \subseteq X
  <2>1. PICK L : L = FirstOf(st)
    OBVIOUS
  <2>2. PICK S : S = F[L]
    OBVIOUS
  <2>3. L \in Block /\ ChainOf(st) = {Genesis} \cup S
    BY <1>5, <1>14, <1>18, <2>1, <2>2
  <2>4. L \in S /\ S \subseteq Block
    BY <1>8, <2>2, <2>3
  <2>5. Climbs(st, S) /\ \A X \in SUBSET Block : L \in X /\ Climbs(st, X) => S \subseteq X
    BY <1>13, <2>2, <2>3 DEF Right
  <2> QED
    BY <2>1, <2>3, <2>4, <2>5
<1> QED
  BY <1>5, <1>15, <1>16, <1>17, <1>18

\* Below a block that is no transition there is another: so it is in what is saved together,
Anchored(S) ==
    \A x \in S : Height(x) % BLOCK_DIFFICULTY_INTERVAL # 0 => \E y \in S : Height(x) = Height(y) + 1

\* and in the store.
AnchoredRows(st) ==
    \A i \in DOMAIN st : Height(st[i]) % BLOCK_DIFFICULTY_INTERVAL # 0 =>
        \E j \in DOMAIN st : Height(st[i]) = Height(st[j]) + 1

\* Another transition block is saved: the next start is as before, or at that block.
LEMMA AppendedTip ==
    ASSUME NEW st \in Seq(Block), NEW c \in Block, Height(c) % BLOCK_DIFFICULTY_INTERVAL = 0, AnchoredRows(st),
           NEW st2 \in Seq(Block), st2 = st \o <<c>>
    PROVE  /\ AnchoredRows(st2)
           /\ Ancestors[TipOf(st2)] \subseteq Ancestors[TipOf(st)] \cup Ancestors[c]
<1>1. PICK n : n = Len(st)
  OBVIOUS
<1>2. n \in Nat /\ DOMAIN st = 1..n /\ \A i \in DOMAIN st : st[i] \in Block /\ Height(st[i]) \in Nat
  BY <1>1, RowsAre, Heighted
<1>3. DOMAIN st2 = 1..(n + 1) /\ (\A i \in 1..n : st2[i] = st[i]) /\ st2[n + 1] = c
  <2>1. Append(st, c) = st2
    BY AppendIsConcat
  <2>2. /\ Len(Append(st, c)) = n + 1 /\ Append(st, c) \in Seq(Block)
        /\ \A i \in 1..n : Append(st, c)[i] = st[i]
        /\ Append(st, c)[n + 1] = c
    BY <1>1, AppendProperties
  <2> QED
    BY <2>1, <2>2, LenProperties
<1>4. Height(c) \in Nat
  BY Heighted
<1>5. AnchoredRows(st2)
  <2> SUFFICES ASSUME NEW i \in DOMAIN st2, Height(st2[i]) % BLOCK_DIFFICULTY_INTERVAL # 0
               PROVE  \E j \in DOMAIN st2 : Height(st2[i]) = Height(st2[j]) + 1
    BY DEF AnchoredRows
  <2>1. i \in DOMAIN st /\ st2[i] = st[i]
    BY <1>2, <1>3
  <2>2. PICK j \in DOMAIN st : Height(st[i]) = Height(st[j]) + 1
    BY <2>1 DEF AnchoredRows
  <2>3. j \in DOMAIN st2 /\ st2[j] = st[j]
    BY <1>2, <1>3
  <2> QED
    BY <2>1, <2>2, <2>3
<1>6. /\ Transitions(st2) = Transitions(st) \cup {n + 1}
      /\ \A i \in Transitions(st) : i \in 1..n /\ st2[i] = st[i] /\ Height(st[i]) \in Nat
  BY <1>2, <1>3 DEF Transitions
<1>7. PICK k \in Transitions(st2) :
          /\ FirstOf(st2) = st2[k]
          /\ \A j \in Transitions(st2) : /\ Height(st2[j]) <= Height(st2[k])
                                         /\ Height(st2[j]) = Height(st2[k]) => k <= j
  BY <1>6, FirstOfIs
<1>8. FirstOf(st2) \in Block /\ FirstOf(st2) # NoBlock
  BY <1>7, RowsAre, DatabaseAssumption DEF Transitions
<1>9. /\ ChainOf(st2) \subseteq Block /\ TipOf(st2) \in ChainOf(st2)
      /\ \E S : /\ ChainOf(st2) = {Genesis} \cup S /\ S \subseteq Block /\ FirstOf(st2) \in S
                /\ \A X \in SUBSET Block : FirstOf(st2) \in X /\ Climbs(st2, X) => S \subseteq X
  BY <1>8, ChainOfIs
<1>10. PICK S : /\ ChainOf(st2) = {Genesis} \cup S /\ S \subseteq Block
                /\ \A X \in SUBSET Block : FirstOf(st2) \in X /\ Climbs(st2, X) => S \subseteq X
  BY <1>9
<1>11. CASE k = n + 1
  <2>1. FirstOf(st2) = c /\ \A j \in Transitions(st) : Height(st[j]) < Height(c)
    <3>1. \A j \in Transitions(st) : /\ Height(st2[j]) <= Height(st2[k])
                                     /\ Height(st2[j]) = Height(st2[k]) => k <= j
      BY <1>6, <1>7
    <3> QED
      BY <1>2, <1>3, <1>4, <1>6, <1>7, <1>11, <3>1
  <2>2. NextOf(st2, c) = NoBlock
    <3> SUFFICES ASSUME NextOf(st2, c) # NoBlock
                 PROVE  FALSE
      OBVIOUS
    <3>1. PICK i \in DOMAIN st2 : Height(st2[i]) = Height(c) + 1
      <4>1. PICK y : y = NextOf(st2, c)
        OBVIOUS
      <4>2. Height(y) = Height(c) + 1 /\ \E i \in DOMAIN st2 : y = st2[i]
        BY <4>1, NextOfIs
      <4> QED
        BY <4>2
    <3>2. i \in DOMAIN st /\ Height(st[i]) = Height(c) + 1
      BY <1>2, <1>3, <1>4, <3>1
    <3>3. i \notin Transitions(st)
      BY <1>2, <1>4, <2>1, <3>2
    <3>4. Height(st[i]) % BLOCK_DIFFICULTY_INTERVAL # 0
      BY <3>2, <3>3 DEF Transitions
    <3>5. PICK j \in DOMAIN st : Height(st[i]) = Height(st[j]) + 1
      BY <3>2, <3>4 DEF AnchoredRows
    <3>6. Height(st[j]) = Height(c)
      BY <1>2, <1>4, <3>2, <3>5
    <3>7. j \in Transitions(st)
      BY <3>6 DEF Transitions
    <3> QED
      BY <1>4, <2>1, <3>6, <3>7
  <2>3. Climbs(st2, {c})
    BY <2>2 DEF Climbs
  <2>4. S \subseteq {c}
    BY <1>10, <2>1, <2>3
  <2>5. TipOf(st2) \in {Genesis, c}
    BY <1>9, <1>10, <2>4
  <2>6. TipOf(st2) \in Ancestors[c]
    BY <2>5, BranchInLine, AncestorsUnfold DEF InLine
  <2> QED
    BY <1>5, <2>6, BranchInLine DEF InLine
<1>12. CASE k # n + 1
  <2>1. /\ k \in Transitions(st) /\ st2[k] = st[k] /\ Height(c) <= Height(st[k])
        /\ \A j \in Transitions(st) : /\ Height(st[j]) <= Height(st[k])
                                      /\ Height(st[j]) = Height(st[k]) => k <= j
    <3>1. k \in Transitions(st) /\ st2[k] = st[k]
      BY <1>6, <1>12
    <3>2. Height(c) <= Height(st[k])
      BY <1>3, <1>6, <1>7, <3>1
    <3>3. \A j \in Transitions(st) : j \in Transitions(st2) /\ st2[j] = st[j]
      BY <1>6
    <3> QED
      BY <1>7, <3>1, <3>2, <3>3
  <2>2. FirstOf(st) = st[k]
    <3>1. PICK i \in Transitions(st) :
              /\ FirstOf(st) = st[i]
              /\ \A j \in Transitions(st) : /\ Height(st[j]) <= Height(st[i])
                                            /\ Height(st[j]) = Height(st[i]) => i <= j
      BY <2>1, FirstOfIs
    <3>2. Height(st[i]) = Height(st[k])
      BY <1>6, <2>1, <3>1
    <3>3. i <= k /\ k <= i /\ i \in Nat /\ k \in Nat
      BY <1>2, <1>6, <2>1, <3>1, <3>2
    <3> QED
      BY <3>1, <3>3
  <2>3. PICK L : L = st[k]
    OBVIOUS
  <2>4. L \in Block /\ L # NoBlock /\ FirstOf(st) = L /\ FirstOf(st2) = L /\ Height(c) <= Height(L)
    BY <1>7, <1>8, <2>1, <2>2, <2>3
  <2>5. PICK R : ChainOf(st) = {Genesis} \cup R /\ R \subseteq Block /\ L \in R /\ Climbs(st, R)
    BY <2>4, ChainOfIs
  <2>6. PICK X : X = {x \in R : Height(L) <= Height(x)}
    OBVIOUS
  <2>7. X \in SUBSET Block /\ L \in X
    BY <2>4, <2>5, <2>6, Heighted
  <2>8. ASSUME NEW x \in X, NextOf(st2, x) # NoBlock
        PROVE  NextOf(st2, x) \in X
    <3>1. x \in Block /\ x \in R /\ Height(x) \in Nat /\ Height(L) <= Height(x) /\ Height(L) \in Nat
      BY <2>4, <2>5, <2>6, Heighted
    <3>2. BlockData[c].prev # x
      <4>1. c # Genesis => Height(c) = Height(BlockData[c].prev) + 1
        BY DatabaseAssumption
      <4>2. c = Genesis => BlockData[c].prev \notin Block
        BY DatabaseAssumption
      <4> QED
        BY <1>4, <2>4, <3>1, <4>1, <4>2
    <3>3. {i \in DOMAIN st2 : BlockData[st2[i]].prev = x} = {i \in DOMAIN st : BlockData[st[i]].prev = x}
      BY <1>2, <1>3, <3>2
    <3>4. PICK I : I = {i \in DOMAIN st : BlockData[st[i]].prev = x}
      OBVIOUS
    <3>5. NextOf(st2, x) = (IF I = {} THEN NoBlock ELSE st2[Max(I)])
      BY <3>3, <3>4 DEF NextOf
    <3>6. NextOf(st, x) = (IF I = {} THEN NoBlock ELSE st[Max(I)])
      BY <3>4 DEF NextOf
    <3>7. I # {}
      BY <2>8, <3>5
    <3>8. Max(I) \in I
      <4>1. I \subseteq Nat /\ \A i \in I : i <= n
        BY <1>2, <3>4
      <4> QED
        BY <1>2, <3>7, <4>1, MaxIs
    <3>9. Max(I) \in 1..n
      BY <1>2, <3>4, <3>8
    <3>10. NextOf(st2, x) = NextOf(st, x)
      BY <1>3, <3>5, <3>6, <3>9
    <3>11. PICK y : y = NextOf(st, x)
      OBVIOUS
    <3>12. y \in R
      BY <2>5, <2>8, <3>1, <3>10, <3>11 DEF Climbs
    <3>13. Height(y) = Height(x) + 1
      BY <2>8, <3>1, <3>10, <3>11, NextOfIs
    <3>14. y \in X
      BY <2>6, <3>1, <3>12, <3>13
    <3> QED
      BY <3>10, <3>11, <3>14
  <2>9. S \subseteq X
    BY <1>10, <2>4, <2>7, <2>8 DEF Climbs
  <2>10. TipOf(st2) \in ChainOf(st)
    BY <1>9, <1>10, <2>5, <2>6, <2>9
  <2>11. TipOf(st2) \in Ancestors[TipOf(st)] /\ TipOf(st) \in Block
    BY <2>10, ChainOfIs
  <2> QED
    BY <1>5, <2>11, BranchInLine DEF InLine
<1> QED
  BY <1>11, <1>12

\* The tip of the next start is in the store.
LEMMA TipOfStored ==
    ASSUME NEW st \in Seq(Block)
    PROVE  TipOf(st) = Genesis \/ \E i \in DOMAIN st : TipOf(st) = st[i]
<1>1. TipOf(st) \in ChainOf(st)
  BY ChainOfIs
<1>2. CASE FirstOf(st) = NoBlock
  BY <1>1, <1>2, ChainOfIs
<1>3. CASE FirstOf(st) # NoBlock
  <2>1. PICK X : X = {st[i] : i \in DOMAIN st}
    OBVIOUS
  <2>2. X \in SUBSET Block
    BY <2>1, RowsAre
  <2>3. FirstOf(st) \in X
    BY <1>3, <2>1, FirstOfIs DEF Transitions
  <2>4. Climbs(st, X)
    <3>1. ASSUME NEW x \in X, NextOf(st, x) # NoBlock
          PROVE  NextOf(st, x) \in X
      BY <2>1, <2>2, <3>1, NextOfIs
    <3> QED
      BY <3>1 DEF Climbs
  <2>5. ChainOf(st) \subseteq {Genesis} \cup X
    BY <1>3, <2>2, <2>3, <2>4, ChainOfIs
  <2> QED
    BY <1>1, <2>1, <2>5
<1> QED
  BY <1>2, <1>3

\* A section, from its highest block down, has a block of each of its heights.
LEMMA DownwardsHas ==
    ASSUME NEW S, Section(S)
    PROVE  /\ Downwards(S) \in Seq(Block)
           /\ \A i \in DOMAIN Downwards(S) : Downwards(S)[i] \in S
           /\ \A x \in S : \E i \in DOMAIN Downwards(S) : Height(Downwards(S)[i]) = Height(x)
<1> DEFINE heights == {Height(x) : x \in S}
<1>1. heights \subseteq Nat /\ heights # {} /\ \A n \in heights : n <= TX_UNCONFIRMED
  BY Heighted, DatabaseAssumption DEF Section
<1>2. PICK top, low : top = Max(heights) /\ low = Min(heights)
  OBVIOUS
<1>3. top \in heights /\ low \in heights /\ \A n \in heights : low <= n /\ n <= top
  <2> HIDE DEF heights
  <2>1. TX_UNCONFIRMED \in Nat
    BY DatabaseAssumption
  <2>2. Max(heights) \in heights /\ \A m \in heights : m <= Max(heights)
    BY <1>1, <2>1, MaxIs
  <2>3. Min(heights) \in heights /\ \A m \in heights : Min(heights) <= m
    BY <1>1, MinIs
  <2> QED
    BY <1>2, <2>2, <2>3
<1>4. Downwards(S) = [i \in 1..(top - low + 1) |-> CHOOSE x \in S : Height(x) = top + 1 - i]
  BY <1>2 DEF Downwards
<1>5. PICK x \in S, y \in S : Height(x) = low /\ Height(y) = top
  BY <1>3
<1>6. top \in Nat /\ low \in Nat
  BY <1>1, <1>3
<1>7. ASSUME NEW i \in 1..(top - low + 1)
      PROVE  Downwards(S)[i] \in S /\ Height(Downwards(S)[i]) = top + 1 - i
  <2>1. top + 1 - i \in low..top
    BY <1>6
  <2>2. PICK h : h = top + 1 - i
    OBVIOUS
  <2>3. \E z \in S : Height(z) = h
    BY <1>5, <2>1, <2>2 DEF Section
  <2>4. PICK w : w = CHOOSE z \in S : Height(z) = h
    OBVIOUS
  <2>5. w \in S /\ Height(w) = h
    BY <2>3, <2>4
  <2>6. Downwards(S)[i] = w
    BY <1>4, <2>2, <2>4
  <2> QED
    BY <2>2, <2>5, <2>6
<1>8. DOMAIN Downwards(S) = 1..(top - low + 1)
  BY <1>4
<1>9. ASSUME NEW z \in S
      PROVE  \E i \in DOMAIN Downwards(S) : Height(Downwards(S)[i]) = Height(z)
  <2>1. Height(z) \in Nat /\ low <= Height(z) /\ Height(z) <= top
    BY <1>1, <1>3
  <2>2. top + 1 - Height(z) \in 1..(top - low + 1) /\ top + 1 - (top + 1 - Height(z)) = Height(z)
    BY <1>6, <2>1
  <2> QED
    BY <1>7, <1>8, <2>2
<1>10. Downwards(S) \in Seq(Block)
  BY DownwardsIs
<1> QED
  BY <1>7, <1>8, <1>9, <1>10

\* The job of saveBlocks has run, for a part of a branch, or for one block that is added:
Stores(st, S, replace, st2) ==
    /\ Section(S) /\ Anchored(S) /\ (~replace => \E c : S = {c})
    /\ st2 = (IF replace THEN <<>> ELSE st) \o Downwards(S)

Continues(st, S, st2) ==
    /\ st2 \in Seq(Block) /\ AnchoredRows(st2)
    /\ \E b \in S : Ancestors[TipOf(st2)] \subseteq Ancestors[TipOf(st)] \cup Ancestors[b]

\* the next start is as before, or on the branch of a block that it saved.
LEMMA StoredTip ==
    ASSUME NEW st \in Seq(Block), NEW S, NEW st2, NEW replace \in BOOLEAN, AnchoredRows(st),
           Stores(st, S, replace, st2)
    PROVE  Continues(st, S, st2)
<1>1. /\ Section(S) /\ Anchored(S) /\ (~replace => \E c : S = {c})
      /\ st2 = (IF replace THEN <<>> ELSE st) \o Downwards(S)
  BY DEF Stores
<1>2. PICK D : D = Downwards(S)
  OBVIOUS
<1>3. /\ D \in Seq(Block) /\ (\A i \in DOMAIN D : D[i] \in S)
      /\ \A x \in S : \E i \in DOMAIN D : Height(D[i]) = Height(x)
  BY <1>1, <1>2, DownwardsHas
<1>4. S # {} /\ S \subseteq Block
  BY <1>1 DEF Section
<1>5. CASE replace
  <2>1. st2 = D
    <3>1. <<>> \o D = D
      BY <1>3, ConcatEmptySeq
    <3> QED
      BY <1>1, <1>2, <1>5, <3>1
  <2>2. AnchoredRows(D)
    <3>1. ASSUME NEW i \in DOMAIN D, Height(D[i]) % BLOCK_DIFFICULTY_INTERVAL # 0
          PROVE  \E j \in DOMAIN D : Height(D[i]) = Height(D[j]) + 1
      <4>1. PICK y \in S : Height(D[i]) = Height(y) + 1
        BY <1>1, <1>3, <3>1 DEF Anchored
      <4>2. PICK j \in DOMAIN D : Height(D[j]) = Height(y)
        BY <1>3
      <4> QED
        BY <4>1, <4>2
    <3> QED
      BY <3>1 DEF AnchoredRows
  <2>3. PICK b \in S : TipOf(D) = Genesis \/ TipOf(D) = b
    BY <1>3, <1>4, TipOfStored
  <2>4. TipOf(D) \in Ancestors[b] /\ b \in Block
    BY <1>4, <2>3, BranchInLine, AncestorsUnfold DEF InLine
  <2>5. Ancestors[TipOf(D)] \subseteq Ancestors[b]
    BY <2>4, BranchInLine DEF InLine
  <2> QED
    BY <1>3, <2>1, <2>2, <2>5 DEF Continues
<1>6. CASE ~replace
  <2>1. PICK c : S = {c}
    BY <1>1, <1>6
  <2>2. c \in Block /\ Height(c) \in Nat
    BY <1>4, <2>1, Heighted
  <2>3. Height(c) % BLOCK_DIFFICULTY_INTERVAL = 0
    <3>1. Height(c) # Height(c) + 1
      BY <2>2
    <3> QED
      BY <1>1, <2>1, <3>1 DEF Anchored
  <2>4. D = <<c>>
    <3>1. DOMAIN D = 1..Len(D) /\ Len(D) \in Nat
      BY <1>3, LenProperties
    <3>2. Max({Height(x) : x \in S}) = Height(c) /\ Min({Height(x) : x \in S}) = Height(c)
      <4>1. {Height(x) : x \in S} = {Height(c)}
        BY <2>1
      <4>2. {Height(c)} \subseteq Nat /\ {Height(c)} # {} /\ \A n \in {Height(c)} : n <= Height(c)
        BY <2>2
      <4>3. Max({Height(c)}) \in {Height(c)} /\ Min({Height(c)}) \in {Height(c)}
        BY <2>2, <4>2, MaxIs, MinIs
      <4> QED
        BY <4>1, <4>3
    <3>3. DOMAIN D = 1..(Height(c) - Height(c) + 1)
      BY <1>2, <3>2 DEF Downwards
    <3>4. Height(c) - Height(c) + 1 = 1
      BY <2>2
    <3>5. DOMAIN D = 1..1
      BY <3>3, <3>4
    <3>6. Len(D) = 1
      <4>1. PICK m : m = Len(D)
        OBVIOUS
      <4>2. m \in Nat /\ 1..m = 1..1
        BY <3>1, <3>5, <4>1
      <4>3. 1 \in 1..m
        BY <4>2
      <4>4. m \in 1..m
        BY <4>2, <4>3
      <4>5. \A i : i \in 1..m <=> i \in 1..1
        BY <4>2
      <4>6. 1 <= m /\ m <= 1
        BY <4>2, <4>4, <4>5
      <4> QED
        BY <4>1, <4>2, <4>6
    <3>7. D[1] = c
      BY <1>3, <2>1, <3>5
    <3> QED
      BY <1>3, <3>6, <3>7
  <2>5. st2 = st \o <<c>>
    BY <1>1, <1>2, <1>6, <2>4
  <2>6. st2 \in Seq(Block)
    <3>1. <<c>> \in Seq(Block)
      BY <2>2
    <3> QED
      BY <2>5, <3>1, ConcatProperties
  <2>7. /\ AnchoredRows(st2)
        /\ Ancestors[TipOf(st2)] \subseteq Ancestors[TipOf(st)] \cup Ancestors[c]
    BY <2>2, <2>3, <2>5, <2>6, AppendedTip
  <2> QED
    BY <2>1, <2>6, <2>7 DEF Continues
<1> QED
  BY <1>5, <1>6

-----------------------------------------------------------------------------
(* What a thread saves is a part of the branch that begins at a transition. *)

\* The first multiple of d that is not below n.
LEMMA NextMultiple ==
    ASSUME NEW n \in Nat, NEW d \in Nat, d > 0
    PROVE  (n + ((0 - n) % d)) % d = 0
<1>1. PICK m : m = 0 - n
  OBVIOUS
<1>2. m = d * (m \div d) + (m % d) /\ m \div d \in Int /\ m % d \in Int
  BY <1>1
<1>3. PICK q, r : q = m \div d /\ r = m % d
  OBVIOUS
<1>4. q \in Int /\ r \in Int /\ n + r = d * (0 - q)
  BY <1>1, <1>2, <1>3
<1>5. PICK e \in Int : e = 0 - q
  BY <1>4
<1>6. (d * e) % d = 0
  BY SMTT(30)
<1> QED
  BY <1>1, <1>3, <1>4, <1>5, <1>6

LEMMA SaveSetAnchored ==
    ASSUME NEW bs \in SUBSET Block, NEW b \in Block, NEW count \in Nat \ {0}
    PROVE  SaveSet(bs, b, count) \subseteq Ancestors[b] /\ Anchored(SaveSet(bs, b, count))
<1>1. PICK C : C = Chain(bs, b)
  OBVIOUS
<1>2. IsBranch(C, b) /\ C \subseteq Ancestors[b]
  BY <1>1, ChainIsBranch, ChainOfBranch
<1>3. PICK last : last = {x \in C : Height(x) > Height(b) - count}
  OBVIOUS
<1>4. PICK lowest : lowest = Min({Height(x) : x \in last})
  OBVIOUS
<1>5. PICK skip : skip = (0 - lowest) % BLOCK_DIFFICULTY_INTERVAL
  OBVIOUS
<1>6. PICK T : T = SaveSet(bs, b, count)
  OBVIOUS
<1>7. T = {x \in last : Height(x) >= lowest + skip}
  BY <1>1, <1>3, <1>4, <1>5, <1>6 DEF SaveSet
<1>8. Height(b) \in Nat /\ \A x \in C : x \in Block /\ Height(x) \in Nat /\ Height(x) <= Height(b)
  BY <1>2, Heighted DEF IsBranch
<1>9. lowest \in Nat /\ (\A x \in last : lowest <= Height(x)) /\ \E x \in last : Height(x) = lowest
  <2> DEFINE H == {Height(x) : x \in last}
  <2>1. b \in last
    BY <1>2, <1>3, Heighted DEF IsBranch
  <2>2. H \subseteq Nat /\ H # {} /\ \A x \in last : Height(x) \in H
    BY <1>3, <1>8, <2>1
  <2>3. lowest \in H /\ \A n \in H : lowest <= n
    <3> HIDE DEF H
    <3>1. Min(H) \in H /\ \A n \in H : Min(H) <= n
      BY <2>2, MinIs
    <3> QED
      BY <1>4, <3>1 DEF H
  <2> QED
    BY <2>2, <2>3
<1>10. skip \in Nat /\ (lowest + skip) % BLOCK_DIFFICULTY_INTERVAL = 0
  <2>1. BLOCK_DIFFICULTY_INTERVAL \in Nat /\ BLOCK_DIFFICULTY_INTERVAL > 0
    BY DatabaseAssumption
  <2> QED
    BY <1>5, <1>9, <2>1, NextMultiple
<1>11. ASSUME NEW x \in T, Height(x) % BLOCK_DIFFICULTY_INTERVAL # 0
       PROVE  \E y \in T : Height(x) = Height(y) + 1
  <2>1. x \in C /\ x \in last /\ Height(x) \in Nat /\ Height(x) >= lowest + skip
    BY <1>3, <1>7, <1>8
  <2>2. Height(x) # lowest + skip
    BY <1>10, <1>11
  <2>3. PICK h \in Nat : Height(x) = h + 1 /\ h >= lowest + skip
    <3>1. Height(x) - 1 \in Nat /\ Height(x) - 1 >= lowest + skip /\ Height(x) = (Height(x) - 1) + 1
      BY <1>9, <1>10, <2>1, <2>2
    <3> QED
      BY <3>1
  <2>4. PICK w \in last : Height(w) = lowest
    BY <1>9
  <2>5. w \in C /\ h \in Height(w)..Height(b)
    BY <1>3, <1>8, <1>9, <1>10, <2>1, <2>3, <2>4
  <2>6. PICK y \in C : Height(y) = h
    BY <1>2, <2>5 DEF IsBranch
  <2>7. Height(w) > Height(b) - count
    BY <1>3, <2>4
  <2>8. y \in last
    BY <1>3, <1>8, <1>9, <1>10, <2>3, <2>4, <2>6, <2>7
  <2>9. y \in T
    BY <1>7, <2>3, <2>6, <2>8
  <2> QED
    BY <2>3, <2>6, <2>9
<1>12. T \subseteq Ancestors[b]
  BY <1>2, <1>3, <1>7
<1> QED
  BY <1>6, <1>11, <1>12 DEF Anchored

\* A branch is a finite set of blocks.
LEMMA BranchFinite ==
    ASSUME NEW b \in Block
    PROVE  IsFiniteSet(Ancestors[b])
<1> DEFINE f == [x \in Ancestors[b] |-> Height(x)]
<1>1. \A x \in Ancestors[b] : x \in Block /\ Height(x) \in Nat /\ Height(x) <= Height(b)
  BY BranchInLine, Heighted DEF InLine
<1>2. Height(b) \in Nat
  BY Heighted
<1>3. IsFiniteSet(0..Height(b))
  BY <1>2, FS_Interval
<1>4. f \in Injection(Ancestors[b], 0..Height(b))
  <2>1. f \in [Ancestors[b] -> 0..Height(b)]
    BY <1>1, <1>2
  <2>2. \A x, y \in Ancestors[b] : f[x] = f[y] => x = y
    BY BranchInLine DEF InLine
  <2> HIDE DEF f
  <2> QED
    BY <2>1, <2>2 DEF Injection, IsInjective
<1> QED
  BY <1>3, <1>4, FS_Injection

\* A job of saveBlocks: it replaces the store unless it has one block, a transition.
JobAnchored(j) == Anchored(j.blocks) /\ (~j.replace => \E c : j.blocks = {c})

LEMMA SaveJobAnchored ==
    ASSUME NEW S, NEW b \in Block, S \subseteq Ancestors[b], S # {}, Anchored(S)
    PROVE  JobAnchored(SaveBlocks(S))
<1>1. PICK j : j = SaveBlocks(S)
  OBVIOUS
<1>2. j.blocks = S /\ j.replace = (Cardinality(S) > 1)
  BY <1>1 DEF SaveBlocks
<1>3. IsFiniteSet(S)
  BY BranchFinite, FS_Subset
<1>4. ASSUME ~(Cardinality(S) > 1)
      PROVE  \E c : S = {c}
  <2>1. PICK c : c \in S
    OBVIOUS
  <2>2. ASSUME NEW d \in S, d # c
        PROVE  FALSE
    <3>1. IsFiniteSet({c}) /\ Cardinality({c}) = 1
      BY FS_Singleton
    <3>2. IsFiniteSet({c} \cup {d}) /\ Cardinality({c} \cup {d}) = 1 + 1
      BY <2>2, <3>1, FS_AddElement
    <3>3. {c} \cup {d} \subseteq S
      BY <2>1
    <3>4. Cardinality({c} \cup {d}) <= Cardinality(S)
      BY <1>3, <3>3, FS_Subset
    <3>5. Cardinality(S) \in Nat
      BY <1>3, FS_CardinalityType
    <3> QED
      BY <1>4, <3>2, <3>4, <3>5
  <2> QED
    BY <2>1, <2>2
<1>5. JobAnchored(j)
  BY <1>2, <1>4 DEF JobAnchored
<1> QED
  BY <1>1, <1>5

\* What the threads and the queue have to save.
HandsAnchored(s) == \A p \in Peers : s[p] # NoJob => JobAnchored(s[p])

QueueAnchored(q) == \A i \in DOMAIN q : q[i].op = "blocks" => JobAnchored(q[i])

\* The blocks that a thread has in hand after the unlock.
LEMMA SaveNextAnchored ==
    ASSUME NEW p \in Peers, NEW bs \in SUBSET Block, NEW b \in Block, Saves(saving), SaveNext(p, bs, b),
           HandsAnchored(saving)
    PROVE  /\ HandsAnchored(saving')
           /\ \A q \in Peers : \/ saving'[q] = saving[q] \/ saving'[q] = NoJob
                               \/ saving'[q].blocks \subseteq Ancestors[b]
<1>1. PICK count \in SaveCounts(b) :
          saving' = [saving EXCEPT ![p] =
              IF (IF count = 0 THEN {} ELSE SaveSet(bs, b, count)) = {} THEN NoJob
              ELSE SaveBlocks(IF count = 0 THEN {} ELSE SaveSet(bs, b, count))]
  BY DEF SaveNext
<1>2. count \in Nat
  BY Heighted, DatabaseAssumption DEF SaveCounts, FullCount
<1>3. PICK S : S = IF count = 0 THEN {} ELSE SaveSet(bs, b, count)
  OBVIOUS
<1>4. S \subseteq Ancestors[b] /\ Anchored(S)
  <2>1. CASE count = 0
    BY <1>3, <2>1 DEF Anchored
  <2>2. CASE count # 0
    BY <1>2, <1>3, <2>2, SaveSetAnchored
  <2> QED
    BY <2>1, <2>2
<1>5. PICK j : j = IF S = {} THEN NoJob ELSE SaveBlocks(S)
  OBVIOUS
<1>6. saving' = [saving EXCEPT ![p] = j]
  BY <1>1, <1>3, <1>5
<1>7. j = NoJob \/ (JobAnchored(j) /\ j.blocks = S)
  BY <1>4, <1>5, SaveJobAnchored DEF SaveBlocks
<1>8. DOMAIN saving = Peers
  BY DEF Saves
<1> QED
  BY <1>4, <1>6, <1>7, <1>8 DEF HandsAnchored

\* A job that points to a freed block saves what it was to save.
LEMMA DangleSame ==
    ASSUME NEW j \in Job, NEW b
    PROVE  /\ Dangle(j, b).op = j.op
           /\ j.op # "blocks" => Dangle(j, b) = j
           /\ j.op = "blocks" => Dangle(j, b).blocks = j.blocks /\ Dangle(j, b).replace = j.replace
<1>1. CASE ~(j # NoJob /\ j.op = "blocks" /\ b \in j.blocks)
  BY <1>1 DEF Dangle
<1>2. CASE j # NoJob /\ j.op = "blocks" /\ b \in j.blocks
  <2>1. PICK k : k = [j EXCEPT !.intact = FALSE]
    OBVIOUS
  <2>2. Dangle(j, b) = k
    BY <1>2, <2>1 DEF Dangle
  <2>3. PICK r, s, i : j = [op |-> "blocks", replace |-> r, blocks |-> s, intact |-> i]
    <3>1. j = [op |-> "blocks", replace |-> j.replace, blocks |-> j.blocks, intact |-> j.intact]
      BY <1>2, JobFields
    <3> QED
      BY <3>1, Zenon
  <2>4. k.op = "blocks" /\ k.replace = r /\ k.blocks = s /\ j.replace = r /\ j.blocks = s
    BY <2>1, <2>3
  <2> QED
    BY <1>2, <2>2, <2>4
<1> QED
  BY <1>1, <1>2

-----------------------------------------------------------------------------
(* The invariant. *)

\* The blocks of the longest branch, and those of them that b's branch has.
Winning == UNION {Ancestors[best] : best \in Longest}

Won(b) == Ancestors[b] \cap Winning

\* A row will be there: the app exits before an update that does not find it.
Covered(q, rs, t) ==
    \/ \E i \in Updates(q, t) : \A d \in Deletes(q, t) : d < i
    \/ t \in DOMAIN rs /\ Deletes(q, t) = {}

\* What the wallet has at a height is, or will be, in the table.
AllCovered(q, hs, rs) == \A t \in DOMAIN hs : hs[t] # TX_UNCONFIRMED => Covered(q, rs, t)

\* The transactions of the longest branch, as far as b's branch has it, have their blocks' heights.
Confirmed(hs, b) == \A x \in Won(b) : \A t \in BlockData[x].txs : t \in DOMAIN hs /\ hs[t] = Height(x)

\* Nothing more happens to them after the job that saves their block.
InOrder(q) ==
    \A k \in DOMAIN q : q[k].op = "blocks" =>
        \A x \in q[k].blocks : \A t \in Txs(Won(x)) : \A i \in Updates(q, t) \cup Deletes(q, t) : i < k

\* What is to be saved of the longest branch is on the main chain.
QueueBelow(q, b) == \A k \in DOMAIN q : q[k].op = "blocks" => \A x \in q[k].blocks : Won(x) \subseteq Ancestors[b]

HandsBelow(s, b) == \A p \in Peers : s[p] # NoJob => \A x \in s[p].blocks : Won(x) \subseteq Ancestors[b]

\* So are the blocks without transactions.
BareBelow(br, b) == br \cap Winning \subseteq Ancestors[b]

\* The others' transactions are in the wallet.
Held(bs, br, hs) == \A x \in bs \ br : BlockData[x].txs \subseteq DOMAIN hs

\* What the next start will have of the longest branch has its rows,
Saved(st, rs) ==
    \A x \in Won(TipOf(st)) : \A t \in BlockData[x].txs : t \in DOMAIN rs /\ rs[t] = Height(x)

\* is on the main chain, and nothing more happens to it.
Still(st, q, b) ==
    /\ Won(TipOf(st)) \subseteq Ancestors[b]
    /\ \A t \in Txs(Won(TipOf(st))) : Updates(q, t) = {} /\ Deletes(q, t) = {}

Kept ==
    /\ AnchoredRows(store) /\ QueueAnchored(queue) /\ HandsAnchored(saving)
    /\ Saved(store, rows)
    /\ app = "running" =>
          /\ AllCovered(queue, height, rows) /\ Confirmed(height, tip) /\ InOrder(queue)
          /\ QueueBelow(queue, tip) /\ HandsBelow(saving, tip) /\ BareBelow(bare, tip)
          /\ Held(blocks, bare, height) /\ Still(store, queue, tip)

-----------------------------------------------------------------------------
(* More updates wait. *)

\* r is the queue q with updates at its end, none of them of a transaction of Z.
Grows(q, r, Z) ==
    /\ DOMAIN q \subseteq DOMAIN r
    /\ \A i \in DOMAIN q : r[i] = q[i]
    /\ \A i \in DOMAIN r \ DOMAIN q : r[i].op = "updated" /\ r[i].left \cap Z = {}

LEMMA GrowsSame ==
    ASSUME NEW q, NEW r, NEW Z, NEW t \in Z, Grows(q, r, Z)
    PROVE  Updates(r, t) = Updates(q, t) /\ Deletes(r, t) = Deletes(q, t)
<1>1. Updates(r, t) = Updates(q, t)
  BY DEF Grows, Updates
<1>2. Deletes(r, t) = Deletes(q, t)
  BY DEF Grows, Deletes
<1> QED
  BY <1>1, <1>2

\* A branch with all that the other has of the longest one.
LEMMA WonBelow ==
    ASSUME NEW b, NEW x, Won(x) \subseteq Ancestors[b]
    PROVE  Won(x) \subseteq Won(b) /\ Txs(Won(x)) \subseteq Txs(Won(b))
  BY DEF Won, Txs

\* The order of the jobs that were there stays.
LEMMA GrowsKeeps ==
    ASSUME NEW q, NEW r, NEW b, NEW b2, NEW st, Grows(q, r, Txs(Won(b))), Won(b) \subseteq Ancestors[b2],
           InOrder(q), QueueBelow(q, b), QueueAnchored(q), Still(st, q, b)
    PROVE  InOrder(r) /\ QueueBelow(r, b2) /\ QueueAnchored(r) /\ Still(st, r, b2)
<1>1. \A k \in DOMAIN r : r[k].op = "blocks" => k \in DOMAIN q /\ q[k] = r[k]
  BY DEF Grows
<1>2. QueueAnchored(r)
  BY <1>1 DEF QueueAnchored
<1>3. QueueBelow(r, b2)
  BY <1>1, WonBelow DEF QueueBelow
<1>4. InOrder(r)
  <2> SUFFICES ASSUME NEW k \in DOMAIN r, r[k].op = "blocks", NEW x \in r[k].blocks, NEW t \in Txs(Won(x)),
                      NEW i \in Updates(r, t) \cup Deletes(r, t)
               PROVE  i < k
    BY DEF InOrder
  <2>1. k \in DOMAIN q /\ q[k] = r[k]
    BY <1>1
  <2>2. t \in Txs(Won(b))
    BY <2>1, WonBelow DEF QueueBelow
  <2>3. i \in Updates(q, t) \cup Deletes(q, t)
    BY <2>2, GrowsSame
  <2> QED
    BY <2>1, <2>3 DEF InOrder
<1>5. Still(st, r, b2)
  <2>1. Won(TipOf(st)) \subseteq Ancestors[b2]
    BY WonBelow DEF Still
  <2>2. ASSUME NEW t \in Txs(Won(TipOf(st)))
        PROVE  Updates(r, t) = {} /\ Deletes(r, t) = {}
    <3>1. t \in Txs(Won(b))
      BY WonBelow DEF Still
    <3> QED
      BY <3>1, GrowsSame DEF Still
  <2> QED
    BY <2>1, <2>2 DEF Still
<1> QED
  BY <1>2, <1>3, <1>4, <1>5

\* What was done so far: acc waits after q, covers what has a height and leaves the transactions of Z alone.
Moves(q, hs, rs, Z, acc) ==
    /\ acc.jobs \in Seq(Job)
    /\ DOMAIN acc.heights = DOMAIN hs
    /\ \A t \in Z \cap DOMAIN hs : acc.heights[t] = hs[t]
    /\ Grows(q, q \o acc.jobs, Z)
    /\ AllCovered(q \o acc.jobs, acc.heights, rs)

LEMMA NoMove ==
    ASSUME NEW q \in Seq(Job), NEW hs, NEW rs, NEW Z, AllCovered(q, hs, rs)
    PROVE  Moves(q, hs, rs, Z, [heights |-> hs, jobs |-> <<>>])
<1>1. q \o <<>> = q /\ <<>> \in Seq(Job)
  BY ConcatEmptySeq
<1>2. Grows(q, q, Z)
  BY DEF Grows
<1> QED
  BY <1>1, <1>2 DEF Moves

\* Some transactions get a height.
LEMMA ChangeMoves ==
    ASSUME NEW q \in Seq(Job), NEW hs, NEW rs, NEW Z, NEW acc, NEW S \in SUBSET Tx, NEW h \in Heights,
           Moves(q, hs, rs, Z, acc), S \subseteq DOMAIN hs, S \cap Z = {}
    PROVE  Moves(q, hs, rs, Z, [heights |-> Change(acc.heights, S, h).heights,
                                jobs |-> acc.jobs \o Change(acc.heights, S, h).jobs])
<1>1. PICK hs2 : hs2 = [t \in DOMAIN acc.heights |-> IF t \in S THEN h ELSE acc.heights[t]]
  OBVIOUS
<1>2. PICK jobs : jobs = IF S = {} THEN <<>> ELSE <<TxUpdated(S, h)>>
  OBVIOUS
<1>3. Change(acc.heights, S, h).heights = hs2 /\ Change(acc.heights, S, h).jobs = jobs
  BY <1>1, <1>2 DEF Change
<1>4. PICK acc2 : acc2 = [heights |-> hs2, jobs |-> acc.jobs \o jobs]
  OBVIOUS
<1>5. PICK r : r = q \o acc.jobs
  OBVIOUS
<1>6. /\ acc.jobs \in Seq(Job) /\ DOMAIN acc.heights = DOMAIN hs
      /\ (\A t \in Z \cap DOMAIN hs : acc.heights[t] = hs[t])
      /\ Grows(q, r, Z) /\ AllCovered(r, acc.heights, rs) /\ r \in Seq(Job)
  BY <1>5, ConcatProperties DEF Moves
<1>7. DOMAIN hs2 = DOMAIN hs /\ \A t \in Z \cap DOMAIN hs : hs2[t] = hs[t]
  BY <1>1, <1>6
<1>8. CASE S = {}
  <2>1. hs2 = [t \in DOMAIN acc.heights |-> acc.heights[t]] /\ jobs = <<>>
    BY <1>1, <1>2, <1>8
  <2>2. acc.jobs \o <<>> = acc.jobs
    BY <1>6, ConcatEmptySeq
  <2>3. AllCovered(r, hs2, rs)
    BY <1>6, <2>1 DEF AllCovered
  <2>4. acc2.heights = hs2 /\ acc2.jobs = acc.jobs
    BY <1>4, <2>1, <2>2
  <2>5. Moves(q, hs, rs, Z, acc2)
    BY <1>5, <1>6, <1>7, <2>3, <2>4 DEF Moves
  <2> QED
    BY <1>3, <1>4, <2>5
<1>9. CASE S # {}
  <2>1. PICK j : j = TxUpdated(S, h)
    OBVIOUS
  <2>2. j \in Job /\ j.op = "updated" /\ j.left = S
    BY <2>1, UpdateType
  <2>3. PICK r2 : r2 = r \o <<j>>
    OBVIOUS
  <2>4. IsPushed(r, j, r2)
    BY <1>6, <2>2, <2>3, Pushed
  <2>5. jobs = <<j>> /\ jobs \in Seq(Job)
    BY <1>2, <1>9, <2>1, <2>2
  <2>6. q \o (acc.jobs \o jobs) = r2 /\ acc.jobs \o jobs \in Seq(Job)
    <3>1. \A a, c \in Seq(Job) : (q \o a) \o c = q \o (a \o c)
      BY ConcatAssociative
    <3>2. acc.jobs \o jobs \in Seq(Job)
      BY <1>6, <2>5, ConcatProperties
    <3> QED
      BY <1>5, <1>6, <2>3, <2>5, <3>1, <3>2
  <2>7. Grows(q, r2, Z)
    <3>1. DOMAIN r2 = DOMAIN r \cup {Len(r) + 1} /\ \A i \in DOMAIN r : r2[i] = r[i]
      BY <2>4 DEF IsPushed
    <3>2. r2[Len(r) + 1] = j
      BY <2>4 DEF IsPushed
    <3> QED
      BY <1>6, <2>2, <3>1, <3>2 DEF Grows
  <2>8. AllCovered(r2, hs2, rs)
    <3> SUFFICES ASSUME NEW t \in DOMAIN hs, hs2[t] # TX_UNCONFIRMED
                 PROVE  Covered(r2, rs, t)
      BY <1>7 DEF AllCovered
    <3>1. Deletes(r2, t) = Deletes(r, t)
      BY <2>2, <2>4, PushedDeletes
    <3>2. CASE t \in S
      <4>1. Len(r) + 1 \in Updates(r2, t) /\ \A d \in Deletes(r, t) : d < Len(r) + 1
        BY <2>2, <2>4, <3>2 DEF IsPushed, Updates, Deletes
      <4> QED
        BY <3>1, <4>1 DEF Covered
    <3>3. CASE t \notin S
      <4>1. Updates(r2, t) = Updates(r, t)
        BY <2>2, <2>4, <3>3, PushedUpdates
      <4>2. hs2[t] = acc.heights[t]
        BY <1>1, <1>6, <3>3
      <4>3. Covered(r, rs, t)
        BY <1>6, <4>2 DEF AllCovered
      <4> QED
        BY <3>1, <4>1, <4>3 DEF Covered
    <3> QED
      BY <3>2, <3>3
  <2>9. acc2.heights = hs2 /\ acc2.jobs = acc.jobs \o jobs
    BY <1>4
  <2>10. Moves(q, hs, rs, Z, acc2)
    BY <1>7, <2>6, <2>7, <2>8, <2>9 DEF Moves
  <2> QED
    BY <1>3, <1>4, <2>10
<1> QED
  BY <1>8, <1>9

\* BRWalletUpdateTransactions leaves a transaction of Z alone that has the height.
LEMMA UpdateMoves ==
    ASSUME NEW q \in Seq(Job), NEW hs, NEW rs, NEW Z, NEW acc, NEW S, NEW h \in Heights,
           Moves(q, hs, rs, Z, acc), DOMAIN hs \subseteq Tx, \A t \in S \cap Z \cap DOMAIN hs : hs[t] = h
    PROVE  Moves(q, hs, rs, Z, [heights |-> UpdateTransactions(acc.heights, S, h).heights,
                                jobs |-> acc.jobs \o UpdateTransactions(acc.heights, S, h).jobs])
<1>1. PICK C : C = {t \in S \cap DOMAIN acc.heights : acc.heights[t] # h}
  OBVIOUS
<1>2. UpdateTransactions(acc.heights, S, h) = Change(acc.heights, C, h)
  BY <1>1 DEF UpdateTransactions, Change
<1>3. DOMAIN acc.heights = DOMAIN hs /\ \A t \in Z \cap DOMAIN hs : acc.heights[t] = hs[t]
  BY DEF Moves
<1>4. C \in SUBSET Tx /\ C \subseteq DOMAIN hs /\ C \cap Z = {}
  BY <1>1, <1>3
<1> QED
  BY <1>2, <1>4, ChangeMoves

\* BRWalletSetTxUnconfirmedAfter leaves those alone that have no greater height.
LEMMA UnconfirmMoves ==
    ASSUME NEW q \in Seq(Job), NEW rs, NEW Z, NEW h, AllCovered(q, height, rs),
           DOMAIN height \subseteq Tx, listed \subseteq DOMAIN height,
           \A t \in Z : t \in DOMAIN height /\ ~(height[t] > h)
    PROVE  Moves(q, height, rs, Z, SetTxUnconfirmedAfter(h))
<1>1. PICK C : C = {t \in listed : height[t] > h}
  OBVIOUS
<1>2. SetTxUnconfirmedAfter(h) = Change(height, C, TX_UNCONFIRMED)
  BY <1>1 DEF SetTxUnconfirmedAfter, Change
<1>3. C \in SUBSET Tx /\ C \subseteq DOMAIN height /\ C \cap Z = {} /\ TX_UNCONFIRMED \in Heights
  BY <1>1 DEF Heights
<1>4. PICK acc : acc = [heights |-> height, jobs |-> <<>>]
  OBVIOUS
<1>5. Moves(q, height, rs, Z, acc) /\ acc.heights = height /\ acc.jobs = <<>>
  BY <1>4, NoMove
<1>6. Moves(q, height, rs, Z, [heights |-> Change(acc.heights, C, TX_UNCONFIRMED).heights,
                               jobs |-> acc.jobs \o Change(acc.heights, C, TX_UNCONFIRMED).jobs])
  BY <1>3, <1>5, ChangeMoves
<1>7. PICK c : c = Change(height, C, TX_UNCONFIRMED)
  OBVIOUS
<1>8. c = [heights |-> c.heights, jobs |-> c.jobs]
  BY <1>7 DEF Change
<1>9. <<>> \o c.jobs = c.jobs
  <2>1. c.jobs \in Seq(Job)
    BY <1>3, <1>7, UpdateType DEF Change
  <2> QED
    BY <2>1, ConcatEmptySeq
<1> QED
  BY <1>2, <1>5, <1>6, <1>7, <1>8, <1>9


\* One block of the new main chain leaves the transactions of Z alone that have its height,
LEMMA ConfirmMoves ==
    ASSUME NEW q \in Seq(Job), NEW hs, NEW rs, NEW Z, NEW acc, NEW x \in Block, Moves(q, hs, rs, Z, acc),
           DOMAIN hs \subseteq Tx, \A t \in TxHashes(x) \cap Z \cap DOMAIN hs : hs[t] = Height(x)
    PROVE  Moves(q, hs, rs, Z, ConfirmBlock(acc, x))
<1>1. Height(x) \in Heights
  BY DEF Heights
<1>2. ConfirmBlock(acc, x) = [heights |-> UpdateTransactions(acc.heights, TxHashes(x), Height(x)).heights,
                              jobs |-> acc.jobs \o UpdateTransactions(acc.heights, TxHashes(x), Height(x)).jobs]
  BY DEF ConfirmBlock
<1>3. PICK S : S = TxHashes(x)
  OBVIOUS
<1>4. \A t \in S \cap Z \cap DOMAIN hs : hs[t] = Height(x)
  BY <1>3
<1>5. Moves(q, hs, rs, Z, [heights |-> UpdateTransactions(acc.heights, S, Height(x)).heights,
                           jobs |-> acc.jobs \o UpdateTransactions(acc.heights, S, Height(x)).jobs])
  BY <1>1, <1>4, UpdateMoves
<1> QED
  BY <1>2, <1>3, <1>5

\* and so do all of them.
LEMMA ConfirmDownMoves ==
    ASSUME NEW q \in Seq(Job), NEW hs, NEW rs, NEW Z, NEW first, NEW list, NEW count \in Nat,
           Moves(q, hs, rs, Z, first), DOMAIN hs \subseteq Tx,
           \A n \in 1..count : /\ list[n] \in Block
                               /\ \A t \in TxHashes(list[n]) \cap Z \cap DOMAIN hs : hs[t] = Height(list[n])
    PROVE  Moves(q, hs, rs, Z, ConfirmDown(first, list, count))
<1>1. PICK C : Confirms(C, first, list, count) /\ ConfirmDown(first, list, count) = C[count]
  BY ConfirmDownIs
<1>2. \A n \in 0..count : C[n] = IF n = 0 THEN first ELSE ConfirmBlock(C[n - 1], list[n])
  BY <1>1 DEF Confirms
<1> DEFINE K == {k \in Nat : k <= count => Moves(q, hs, rs, Z, C[k])}
<1>3. 0 \in K
  BY <1>2
<1>4. ASSUME NEW k \in Nat, k \in K
      PROVE  k + 1 \in K
  <2> SUFFICES ASSUME k + 1 <= count
               PROVE  Moves(q, hs, rs, Z, C[k + 1])
    OBVIOUS
  <2>1. PICK x : x = list[k + 1]
    OBVIOUS
  <2>2. C[k + 1] = ConfirmBlock(C[k], x)
    BY <1>2, <2>1
  <2>3. /\ Moves(q, hs, rs, Z, C[k]) /\ x \in Block
        /\ \A t \in TxHashes(x) \cap Z \cap DOMAIN hs : hs[t] = Height(x)
    BY <1>4, <2>1
  <2> QED
    BY <2>2, <2>3, ConfirmMoves
<1> HIDE DEF K
<1>5. count \in K
  BY <1>3, <1>4, NumberInduction
<1> QED
  BY <1>1, <1>5 DEF K

\* A transaction of one of the blocks, which is in no block of another height, gets its height.
LEMMA ConfirmDownSets ==
    ASSUME NEW first, NEW list, NEW count \in Nat, NEW m \in 1..count, NEW t \in TxHashes(list[m]),
           t \in DOMAIN first.heights,
           \A n \in 1..count : t \in TxHashes(list[n]) => Height(list[n]) = Height(list[m])
    PROVE  ConfirmDown(first, list, count).heights[t] = Height(list[m])
<1>1. PICK C : Confirms(C, first, list, count) /\ ConfirmDown(first, list, count) = C[count]
  BY ConfirmDownIs
<1>2. \A n \in 0..count : C[n] = IF n = 0 THEN first ELSE ConfirmBlock(C[n - 1], list[n])
  BY <1>1 DEF Confirms
<1> DEFINE K == {k \in Nat : k <= count => /\ t \in DOMAIN C[k].heights
                                           /\ m <= k => C[k].heights[t] = Height(list[m])}
<1>3. 0 \in K
  <2>1. C[0] = first
    BY <1>2
  <2> QED
    BY <2>1
<1>4. ASSUME NEW k \in Nat, k \in K
      PROVE  k + 1 \in K
  <2> SUFFICES ASSUME k + 1 <= count
               PROVE  /\ t \in DOMAIN C[k + 1].heights
                      /\ m <= k + 1 => C[k + 1].heights[t] = Height(list[m])
    OBVIOUS
  <2>1. PICK x, acc : x = list[k + 1] /\ acc = C[k]
    OBVIOUS
  <2>2. C[k + 1] = ConfirmBlock(acc, x)
    BY <1>2, <2>1
  <2>3. t \in DOMAIN acc.heights /\ (m <= k => acc.heights[t] = Height(list[m]))
    BY <1>4, <2>1
  <2>4. t \in TxHashes(x) => Height(x) = Height(list[m])
    BY <2>1
  <2>5. m = k + 1 => t \in TxHashes(x)
    BY <2>1
  <2>6. PICK S, hs : S = TxHashes(x) /\ hs = acc.heights
    OBVIOUS
  <2>7. ConfirmBlock(acc, x).heights = UpdateTransactions(hs, S, Height(x)).heights
    BY <2>6 DEF ConfirmBlock
  <2>8. PICK ch : ch = {u \in S \cap DOMAIN hs : hs[u] # Height(x)}
    OBVIOUS
  <2>9. UpdateTransactions(hs, S, Height(x)).heights = [u \in DOMAIN hs |-> IF u \in ch THEN Height(x) ELSE hs[u]]
    BY <2>8 DEF UpdateTransactions
  <2>10. C[k + 1].heights = [u \in DOMAIN hs |-> IF u \in ch THEN Height(x) ELSE hs[u]]
    BY <2>2, <2>7, <2>9
  <2>11. t \in DOMAIN C[k + 1].heights /\ C[k + 1].heights[t] = IF t \in S THEN Height(x) ELSE hs[t]
    BY <2>3, <2>6, <2>8, <2>10
  <2> QED
    BY <2>3, <2>4, <2>5, <2>6, <2>11
<1> HIDE DEF K
<1>5. count \in K
  BY <1>3, <1>4, NumberInduction
<1> QED
  BY <1>1, <1>5 DEF K

-----------------------------------------------------------------------------
(* The same jobs, or fewer. *)

\* r has the jobs of q, some with fewer transactions to update, or pointing to a freed block.
Fewer(q, r) ==
    /\ DOMAIN r = DOMAIN q
    /\ \A i \in DOMAIN q :
          /\ r[i].op = q[i].op
          /\ q[i].op = "deleted" => r[i].tx = q[i].tx
          /\ q[i].op = "updated" => r[i].left \subseteq q[i].left
          /\ q[i].op = "blocks" => r[i].blocks = q[i].blocks /\ r[i].replace = q[i].replace

LEMMA FewerJobs ==
    ASSUME NEW q, NEW r, NEW t, Fewer(q, r)
    PROVE  Updates(r, t) \subseteq Updates(q, t) /\ Deletes(r, t) = Deletes(q, t)
  BY DEF Fewer, Updates, Deletes

LEMMA FewerKeeps ==
    ASSUME NEW q, NEW r, NEW b, NEW st, Fewer(q, r), InOrder(q), QueueBelow(q, b), QueueAnchored(q), Still(st, q, b)
    PROVE  InOrder(r) /\ QueueBelow(r, b) /\ QueueAnchored(r) /\ Still(st, r, b)
<1>1. \A k \in DOMAIN r : r[k].op = "blocks" => /\ k \in DOMAIN q /\ q[k].op = "blocks"
                                                /\ q[k].blocks = r[k].blocks /\ q[k].replace = r[k].replace
  BY DEF Fewer
<1>2. QueueAnchored(r)
  BY <1>1 DEF QueueAnchored, JobAnchored
<1>3. QueueBelow(r, b)
  BY <1>1 DEF QueueBelow
<1>4. InOrder(r)
  <2> SUFFICES ASSUME NEW k \in DOMAIN r, r[k].op = "blocks", NEW x \in r[k].blocks, NEW t \in Txs(Won(x)),
                      NEW i \in Updates(r, t) \cup Deletes(r, t)
               PROVE  i < k
    BY DEF InOrder
  <2>1. i \in Updates(q, t) \cup Deletes(q, t)
    BY FewerJobs
  <2> QED
    BY <1>1, <2>1 DEF InOrder
<1>5. Still(st, r, b)
  BY FewerJobs DEF Still
<1> QED
  BY <1>2, <1>3, <1>4, <1>5

\* The oldest job has run.
LEMMA PoppedKeeps ==
    ASSUME NEW q, NEW r, NEW b, NEW st, IsPopped(q, r), InOrder(q), QueueBelow(q, b), QueueAnchored(q), Still(st, q, b)
    PROVE  InOrder(r) /\ QueueBelow(r, b) /\ QueueAnchored(r) /\ Still(st, r, b)
<1>1. \A k \in DOMAIN r : k \in Nat /\ k + 1 \in DOMAIN q /\ r[k] = q[k + 1]
  BY DEF IsPopped
<1>2. QueueAnchored(r)
  BY <1>1 DEF QueueAnchored
<1>3. QueueBelow(r, b)
  BY <1>1 DEF QueueBelow
<1>4. InOrder(r)
  <2> SUFFICES ASSUME NEW k \in DOMAIN r, r[k].op = "blocks", NEW x \in r[k].blocks, NEW t \in Txs(Won(x)),
                      NEW i \in Updates(r, t) \cup Deletes(r, t)
               PROVE  i < k
    BY DEF InOrder
  <2>1. i \in Nat /\ i + 1 \in Updates(q, t) \cup Deletes(q, t)
    BY PoppedUpdates, PoppedDeletes
  <2>2. k \in Nat /\ k + 1 \in DOMAIN q /\ q[k + 1].op = "blocks" /\ x \in q[k + 1].blocks
    BY <1>1
  <2>3. i + 1 < k + 1
    BY <2>1, <2>2 DEF InOrder
  <2> QED
    BY <2>1, <2>2, <2>3
<1>5. Still(st, r, b)
  <2>1. ASSUME NEW t \in Txs(Won(TipOf(st)))
        PROVE  Updates(r, t) = {} /\ Deletes(r, t) = {}
    <3>1. Updates(q, t) = {} /\ Deletes(q, t) = {}
      BY DEF Still
    <3> QED
      BY <3>1, PoppedUpdates, PoppedDeletes
  <2> QED
    BY <2>1 DEF Still
<1> QED
  BY <1>2, <1>3, <1>4, <1>5

\* The rows that are to be there are, unless the job deletes them.
LEMMA PoppedCovered ==
    ASSUME NEW q, NEW r, NEW hs, NEW rs, NEW rs2, IsPopped(q, r), AllCovered(q, hs, rs),
           \A t \in DOMAIN hs : /\ 1 \notin Updates(q, t)
                                /\ t \in DOMAIN rs => t \in DOMAIN rs2 \/ 1 \in Deletes(q, t)
    PROVE  AllCovered(r, hs, rs2)
<1> SUFFICES ASSUME NEW t \in DOMAIN hs, hs[t] # TX_UNCONFIRMED
             PROVE  Covered(r, rs2, t)
  BY DEF AllCovered
<1>1. Covered(q, rs, t)
  BY DEF AllCovered
<1>2. CASE \E i \in Updates(q, t) : \A d \in Deletes(q, t) : d < i
  <2>1. PICK i \in Updates(q, t) : \A d \in Deletes(q, t) : d < i
    BY <1>2
  <2>2. i \in Nat /\ i - 1 \in Updates(r, t)
    BY <2>1, PoppedUpdates
  <2>3. \A d \in Deletes(r, t) : d < i - 1
    <3>1. \A d \in Deletes(r, t) : d \in Nat /\ d + 1 \in Deletes(q, t)
      BY PoppedDeletes
    <3> QED
      BY <2>1, <2>2, <3>1
  <2> QED
    BY <2>2, <2>3 DEF Covered
<1>3. CASE t \in DOMAIN rs /\ Deletes(q, t) = {}
  <2>1. Deletes(r, t) = {} /\ t \in DOMAIN rs2
    BY <1>3, PoppedDeletes
  <2> QED
    BY <2>1 DEF Covered
<1> QED
  BY <1>1, <1>2, <1>3 DEF Covered

-----------------------------------------------------------------------------
(* The branches of a reorganisation. *)

\* A block of the new main chain is on both branches up to the join, or else it is confirmed again.
Splits(bs, b, top, join, fork) ==
    /\ fork \subseteq Ancestors[b] \cap bs
    /\ \A n \in 1..(Height(b) - join) : Downwards(fork)[n] \in fork
    /\ \A x \in fork : \E n \in 1..(Height(b) - join) : Downwards(fork)[n] = x
    /\ \A x \in Ancestors[b] : \/ x \in Ancestors[top] /\ Height(x) <= join
                               \/ x \notin Ancestors[top] /\ x \in fork

LEMMA Forks ==
    ASSUME NEW bs \in SUBSET Block, NEW b \in Block, NEW top \in Block, NEW C, NEW M, NEW join, NEW fork,
           b \in bs, ForkOf(bs, b, top, C, M, join, fork)
    PROVE  Splits(bs, b, top, join, fork)
<1>1. AfterJoin(b, C, M, join, fork)
  BY ForkIs
<1>2. /\ join \in Nat /\ join < Height(b)
      /\ \A x \in C \cap M : Height(x) <= join
      /\ Section(fork) /\ Downwards(fork) \in [1..(Height(b) - join) -> Block]
  BY <1>1 DEF AfterJoin
<1>3. PICK j \in C \cap M : Height(j) = join
  BY <1>1 DEF AfterJoin
<1>4. /\ C \subseteq Ancestors[b] \cap (bs \cup {b})
      /\ \A x \in Ancestors[b], y \in C : Height(y) <= Height(x) => x \in C
  <2>1. b \in Block
    OBVIOUS
  <2> QED
    BY <2>1, ChainOfBranch DEF ForkOf
<1>5. /\ M \subseteq Ancestors[top] \cap (bs \cup {top})
      /\ \A x \in Ancestors[top], y \in M : Height(y) <= Height(x) => x \in M
  BY ChainOfBranch DEF ForkOf
<1>6. InLine(b) /\ InLine(top)
  BY BranchInLine
<1>7. fork \subseteq Ancestors[b] \cap bs /\ fork = {x \in C : Height(x) > join}
  BY <1>4 DEF ForkOf
<1>8. PICK list : list = Downwards(fork)
  OBVIOUS
<1>9. /\ DOMAIN list = 1..(Height(b) - join)
      /\ \A i \in DOMAIN list : list[i] \in fork
      /\ \A x \in fork : \E i \in DOMAIN list : Height(list[i]) = Height(x)
  BY <1>2, <1>8, DownwardsHas
<1>10. \A x \in fork : \E n \in 1..(Height(b) - join) : list[n] = x
  <2> SUFFICES ASSUME NEW x \in fork
               PROVE  \E n \in 1..(Height(b) - join) : list[n] = x
    OBVIOUS
  <2>1. PICK i \in DOMAIN list : Height(list[i]) = Height(x)
    BY <1>9
  <2>2. list[i] \in Ancestors[b] /\ x \in Ancestors[b]
    BY <1>7, <1>9
  <2>3. list[i] = x
    BY <1>6, <2>1, <2>2 DEF InLine
  <2> QED
    BY <1>9, <2>3
<1>11. ASSUME NEW x \in Ancestors[b]
       PROVE  \/ x \in Ancestors[top] /\ Height(x) <= join
              \/ x \notin Ancestors[top] /\ x \in fork
  <2>1. x \in Block /\ Height(x) \in Nat /\ j \in Ancestors[b] /\ j \in Ancestors[top]
    BY <1>4, <1>5, <1>6, Heighted DEF InLine
  <2>2. CASE Height(x) <= join
    <3>1. x \in Ancestors[j]
      BY <1>3, <1>6, <2>1, <2>2 DEF InLine
    <3>2. Ancestors[j] \subseteq Ancestors[top]
      BY <1>6, <2>1 DEF InLine
    <3> QED
      BY <2>2, <3>1, <3>2
  <2>3. CASE Height(x) > join
    <3>1. Height(j) <= Height(x)
      BY <1>2, <1>3, <2>1, <2>3
    <3>2. x \in C
      BY <1>4, <3>1
    <3>3. x \in Ancestors[top] => x \in C \cap M
      BY <1>5, <3>1, <3>2
    <3>4. x \notin Ancestors[top]
      BY <1>2, <2>1, <2>3, <3>3
    <3> QED
      BY <1>7, <2>3, <3>2, <3>4
  <2> QED
    BY <1>2, <2>1, <2>2, <2>3
<1> QED
  BY <1>7, <1>8, <1>9, <1>10, <1>11 DEF Splits

-----------------------------------------------------------------------------
(* A block is relayed. *)

\* A transaction is in one block of a branch.
OncePerBranch ==
    \A b \in Block : \A x, y \in Ancestors[b] : BlockData[x].txs \cap BlockData[y].txs # {} => x = y

\* What every block that moves the tip leaves.
KeptStep(b) ==
    /\ app' = app /\ rows' = rows /\ store' = store
    /\ blocks' = blocks \cup {b} /\ tip' = b /\ bare' = bare
    /\ \E p \in Peers, bs \in SUBSET Block : SaveNext(p, bs, b)

\* The blocks that the threads have in hand.
LEMMA HandsNext ==
    ASSUME IInv, app = "running", NEW b \in Block, HandsAnchored(saving), HandsBelow(saving, tip),
           Won(tip) \subseteq Ancestors[b], KeptStep(b)
    PROVE  HandsAnchored(saving') /\ HandsBelow(saving', b)
<1>1. PICK p \in Peers, bs \in SUBSET Block : SaveNext(p, bs, b)
  BY DEF KeptStep
<1>2. Saves(saving)
  BY RunningGood
<1>3. /\ HandsAnchored(saving')
      /\ \A q \in Peers : \/ saving'[q] = saving[q] \/ saving'[q] = NoJob
                          \/ saving'[q].blocks \subseteq Ancestors[b]
  BY <1>1, <1>2, SaveNextAnchored
<1>4. ASSUME NEW q \in Peers, saving'[q] # NoJob, NEW x \in saving'[q].blocks
      PROVE  Won(x) \subseteq Ancestors[b]
  <2>1. CASE saving'[q] = saving[q]
    <3>1. Won(x) \subseteq Ancestors[tip]
      BY <1>4, <2>1 DEF HandsBelow
    <3> QED
      BY <3>1, WonBelow
  <2>2. CASE saving'[q].blocks \subseteq Ancestors[b]
    <3>1. Ancestors[x] \subseteq Ancestors[b]
      BY <1>4, <2>2, BranchInLine DEF InLine
    <3> QED
      BY <3>1 DEF Won
  <2> QED
    BY <1>3, <1>4, <2>1, <2>2
<1> QED
  BY <1>3, <1>4 DEF HandsBelow

\* The tip moves: nothing happens to what both chains have of the longest branch.
LEMMA MovedKept ==
    ASSUME IInv, Kept, app = "running", NEW b \in Block, KeptStep(b), Won(tip) \subseteq Ancestors[b],
           BlockData[b].txs \subseteq DOMAIN height,
           NEW acc, Moves(queue, height, rows, Txs(Won(tip)), acc), Confirmed(acc.heights, b),
           queue' = queue \o acc.jobs, height' = acc.heights
    PROVE  Kept'
<1>1. /\ app' = app /\ rows' = rows /\ store' = store
      /\ blocks' = blocks \cup {b} /\ tip' = b /\ bare' = bare
  BY DEF KeptStep
<1>2. /\ AnchoredRows(store) /\ QueueAnchored(queue) /\ HandsAnchored(saving) /\ Saved(store, rows)
      /\ InOrder(queue) /\ QueueBelow(queue, tip) /\ HandsBelow(saving, tip) /\ BareBelow(bare, tip)
      /\ Held(blocks, bare, height) /\ Still(store, queue, tip)
  BY DEF Kept
<1>3. /\ Grows(queue, queue', Txs(Won(tip))) /\ AllCovered(queue', height', rows) /\ DOMAIN height' = DOMAIN height
  BY DEF Moves
<1>4. InOrder(queue') /\ QueueBelow(queue', b) /\ QueueAnchored(queue') /\ Still(store, queue', b)
  BY <1>2, <1>3, GrowsKeeps
<1>5. HandsAnchored(saving') /\ HandsBelow(saving', b)
  BY <1>2, HandsNext
<1>6. BareBelow(bare, b)
  BY <1>2 DEF BareBelow, Won
<1>7. Held(blocks \cup {b}, bare, height')
  BY <1>2, <1>3 DEF Held
<1>8. AnchoredRows(store') /\ Saved(store', rows') /\ Confirmed(height', tip')
  BY <1>1, <1>2
<1> QED
  BY <1>1, <1>3, <1>4, <1>5, <1>6, <1>7, <1>8 DEF Kept

\* BRWalletUpdateTransactions, alone.
LEMMA UpdateOnly ==
    ASSUME NEW q \in Seq(Job), NEW hs, NEW rs, NEW Z, NEW S, NEW h \in Heights, AllCovered(q, hs, rs),
           DOMAIN hs \subseteq Tx, \A t \in S \cap Z \cap DOMAIN hs : hs[t] = h
    PROVE  /\ Moves(q, hs, rs, Z, UpdateTransactions(hs, S, h))
           /\ \A t \in DOMAIN hs : UpdateTransactions(hs, S, h).heights[t] = IF t \in S THEN h ELSE hs[t]
<1>1. PICK acc : acc = [heights |-> hs, jobs |-> <<>>]
  OBVIOUS
<1>2. Moves(q, hs, rs, Z, acc) /\ acc.heights = hs /\ acc.jobs = <<>>
  BY <1>1, NoMove
<1>3. PICK u : u = UpdateTransactions(hs, S, h)
  OBVIOUS
<1>4. PICK C : C = {t \in S \cap DOMAIN hs : hs[t] # h}
  OBVIOUS
<1>5. /\ u = [heights |-> u.heights, jobs |-> u.jobs]
      /\ u.heights = [t \in DOMAIN hs |-> IF t \in C THEN h ELSE hs[t]]
      /\ u.jobs = IF C = {} THEN <<>> ELSE <<TxUpdated(C, h)>>
  BY <1>3, <1>4 DEF UpdateTransactions
<1>6. Moves(q, hs, rs, Z, [heights |-> u.heights, jobs |-> acc.jobs \o u.jobs])
  BY <1>2, <1>3, UpdateMoves
<1>7. <<>> \o u.jobs = u.jobs
  <2>1. C \in SUBSET Tx
    BY <1>4
  <2>2. u.jobs \in Seq(Job)
    BY <1>5, <2>1, UpdateType
  <2> QED
    BY <2>2, ConcatEmptySeq
<1>8. \A t \in DOMAIN hs : u.heights[t] = IF t \in S THEN h ELSE hs[t]
  BY <1>4, <1>5
<1> QED
  BY <1>2, <1>3, <1>5, <1>6, <1>7, <1>8

\* The block after the tip.
LEMMA ExtendsKept ==
    ASSUME OncePerBranch, IInv, Kept, app = "running", NEW p \in Peers, NEW b \in Block, ExtendsMainChain(p, b),
           BlockData[b].txs \subseteq DOMAIN height, app' = app, rows' = rows, store' = store
    PROVE  Kept'
<1>1. PICK u : u = UpdateTransactions(height, BlockData[b].txs, Height(b))
  OBVIOUS
<1>2. /\ blocks' = blocks \cup {b} /\ tip' = b /\ bare' = bare /\ BlockData[b].prev = tip
      /\ height' = u.heights /\ queue' = queue \o u.jobs
      /\ SaveNext(p, blocks', b)
  BY <1>1 DEF ExtendsMainChain, Enqueue
<1>3. blocks' \in SUBSET Block /\ tip \in Block /\ queue \in Seq(Job) /\ DOMAIN height \subseteq Tx
  BY <1>2, RunningGood
<1>4. KeptStep(b)
  BY <1>2, <1>3 DEF KeptStep
<1>5. Ancestors[b] = {b} \cup Ancestors[tip]
  <2>1. b # Genesis
    BY <1>2, <1>3, DatabaseAssumption
  <2> QED
    BY <1>2, <2>1, AncestorsUnfold
<1>6. Won(tip) \subseteq Ancestors[b] /\ Won(b) \subseteq {b} \cup Won(tip)
  BY <1>5 DEF Won
<1>7. AllCovered(queue, height, rows) /\ Confirmed(height, tip)
  BY DEF Kept
<1>8. ASSUME NEW t \in BlockData[b].txs \cap Txs(Won(tip))
      PROVE  height[t] = Height(b)
  <2>1. PICK y \in Won(tip) : t \in BlockData[y].txs
    BY DEF Txs
  <2>2. y = b
    BY <1>5, <1>6, <2>1 DEF OncePerBranch
  <2> QED
    BY <1>7, <2>1, <2>2 DEF Confirmed
<1>9. Height(b) \in Heights
  BY DEF Heights
<1>10. PICK Z, S : Z = Txs(Won(tip)) /\ S = BlockData[b].txs
  OBVIOUS
<1>11. \A t \in S \cap Z \cap DOMAIN height : height[t] = Height(b)
  BY <1>8, <1>10
<1>12. /\ Moves(queue, height, rows, Z, u)
       /\ \A t \in DOMAIN height : u.heights[t] = IF t \in S THEN Height(b) ELSE height[t]
  <2>1. PICK h \in Heights : h = Height(b)
    BY <1>9
  <2>2. \A t \in S \cap Z \cap DOMAIN height : height[t] = h
    BY <1>11, <2>1
  <2>3. /\ Moves(queue, height, rows, Z, UpdateTransactions(height, S, h))
        /\ \A t \in DOMAIN height : UpdateTransactions(height, S, h).heights[t] = IF t \in S THEN h ELSE height[t]
    BY <1>3, <1>7, <2>2, UpdateOnly
  <2>4. u = UpdateTransactions(height, S, h)
    BY <1>1, <1>10, <2>1
  <2> QED
    BY <2>1, <2>3, <2>4
<1>13. Confirmed(u.heights, b)
  <2> SUFFICES ASSUME NEW x \in Won(b), NEW t \in BlockData[x].txs
               PROVE  t \in DOMAIN u.heights /\ u.heights[t] = Height(x)
    BY DEF Confirmed
  <2>1. DOMAIN u.heights = DOMAIN height
    BY <1>12 DEF Moves
  <2>2. CASE x = b
    BY <1>10, <1>12, <2>1, <2>2
  <2>3. CASE x \in Won(tip)
    <3>1. t \in DOMAIN height /\ height[t] = Height(x) /\ t \in Txs(Won(tip))
      BY <1>7, <2>3 DEF Confirmed, Txs
    <3> QED
      BY <1>10, <1>12, <2>1, <3>1 DEF Moves
  <2> QED
    BY <1>6, <2>2, <2>3
<1> QED
  BY <1>2, <1>4, <1>6, <1>10, <1>12, <1>13, MovedKept

\* A block that is in memory already: the jobs are the same, but for what they point to.
LEMMA DangleKeeps ==
    ASSUME NEW q \in Seq(Job), NEW r, NEW b, r = [i \in DOMAIN q |-> Dangle(q[i], b)]
    PROVE  Fewer(q, r) /\ \A hs, rs : AllCovered(q, hs, rs) => AllCovered(r, hs, rs)
<1>1. \A i \in DOMAIN q : q[i] \in Job
  BY ElementOfSeq, LenProperties
<1>2. /\ DOMAIN r = DOMAIN q
      /\ \A i \in DOMAIN q : /\ r[i].op = q[i].op
                             /\ q[i].op # "blocks" => r[i] = q[i]
                             /\ q[i].op = "blocks" => r[i].blocks = q[i].blocks /\ r[i].replace = q[i].replace
  BY <1>1, DangleSame
<1>3. Fewer(q, r)
  BY <1>2 DEF Fewer
<1>4. \A t : Updates(r, t) = Updates(q, t)
  BY <1>2 DEF Updates
<1>5. \A t : Deletes(r, t) = Deletes(q, t)
  BY <1>2 DEF Deletes
<1> QED
  BY <1>3, <1>4, <1>5 DEF AllCovered, Covered

\* So are those that the threads have in hand.
LEMMA DangleHands ==
    ASSUME Saves(saving), NEW b, NEW top, NEW s, s = [q \in Peers |-> Dangle(saving[q], b)],
           HandsAnchored(saving), HandsBelow(saving, top)
    PROVE  HandsAnchored(s) /\ HandsBelow(s, top)
<1>1. ASSUME NEW q \in Peers, s[q] # NoJob
      PROVE  saving[q] # NoJob /\ s[q].blocks = saving[q].blocks /\ s[q].replace = saving[q].replace
  <2>1. s[q] = Dangle(saving[q], b)
    OBVIOUS
  <2>2. saving[q] # NoJob
    BY <1>1, <2>1 DEF Dangle
  <2>3. saving[q] \in Job /\ saving[q].op = "blocks"
    BY <2>2 DEF Saves, GoodJob
  <2> QED
    BY <2>1, <2>2, <2>3, DangleSame
<1> QED
  BY <1>1 DEF HandsAnchored, HandsBelow, JobAnchored

LEMMA ExistingKept ==
    ASSUME OncePerBranch, IInv, Kept, app = "running", NEW p \in Peers, NEW b \in Block, ExistingBlock(p, b),
           BlockData[b].txs \subseteq DOMAIN height, app' = app, rows' = rows, store' = store
    PROVE  Kept'
<1>1. PICK u : u = IF b \in Chain(blocks, tip) THEN UpdateTransactions(height, BlockData[b].txs, Height(b))
                                               ELSE [heights |-> height, jobs |-> <<>>]
  OBVIOUS
<1>2. PICK q : q = [i \in DOMAIN queue |-> Dangle(queue[i], b)]
  OBVIOUS
<1>3. /\ blocks' = blocks /\ tip' = tip /\ bare' = bare \ {b}
      /\ height' = u.heights /\ queue' = q \o u.jobs
      /\ saving' = [x \in Peers |-> Dangle(saving[x], b)]
  BY <1>1, <1>2 DEF ExistingBlock
<1>4. /\ tip \in Block /\ blocks \in SUBSET Block /\ queue \in Seq(Job) /\ DOMAIN height \subseteq Tx
      /\ Saves(saving)
  BY RunningGood
<1>5. /\ AnchoredRows(store) /\ QueueAnchored(queue) /\ HandsAnchored(saving) /\ Saved(store, rows)
      /\ InOrder(queue) /\ QueueBelow(queue, tip) /\ HandsBelow(saving, tip) /\ BareBelow(bare, tip)
      /\ Held(blocks, bare, height) /\ Still(store, queue, tip)
      /\ AllCovered(queue, height, rows) /\ Confirmed(height, tip)
  BY DEF Kept
<1>6. Fewer(queue, q) /\ AllCovered(q, height, rows)
  BY <1>2, <1>4, <1>5, DangleKeeps
<1>7. q \in Seq(Job)
  <2>1. Len(queue) \in Nat /\ DOMAIN queue = 1..Len(queue) /\ \A i \in DOMAIN queue : queue[i] \in Job
    BY <1>4, LenProperties, ElementOfSeq
  <2>2. \A i \in DOMAIN queue : q[i] \in Job
    BY <1>2, <2>1, DangleGood, RunningGood DEF Good
  <2> QED
    BY <1>2, <2>1, <2>2
<1>8. InOrder(q) /\ QueueBelow(q, tip) /\ QueueAnchored(q) /\ Still(store, q, tip)
  BY <1>5, <1>6, FewerKeeps
<1>9. PICK Z, S : Z = Txs(Won(tip)) /\ S = BlockData[b].txs
  OBVIOUS
<1>10. Moves(q, height, rows, Z, u)
  <2>1. CASE b \in Chain(blocks, tip)
    <3>1. PICK h \in Heights : h = Height(b)
      BY DEF Heights
    <3>2. b \in Ancestors[tip]
      BY <1>4, <2>1, ChainOfBranch
    <3>3. ASSUME NEW t \in S \cap Z \cap DOMAIN height
          PROVE  height[t] = h
      <4>1. PICK y \in Won(tip) : t \in BlockData[y].txs
        BY <1>9 DEF Txs
      <4>2. y = b
        BY <1>4, <1>9, <3>2, <4>1 DEF OncePerBranch, Won
      <4> QED
        BY <1>5, <3>1, <4>1, <4>2 DEF Confirmed
    <3>4. Moves(q, height, rows, Z, UpdateTransactions(height, S, h))
      BY <1>4, <1>6, <1>7, <3>3, UpdateOnly
    <3> QED
      BY <1>1, <1>9, <2>1, <3>1, <3>4
  <2>2. CASE b \notin Chain(blocks, tip)
    <3>1. Moves(q, height, rows, Z, [heights |-> height, jobs |-> <<>>])
      BY <1>6, <1>7, NoMove
    <3> QED
      BY <1>1, <2>2, <3>1
  <2> QED
    BY <2>1, <2>2
<1>11. /\ Grows(q, queue', Txs(Won(tip))) /\ AllCovered(queue', height', rows) /\ DOMAIN height' = DOMAIN height
       /\ \A t \in Txs(Won(tip)) \cap DOMAIN height : height'[t] = height[t]
  BY <1>3, <1>9, <1>10 DEF Moves
<1>12. InOrder(queue') /\ QueueBelow(queue', tip) /\ QueueAnchored(queue') /\ Still(store, queue', tip)
  <2>1. Won(tip) \subseteq Ancestors[tip]
    BY DEF Won
  <2> QED
    BY <1>8, <1>11, <2>1, GrowsKeeps
<1>13. Confirmed(height', tip)
  <2> SUFFICES ASSUME NEW x \in Won(tip), NEW t \in BlockData[x].txs
               PROVE  t \in DOMAIN height' /\ height'[t] = Height(x)
    BY DEF Confirmed
  <2>1. t \in DOMAIN height /\ height[t] = Height(x) /\ t \in Txs(Won(tip))
    BY <1>5 DEF Confirmed, Txs
  <2> QED
    BY <1>11, <2>1
<1>14. HandsAnchored(saving') /\ HandsBelow(saving', tip)
  BY <1>3, <1>4, <1>5, DangleHands
<1>15. BareBelow(bare \ {b}, tip) /\ Held(blocks, bare \ {b}, height')
  BY <1>5, <1>11 DEF BareBelow, Held
<1>16. AnchoredRows(store') /\ Saved(store', rows')
  BY <1>5
<1> QED
  BY <1>3, <1>11, <1>12, <1>13, <1>14, <1>15, <1>16 DEF Kept

LEMMA ForkKept ==
    ASSUME IInv, Kept, app = "running", NEW p \in Peers, NEW b \in Block, ExtendFork(p, b),
           BlockData[b].txs \subseteq DOMAIN height, app' = app, rows' = rows, store' = store
    PROVE  Kept'
<1>1. /\ blocks' = blocks \cup {b} /\ height' = height /\ tip' = tip /\ bare' = bare
      /\ saving' = saving /\ queue' = queue
  BY DEF ExtendFork
<1>2. Held(blocks \cup {b}, bare, height)
  BY DEF Kept, Held
<1> QED
  BY <1>1, <1>2 DEF Kept

\* A reorganisation: what both branches have of the longest one is not after the join, and the rest
\* of it is confirmed again, its transactions being in memory with their blocks.
LEMMA ReorganizeKept ==
    ASSUME OncePerBranch, IInv, Kept, app = "running", NEW p \in Peers, NEW b \in Block, Reorganize(p, b),
           BlockData[b].txs \subseteq DOMAIN height, app' = app, rows' = rows, store' = store,
           Won(tip) \subseteq Ancestors[b]
    PROVE  Kept'
<1>1. PICK bs : bs = blocks \cup {b}
  OBVIOUS
<1>2. PICK C, M : C = Chain(bs, b) /\ M = Chain(bs, tip)
  OBVIOUS
<1>3. PICK join : join = Max({Height(x) : x \in C \cap M})
  OBVIOUS
<1>4. PICK fork : fork = {x \in C : Height(x) > join}
  OBVIOUS
<1>5. PICK first, list, count : first = SetTxUnconfirmedAfter(join) /\ list = Downwards(fork)
                                /\ count = Height(b) - join
  OBVIOUS
<1>6. PICK all : all = ConfirmDown(first, list, count)
  OBVIOUS
<1>7. /\ Height(b) > Height(tip) /\ C \cap M # {}
      /\ blocks' = bs /\ tip' = b /\ bare' = bare
      /\ height' = all.heights /\ queue' = queue \o all.jobs
      /\ SaveNext(p, bs, b)
  BY <1>1, <1>2, <1>3, <1>4, <1>5, <1>6 DEF Reorganize, Enqueue
<1>8. /\ bs \in SUBSET Block /\ b \in bs /\ tip \in Block /\ queue \in Seq(Job)
      /\ DOMAIN height \subseteq Tx /\ listed \subseteq DOMAIN height
  BY <1>1, RunningGood
<1>9. ForkOf(bs, b, tip, C, M, join, fork)
  BY <1>2, <1>3, <1>4, <1>7 DEF ForkOf
<1>10. AfterJoin(b, C, M, join, fork) /\ Splits(bs, b, tip, join, fork)
  BY <1>8, <1>9, ForkIs, Forks
<1>11. count \in Nat /\ join \in Nat
  BY <1>5, <1>10, Heighted DEF AfterJoin
<1>12. /\ fork \subseteq Ancestors[b] \cap bs
       /\ \A n \in 1..count : list[n] \in fork
       /\ \A x \in fork : \E n \in 1..count : list[n] = x
       /\ \A x \in Ancestors[b] : \/ x \in Ancestors[tip] /\ Height(x) <= join
                                  \/ x \notin Ancestors[tip] /\ x \in fork
  BY <1>5, <1>10 DEF Splits
<1>13. KeptStep(b)
  BY <1>1, <1>7, <1>8 DEF KeptStep
<1>14. /\ AllCovered(queue, height, rows) /\ Confirmed(height, tip)
       /\ BareBelow(bare, tip) /\ Held(blocks, bare, height)
  BY DEF Kept
<1>15. PICK Z : Z = Txs(Won(tip))
  OBVIOUS
<1>16. ASSUME NEW t \in Z
       PROVE  t \in DOMAIN height /\ ~(height[t] > join)
  <2>1. PICK y \in Won(tip) : t \in BlockData[y].txs
    BY <1>15 DEF Txs
  <2>2. y \in Ancestors[b] /\ y \in Ancestors[tip]
    BY <2>1 DEF Won
  <2>3. Height(y) <= join /\ Height(y) \in Nat
    BY <1>8, <1>12, <2>2, AncestorsUnfold, Heighted
  <2>4. t \in DOMAIN height /\ height[t] = Height(y)
    BY <1>14, <2>1 DEF Confirmed
  <2> QED
    BY <1>11, <2>3, <2>4
<1>17. Moves(queue, height, rows, Z, first)
  BY <1>5, <1>8, <1>14, <1>16, UnconfirmMoves
<1>18. \A n \in 1..count : /\ list[n] \in Block
                           /\ \A t \in TxHashes(list[n]) \cap Z \cap DOMAIN height : height[t] = Height(list[n])
  <2> SUFFICES ASSUME NEW n \in 1..count
               PROVE  /\ list[n] \in Block
                      /\ \A t \in TxHashes(list[n]) \cap Z \cap DOMAIN height : height[t] = Height(list[n])
    OBVIOUS
  <2>1. list[n] \in Ancestors[b] /\ list[n] \in Block
    BY <1>8, <1>12
  <2>2. ASSUME NEW t \in TxHashes(list[n]) \cap Z
        PROVE  height[t] = Height(list[n])
    <3>1. PICK y \in Won(tip) : t \in BlockData[y].txs
      BY <1>15 DEF Txs
    <3>2. t \in BlockData[list[n]].txs
      BY DEF TxHashes
    <3>3. y = list[n]
      BY <2>1, <3>1, <3>2 DEF OncePerBranch
    <3> QED
      BY <1>14, <3>1, <3>3 DEF Confirmed
  <2> QED
    BY <2>1, <2>2
<1>19. Moves(queue, height, rows, Z, all)
  BY <1>6, <1>8, <1>11, <1>17, <1>18, ConfirmDownMoves
<1>20. Confirmed(all.heights, b)
  <2> SUFFICES ASSUME NEW x \in Won(b), NEW t \in BlockData[x].txs
               PROVE  t \in DOMAIN all.heights /\ all.heights[t] = Height(x)
    BY DEF Confirmed
  <2>1. DOMAIN all.heights = DOMAIN height /\ DOMAIN first.heights = DOMAIN height
    BY <1>17, <1>19 DEF Moves
  <2>2. x \in Ancestors[b] /\ x \in Winning
    BY DEF Won
  <2>3. CASE x \in Ancestors[tip]
    <3>1. x \in Won(tip)
      BY <2>2, <2>3 DEF Won
    <3>2. t \in DOMAIN height /\ height[t] = Height(x) /\ t \in Z
      BY <1>14, <1>15, <3>1 DEF Confirmed, Txs
    <3> QED
      BY <1>19, <2>1, <3>2 DEF Moves
  <2>4. CASE x \notin Ancestors[tip]
    <3>1. x \in fork /\ x \in bs
      BY <1>12, <2>2, <2>4
    <3>2. x \notin bare
      BY <1>14, <2>2, <2>4 DEF BareBelow
    <3>3. t \in DOMAIN height
      BY <1>1, <1>14, <3>1, <3>2 DEF Held
    <3>4. PICK m \in 1..count : list[m] = x
      BY <1>12, <3>1
    <3>5. t \in TxHashes(list[m])
      BY <3>2, <3>4 DEF TxHashes
    <3>6. ASSUME NEW n \in 1..count, t \in TxHashes(list[n])
          PROVE  Height(list[n]) = Height(list[m])
      <4>1. t \in BlockData[list[n]].txs /\ list[n] \in Ancestors[b]
        BY <1>12, <3>6 DEF TxHashes
      <4>2. list[n] = x
        BY <2>2, <4>1 DEF OncePerBranch
      <4> QED
        BY <3>4, <4>2
    <3>7. ConfirmDown(first, list, count).heights[t] = Height(list[m])
      BY <1>11, <2>1, <3>3, <3>5, <3>6, ConfirmDownSets
    <3> QED
      BY <1>6, <2>1, <3>3, <3>4, <3>7
  <2> QED
    BY <2>3, <2>4
<1> QED
  BY <1>7, <1>13, <1>15, <1>19, <1>20, MovedKept

LEMMA RelayedBlockKept ==
    ASSUME OncePerBranch, IInv, Kept, NEW p \in Peers, NEW b \in Block, RelayedBlock(p, b),
           Won(tip) \subseteq Ancestors[tip']
    PROVE  Kept'
<1>1. /\ app = "running" /\ app' = app /\ rows' = rows /\ store' = store
      /\ BlockData[b].txs \subseteq DOMAIN height
      /\ ExtendsMainChain(p, b) \/ ExistingBlock(p, b) \/ ExtendFork(p, b) \/ Reorganize(p, b)
  BY DEF RelayedBlock
<1>2. Reorganize(p, b) => tip' = b
  BY DEF Reorganize
<1> QED
  BY <1>1, <1>2, ExtendsKept, ExistingKept, ForkKept, ReorganizeKept

-----------------------------------------------------------------------------
(* The other steps. *)

\* Another job waits, which is no update, and no deletion of what the tip has of the longest branch.
LEMMA PushedKeeps ==
    ASSUME NEW q, NEW j, NEW r, NEW b, NEW st, IsPushed(q, j, r),
           InOrder(q), QueueBelow(q, b), QueueAnchored(q), Still(st, q, b),
           j.op # "updated", j.op = "deleted" => j.tx \notin Txs(Won(b)),
           j.op = "blocks" => JobAnchored(j) /\ \A x \in j.blocks : Won(x) \subseteq Ancestors[b]
    PROVE  InOrder(r) /\ QueueBelow(r, b) /\ QueueAnchored(r) /\ Still(st, r, b)
<1>1. /\ Len(q) \in Nat /\ DOMAIN q = 1..Len(q) /\ DOMAIN r = DOMAIN q \cup {Len(q) + 1}
      /\ (\A i \in DOMAIN q : r[i] = q[i]) /\ r[Len(q) + 1] = j
  BY DEF IsPushed
<1>2. \A t \in Txs(Won(b)) : Updates(r, t) = Updates(q, t) /\ Deletes(r, t) = Deletes(q, t)
  BY PushedUpdates, PushedDeletes
<1>3. QueueAnchored(r)
  BY <1>1 DEF QueueAnchored
<1>4. QueueBelow(r, b)
  BY <1>1 DEF QueueBelow
<1>5. InOrder(r)
  <2> SUFFICES ASSUME NEW k \in DOMAIN r, r[k].op = "blocks", NEW x \in r[k].blocks, NEW t \in Txs(Won(x)),
                      NEW i \in Updates(r, t) \cup Deletes(r, t)
               PROVE  i < k
    BY DEF InOrder
  <2>1. t \in Txs(Won(b))
    BY <1>4, WonBelow DEF QueueBelow
  <2>2. i \in Updates(q, t) \cup Deletes(q, t)
    BY <1>2, <2>1
  <2>3. CASE k \in DOMAIN q
    BY <1>1, <2>2, <2>3 DEF InOrder
  <2>4. CASE k = Len(q) + 1
    <3>1. i \in 1..Len(q)
      BY <1>1, <2>2 DEF Updates, Deletes
    <3> QED
      BY <1>1, <2>4, <3>1
  <2> QED
    BY <1>1, <2>3, <2>4
<1>6. Still(st, r, b)
  <2>1. ASSUME NEW t \in Txs(Won(TipOf(st)))
        PROVE  Updates(r, t) = {} /\ Deletes(r, t) = {}
    <3>1. t \in Txs(Won(b))
      BY WonBelow DEF Still
    <3> QED
      BY <1>2, <3>1 DEF Still
  <2> QED
    BY <2>1 DEF Still
<1> QED
  BY <1>3, <1>4, <1>5, <1>6

\* The wallet has another transaction.
LEMMA RelayedTxKept ==
    ASSUME IInv, Kept, NEW t \in Tx, RelayedTx(t)
    PROVE  Kept'
<1>1. PICK q : q = queue \o <<TxAdded(t)>>
  OBVIOUS
<1>2. PICK j : j = TxAdded(t)
  OBVIOUS
<1>3. IsPushed(queue, j, q) /\ j.op = "added"
  BY <1>1, <1>2, TxJobs, JobTypes DEF IInv
<1>4. /\ app = "running" /\ t \notin DOMAIN height /\ queue' = q
      /\ height' = [x \in DOMAIN height \cup {t} |-> IF x = t THEN TX_UNCONFIRMED ELSE height[x]]
      /\ UNCHANGED <<app, blocks, tip, bare, saving, rows, store>>
  BY <1>1 DEF RelayedTx, Enqueue
<1>5. DOMAIN height' = DOMAIN height \cup {t} /\ \A x \in DOMAIN height : height'[x] = height[x]
  BY <1>4
<1>6. /\ AnchoredRows(store) /\ QueueAnchored(queue) /\ HandsAnchored(saving) /\ Saved(store, rows)
      /\ InOrder(queue) /\ QueueBelow(queue, tip) /\ HandsBelow(saving, tip) /\ BareBelow(bare, tip)
      /\ Held(blocks, bare, height) /\ Still(store, queue, tip)
      /\ AllCovered(queue, height, rows) /\ Confirmed(height, tip)
  BY <1>4 DEF Kept
<1>7. InOrder(q) /\ QueueBelow(q, tip) /\ QueueAnchored(q) /\ Still(store, q, tip)
  BY <1>3, <1>6, PushedKeeps
<1>8. AllCovered(q, height', rows)
  <2> SUFFICES ASSUME NEW x \in DOMAIN height', height'[x] # TX_UNCONFIRMED
               PROVE  Covered(q, rows, x)
    BY DEF AllCovered
  <2>1. x \in DOMAIN height /\ height[x] # TX_UNCONFIRMED
    BY <1>4, <1>5
  <2>2. Updates(q, x) = Updates(queue, x) /\ Deletes(q, x) = Deletes(queue, x)
    BY <1>3, PushedUpdates, PushedDeletes
  <2>3. Covered(queue, rows, x)
    BY <1>6, <2>1 DEF AllCovered
  <2> QED
    BY <2>2, <2>3 DEF Covered
<1>9. Confirmed(height', tip) /\ Held(blocks, bare, height')
  BY <1>5, <1>6 DEF Confirmed, Held
<1> QED
  BY <1>4, <1>6, <1>7, <1>8, <1>9 DEF Kept

\* A transaction is dropped: it is unconfirmed, so not one of the longest branch up to the tip.
LEMMA RemoveTxKept ==
    ASSUME IInv, Kept, NEW t \in Tx, RemoveTx(t)
    PROVE  Kept'
<1>1. PICK q : q = queue \o <<TxDeleted(t)>>
  OBVIOUS
<1>2. PICK j : j = TxDeleted(t)
  OBVIOUS
<1>3. IsPushed(queue, j, q) /\ j.op = "deleted" /\ j.tx = t
  BY <1>1, <1>2, TxJobs, JobTypes DEF IInv
<1>4. /\ app = "running" /\ queue' = q /\ height[t] = TX_UNCONFIRMED
      /\ UNCHANGED <<app, height, blocks, tip, bare, saving, rows, store>>
  BY <1>1 DEF RemoveTx, Enqueue
<1>5. /\ InOrder(queue) /\ QueueBelow(queue, tip) /\ QueueAnchored(queue) /\ Still(store, queue, tip)
      /\ AllCovered(queue, height, rows) /\ Confirmed(height, tip)
  BY <1>4 DEF Kept
<1>6. t \notin Txs(Won(tip))
  <2> SUFFICES ASSUME NEW x \in Won(tip), t \in BlockData[x].txs
               PROVE  FALSE
    BY DEF Txs
  <2>1. height[t] = Height(x)
    BY <1>5 DEF Confirmed
  <2>2. x \in Block /\ TX_UNCONFIRMED \in Nat
    BY AncestorsUnfold, DatabaseAssumption DEF Won, IInv, Typed
  <2>3. Height(x) \in Nat /\ Height(x) < TX_UNCONFIRMED
    BY <2>2, Heighted
  <2> QED
    BY <1>4, <2>1, <2>2, <2>3
<1>7. InOrder(q) /\ QueueBelow(q, tip) /\ QueueAnchored(q) /\ Still(store, q, tip)
  BY <1>3, <1>5, <1>6, PushedKeeps
<1>8. AllCovered(q, height, rows)
  <2> SUFFICES ASSUME NEW x \in DOMAIN height, height[x] # TX_UNCONFIRMED
               PROVE  Covered(q, rows, x)
    BY DEF AllCovered
  <2>1. x # t
    BY <1>4
  <2>2. Updates(q, x) = Updates(queue, x) /\ Deletes(q, x) = Deletes(queue, x)
    BY <1>3, <2>1, PushedUpdates, PushedDeletes
  <2>3. Covered(queue, rows, x)
    BY <1>5 DEF AllCovered
  <2> QED
    BY <2>2, <2>3 DEF Covered
<1> QED
  BY <1>4, <1>7, <1>8 DEF Kept

\* Blocks are put on the queue, after all that waits for their transactions.
LEMMA CallSaveBlocksKept ==
    ASSUME IInv, Kept, NEW p \in Peers, CallSaveBlocks(p)
    PROVE  Kept'
<1>1. PICK j : j = saving[p]
  OBVIOUS
<1>2. PICK q : q = queue \o <<j>>
  OBVIOUS
<1>3. /\ app = "running" /\ j # NoJob /\ queue' = q /\ saving' = [saving EXCEPT ![p] = NoJob]
      /\ UNCHANGED <<app, height, listed, blocks, tip, bare, rows, store>>
  BY <1>1, <1>2 DEF CallSaveBlocks, Enqueue
<1>4. j \in Job /\ j.op = "blocks" /\ queue \in Seq(Job)
  BY <1>1, <1>3 DEF IInv, Typed, GoodJob
<1>5. IsPushed(queue, j, q)
  BY <1>2, <1>4, Pushed
<1>6. /\ InOrder(queue) /\ QueueBelow(queue, tip) /\ QueueAnchored(queue) /\ Still(store, queue, tip)
      /\ AllCovered(queue, height, rows) /\ HandsAnchored(saving) /\ HandsBelow(saving, tip)
  BY <1>3 DEF Kept
<1>7. JobAnchored(j) /\ \A x \in j.blocks : Won(x) \subseteq Ancestors[tip]
  BY <1>1, <1>3, <1>6 DEF HandsAnchored, HandsBelow
<1>8. InOrder(q) /\ QueueBelow(q, tip) /\ QueueAnchored(q) /\ Still(store, q, tip)
  BY <1>4, <1>5, <1>6, <1>7, PushedKeeps
<1>9. AllCovered(q, height, rows)
  <2> SUFFICES ASSUME NEW x \in DOMAIN height, height[x] # TX_UNCONFIRMED
               PROVE  Covered(q, rows, x)
    BY DEF AllCovered
  <2>1. Updates(q, x) = Updates(queue, x) /\ Deletes(q, x) = Deletes(queue, x)
    BY <1>4, <1>5, PushedUpdates, PushedDeletes
  <2>2. Covered(queue, rows, x)
    BY <1>6 DEF AllCovered
  <2> QED
    BY <2>1, <2>2 DEF Covered
<1>10. \A x \in Peers : saving'[x] = IF x = p THEN NoJob ELSE saving[x]
  BY <1>3 DEF IInv, Typed
<1>11. HandsAnchored(saving') /\ HandsBelow(saving', tip)
  BY <1>6, <1>10 DEF HandsAnchored, HandsBelow
<1> QED
  BY <1>3, <1>8, <1>9, <1>11 DEF Kept

\* The oldest job runs and the app goes on: the rows that are saved with their blocks stay.
LEMMA RanKept ==
    ASSUME Kept, app = "running", NEW q \in Seq(Job), q = queue, IsPopped(q, queue'),
           UNCHANGED <<height, blocks, tip, bare, saving, store>>,
           \A t \in DOMAIN height : /\ 1 \notin Updates(q, t)
                                    /\ t \in DOMAIN rows => t \in DOMAIN rows' \/ 1 \in Deletes(q, t),
           Saved(store, rows')
    PROVE  Kept'
<1>1. /\ InOrder(q) /\ QueueBelow(q, tip) /\ QueueAnchored(q) /\ Still(store, q, tip)
      /\ AllCovered(q, height, rows)
  BY DEF Kept
<1>2. InOrder(queue') /\ QueueBelow(queue', tip) /\ QueueAnchored(queue') /\ Still(store, queue', tip)
  BY <1>1, PoppedKeeps
<1>3. AllCovered(queue', height, rows')
  BY <1>1, PoppedCovered
<1> QED
  BY <1>2, <1>3 DEF Kept

\* The job that runs.
LEMMA JobRuns ==
    ASSUME IInv, queue # <<>>, queue' = Tail(queue)
    PROVE  queue \in Seq(Job) /\ IsPopped(queue, queue') /\ Head(queue) = queue[1] /\ 1 \in DOMAIN queue
<1>1. queue \in Seq(Job)
  BY DEF IInv, Typed
<1> QED
  BY <1>1, Popped

\* A row is inserted: one that was there gets the height it has.
LEMMA InsertRowKept ==
    ASSUME IInv, Kept, InsertRow
    PROVE  Kept'
<1>1. /\ app = "running" /\ queue # <<>> /\ queue' = Tail(queue) /\ Head(queue).op = "added"
      /\ UNCHANGED <<height, blocks, tip, bare, saving, store>>
  BY DEF InsertRow, Runs
<1>2. queue \in Seq(Job) /\ IsPopped(queue, queue') /\ Head(queue) = queue[1]
  BY <1>1, JobRuns
<1>3. \A t : 1 \notin Updates(queue, t)
  BY <1>1, <1>2 DEF Updates
<1>4. PICK t : t = Head(queue).tx
  OBVIOUS
<1>5. \/ rows' = rows
      \/ rows' = [x \in DOMAIN rows \cup {t} |-> IF x = t THEN height[t] ELSE rows[x]]
  BY <1>4 DEF InsertRow
<1>6. Saved(store, rows) /\ Confirmed(height, tip) /\ Still(store, queue, tip)
  BY <1>1 DEF Kept
<1>7. Saved(store, rows')
  <2> SUFFICES ASSUME NEW x \in Won(TipOf(store)), NEW u \in BlockData[x].txs
               PROVE  u \in DOMAIN rows' /\ rows'[u] = Height(x)
    BY DEF Saved
  <2>1. u \in DOMAIN rows /\ rows[u] = Height(x)
    BY <1>6 DEF Saved
  <2>2. x \in Won(tip)
    BY <1>6 DEF Still, Won
  <2>3. height[u] = Height(x)
    BY <1>6, <2>2 DEF Confirmed
  <2> QED
    BY <1>5, <2>1, <2>3
<1>8. DOMAIN rows \subseteq DOMAIN rows'
  BY <1>5
<1> QED
  BY <1>1, <1>2, <1>3, <1>7, <1>8, RanKept

\* A row is deleted: none that is saved with its block.
LEMMA DeleteRowKept ==
    ASSUME IInv, Kept, DeleteRow
    PROVE  Kept'
<1>1. /\ app = "running" /\ queue # <<>> /\ queue' = Tail(queue) /\ Head(queue).op = "deleted"
      /\ rows' = [x \in DOMAIN rows \ {Head(queue).tx} |-> rows[x]]
      /\ UNCHANGED <<height, blocks, tip, bare, saving, store>>
  BY DEF DeleteRow, Runs, Restrict
<1>2. queue \in Seq(Job) /\ IsPopped(queue, queue') /\ Head(queue) = queue[1] /\ 1 \in DOMAIN queue
  BY <1>1, JobRuns
<1>3. \A t : 1 \notin Updates(queue, t)
  BY <1>1, <1>2 DEF Updates
<1>4. PICK t : t = Head(queue).tx
  OBVIOUS
<1>5. 1 \in Deletes(queue, t)
  BY <1>1, <1>2, <1>4 DEF Deletes
<1>6. \A x \in DOMAIN rows : x \in DOMAIN rows' \/ 1 \in Deletes(queue, x)
  BY <1>1, <1>4, <1>5
<1>7. Saved(store, rows) /\ Still(store, queue, tip)
  BY <1>1 DEF Kept
<1>8. Saved(store, rows')
  <2> SUFFICES ASSUME NEW x \in Won(TipOf(store)), NEW u \in BlockData[x].txs
               PROVE  u \in DOMAIN rows' /\ rows'[u] = Height(x)
    BY DEF Saved
  <2>1. u \in DOMAIN rows /\ rows[u] = Height(x)
    BY <1>7 DEF Saved
  <2>2. Deletes(queue, u) = {}
    BY <1>7 DEF Still, Txs
  <2>3. u # t
    BY <1>5, <2>2
  <2> QED
    BY <1>1, <1>4, <2>1, <2>3
<1> QED
  BY <1>1, <1>2, <1>3, <1>6, <1>8, RanKept

\* A row is updated: none that is saved with its block.
LEMMA UpdateRowKept ==
    ASSUME IInv, Kept, UpdateRow
    PROVE  Kept'
<1>1. /\ app = "running" /\ queue # <<>> /\ Head(queue).op = "updated"
      /\ UNCHANGED <<app, height, listed, blocks, tip, bare, saving, store>>
  BY DEF UpdateRow, Runs
<1>2. \E t \in DOMAIN rows : RowUpdated(queue, queue', rows, rows', t)
  BY <1>1, RowIsUpdated DEF IInv
<1>3. PICK t \in DOMAIN rows : RowUpdated(queue, queue', rows, rows', t)
  BY <1>2
<1>4. PICK q, r : q = queue /\ r = queue'
  OBVIOUS
<1>5. RowUpdated(q, r, rows, rows', t)
  BY <1>3, <1>4
<1>6. /\ InOrder(q) /\ QueueBelow(q, tip) /\ QueueAnchored(q) /\ Still(store, q, tip)
      /\ AllCovered(q, height, rows) /\ Saved(store, rows)
  BY <1>1, <1>4 DEF Kept
<1>7. Fewer(q, r)
  BY <1>5 DEF Fewer, RowUpdated
<1>8. InOrder(r) /\ QueueBelow(r, tip) /\ QueueAnchored(r) /\ Still(store, r, tip)
  BY <1>6, <1>7, FewerKeeps
<1>9. 1 \in Updates(q, t) /\ t \in DOMAIN rows'
  BY <1>5 DEF RowUpdated, Updates
<1>10. AllCovered(r, height, rows')
  <2> SUFFICES ASSUME NEW x \in DOMAIN height, height[x] # TX_UNCONFIRMED
               PROVE  Covered(r, rows', x)
    BY DEF AllCovered
  <2>1. Covered(q, rows, x) /\ Deletes(r, x) = Deletes(q, x)
    BY <1>6, <1>7, FewerJobs DEF AllCovered
  <2>2. Updates(r, x) = IF x = t THEN Updates(q, x) \ {1} ELSE Updates(q, x)
    BY <1>5 DEF RowUpdated, Updates
  <2>3. DOMAIN rows' = DOMAIN rows
    BY <1>5 DEF RowUpdated
  <2>4. CASE x # t
    BY <2>1, <2>2, <2>3, <2>4 DEF Covered
  <2>5. CASE x = t
    <3>1. \A d \in Deletes(q, x) : d \in Nat /\ 1 <= d
      BY <1>5 DEF RowUpdated, Deletes
    <3>2. CASE Deletes(q, x) = {}
      BY <2>1, <2>3, <2>5, <3>2 DEF Covered
    <3>3. CASE Deletes(q, x) # {}
      <4>1. PICK i \in Updates(q, x) : \A d \in Deletes(q, x) : d < i
        BY <2>1, <3>3 DEF Covered
      <4>2. i # 1
        BY <3>1, <3>3, <4>1
      <4> QED
        BY <2>1, <2>2, <4>1, <4>2 DEF Covered
    <3> QED
      BY <3>2, <3>3
  <2> QED
    BY <2>4, <2>5
<1>11. Saved(store, rows')
  <2> SUFFICES ASSUME NEW x \in Won(TipOf(store)), NEW u \in BlockData[x].txs
               PROVE  u \in DOMAIN rows' /\ rows'[u] = Height(x)
    BY DEF Saved
  <2>1. u \in DOMAIN rows /\ rows[u] = Height(x)
    BY <1>6 DEF Saved
  <2>2. Updates(q, u) = {}
    BY <1>6 DEF Still, Txs
  <2>3. u # t
    BY <1>9, <2>2
  <2> QED
    BY <1>5, <2>1, <2>3 DEF RowUpdated
<1> QED
  BY <1>1, <1>4, <1>8, <1>10, <1>11 DEF Kept

\* All its rows are updated, or the app exits.
LEMMA UpdatedRowsKept ==
    ASSUME IInv, Kept, UpdatedRows
    PROVE  Kept'
<1>1. /\ app = "running" /\ queue # <<>> /\ queue' = Tail(queue) /\ Head(queue).op = "updated"
      /\ app' = IF Head(queue).left = {} THEN app ELSE "exited"
      /\ UNCHANGED <<height, blocks, tip, bare, saving, rows, store>>
  BY DEF UpdatedRows, Runs
<1>2. queue \in Seq(Job) /\ IsPopped(queue, queue') /\ Head(queue) = queue[1]
  BY <1>1, JobRuns
<1>3. CASE Head(queue).left = {}
  <2>1. \A t : 1 \notin Updates(queue, t)
    BY <1>2, <1>3 DEF Updates
  <2>2. Saved(store, rows')
    BY <1>1 DEF Kept
  <2> QED
    BY <1>1, <1>2, <2>1, <2>2, RanKept
<1>4. CASE Head(queue).left # {}
  <2>1. app' = "exited"
    BY <1>1, <1>4
  <2>2. InOrder(queue) /\ QueueBelow(queue, tip) /\ QueueAnchored(queue) /\ Still(store, queue, tip)
    BY <1>1 DEF Kept
  <2>3. QueueAnchored(queue')
    BY <1>2, <2>2, PoppedKeeps
  <2> QED
    BY <1>1, <2>1, <2>3 DEF Kept
<1> QED
  BY <1>3, <1>4

\* Blocks are saved: all that was to happen to their transactions has happened.
LEMMA StoreBlocksKept ==
    ASSUME IInv, Kept, StoreBlocks
    PROVE  Kept'
<1>1. /\ app = "running" /\ queue # <<>> /\ queue' = Tail(queue) /\ Head(queue).op = "blocks"
      /\ UNCHANGED <<height, listed, blocks, tip, bare, saving, rows>>
  BY DEF StoreBlocks, Runs
<1>2. queue \in Seq(Job) /\ IsPopped(queue, queue') /\ Head(queue) = queue[1] /\ 1 \in DOMAIN queue
  BY <1>1, JobRuns
<1>3. PICK q, j : q = queue /\ j = queue[1]
  OBVIOUS
<1>4. /\ InOrder(q) /\ QueueBelow(q, tip) /\ QueueAnchored(q) /\ Still(store, q, tip)
      /\ AllCovered(q, height, rows) /\ Confirmed(height, tip) /\ Saved(store, rows) /\ AnchoredRows(store)
  BY <1>1, <1>3 DEF Kept
<1>5. j.op = "blocks" /\ q[1] = j /\ 1 \in DOMAIN q /\ j \in Job /\ Section(j.blocks)
  BY <1>1, <1>2, <1>3, RestOfQueue DEF IInv, GoodJob
<1>6. AnchoredRows(store') /\ Saved(store', rows) /\ Still(store', q, tip)
  <2>1. CASE store' = store
    BY <1>4, <2>1
  <2>2. CASE store' = (IF j.replace THEN <<>> ELSE store) \o Downwards(j.blocks)
    <3>1. JobAnchored(j) /\ j.replace \in BOOLEAN /\ store \in Seq(Block)
      BY <1>4, <1>5, JobFields DEF QueueAnchored, IInv, Typed
    <3>2. PICK S, replace, st2 : /\ S = j.blocks /\ replace = j.replace /\ st2 = store'
                                 /\ replace \in BOOLEAN
      BY <3>1, Zenon
    <3>3. Stores(store, S, replace, st2)
      BY <1>5, <2>2, <3>1, <3>2 DEF JobAnchored, Stores
    <3>4. Continues(store, S, st2)
      BY <1>4, <3>1, <3>2, <3>3, StoredTip
    <3>5. PICK b \in S : Ancestors[TipOf(st2)] \subseteq Ancestors[TipOf(store)] \cup Ancestors[b]
      BY <3>4 DEF Continues
    <3>6. Won(TipOf(st2)) \subseteq Won(TipOf(store)) \cup Won(b) /\ Won(b) \subseteq Ancestors[tip]
      BY <1>4, <1>5, <3>2, <3>5 DEF Won, QueueBelow
    <3>7. ASSUME NEW x \in Won(b), NEW t \in BlockData[x].txs
          PROVE  /\ Updates(q, t) = {} /\ Deletes(q, t) = {}
                 /\ t \in DOMAIN rows /\ rows[t] = Height(x)
      <4>1. t \in Txs(Won(b))
        BY DEF Txs
      <4>2. \A i \in Updates(q, t) \cup Deletes(q, t) : i < 1
        BY <1>4, <1>5, <3>2, <4>1 DEF InOrder
      <4>3. \A i \in Updates(q, t) \cup Deletes(q, t) : i \in Nat /\ 1 <= i
        BY <1>2, <1>3 DEF IsPopped, Updates, Deletes
      <4>4. Updates(q, t) = {} /\ Deletes(q, t) = {}
        BY <4>2, <4>3
      <4>5. x \in Won(tip) /\ x \in Block
        BY <3>6, AncestorsUnfold DEF Won, IInv, Typed
      <4>6. t \in DOMAIN height /\ height[t] = Height(x)
        BY <1>4, <4>5 DEF Confirmed
      <4>7. height[t] # TX_UNCONFIRMED
        <5>1. Height(x) \in Nat /\ Height(x) < TX_UNCONFIRMED /\ TX_UNCONFIRMED \in Nat
          BY <4>5, Heighted, DatabaseAssumption
        <5> QED
          BY <4>6, <5>1
      <4>8. t \in DOMAIN rows
        BY <1>4, <4>4, <4>6, <4>7 DEF AllCovered, Covered
      <4>9. Current(q, height, rows, t)
        BY <1>1, <1>3, <4>6 DEF IInv, Settled, Typed
      <4> QED
        BY <4>4, <4>6, <4>8, <4>9 DEF Current
    <3>8. Saved(st2, rows)
      BY <1>4, <3>6, <3>7 DEF Saved
    <3>9. Still(st2, q, tip)
      <4>1. Won(TipOf(st2)) \subseteq Ancestors[tip]
        BY <1>4, <3>6 DEF Still
      <4>2. ASSUME NEW t \in Txs(Won(TipOf(st2)))
            PROVE  Updates(q, t) = {} /\ Deletes(q, t) = {}
        <5>1. PICK x \in Won(TipOf(st2)) : t \in BlockData[x].txs
          BY DEF Txs
        <5>2. CASE x \in Won(b)
          BY <3>7, <5>1, <5>2
        <5>3. CASE x \in Won(TipOf(store))
          <6>1. t \in Txs(Won(TipOf(store)))
            BY <5>1, <5>3 DEF Txs
          <6> QED
            BY <1>4, <6>1 DEF Still
        <5> QED
          BY <3>6, <5>2, <5>3
      <4> QED
        BY <4>1, <4>2 DEF Still
    <3> QED
      BY <3>2, <3>4, <3>8, <3>9 DEF Continues
  <2> QED
    BY <1>2, <1>3, <2>1, <2>2 DEF StoreBlocks
<1>7. InOrder(queue') /\ QueueBelow(queue', tip) /\ QueueAnchored(queue') /\ Still(store', queue', tip)
  BY <1>2, <1>3, <1>4, <1>6, PoppedKeeps
<1>8. AllCovered(queue', height, rows)
  <2>1. \A t : 1 \notin Updates(q, t)
    BY <1>5 DEF Updates
  <2> QED
    BY <1>2, <1>3, <1>4, <2>1, PoppedCovered
<1> QED
  BY <1>1, <1>6, <1>7, <1>8 DEF Kept

\* The next start has what was saved.
LEMMA StartKept ==
    ASSUME IInv, Kept, Start
    PROVE  Kept'
<1>1. /\ app' = "running" /\ height' = rows /\ tip' = RestoredTip
      /\ blocks' = Restored /\ bare' = Restored /\ saving' = [p \in Peers |-> NoJob]
      /\ queue' = <<>> /\ rows' = rows /\ store' = store
  BY DEF Start
<1>2. Restored = ChainOf(store) /\ RestoredTip = TipOf(store)
  BY StartIs
<1>3. PICK b, D : b = TipOf(store) /\ D = ChainOf(store)
  OBVIOUS
<1>4. D \subseteq Ancestors[b]
  <2>1. store \in Seq(Block)
    BY DEF IInv, Typed
  <2> QED
    BY <1>3, <2>1, ChainOfIs
<1>5. Saved(store, rows) /\ AnchoredRows(store)
  BY DEF Kept
<1>6. \A t : Updates(<<>>, t) = {} /\ Deletes(<<>>, t) = {}
  BY DEF Updates, Deletes
<1>7. AllCovered(<<>>, rows, rows)
  BY <1>6 DEF AllCovered, Covered
<1>8. Confirmed(rows, b)
  BY <1>3, <1>5 DEF Confirmed, Saved
<1>9. InOrder(<<>>) /\ QueueBelow(<<>>, b) /\ QueueAnchored(<<>>)
  BY DEF InOrder, QueueBelow, QueueAnchored
<1>10. BareBelow(D, b) /\ Held(D, D, rows)
  BY <1>4 DEF BareBelow, Held
<1>11. Still(store, <<>>, b)
  BY <1>3, <1>6 DEF Still, Won
<1>12. HandsAnchored(saving') /\ HandsBelow(saving', b)
  BY <1>1 DEF HandsAnchored, HandsBelow
<1>13. tip' = b /\ blocks' = D /\ bare' = D
  BY <1>1, <1>2, <1>3
<1> QED
  BY <1>1, <1>5, <1>7, <1>8, <1>9, <1>10, <1>11, <1>12, <1>13 DEF Kept

\* The first block has no transaction of the wallet.
NothingBefore == BlockData[Genesis].txs = {}

LEMMA InitKept ==
    ASSUME NothingBefore, Init
    PROVE  Kept
<1>1. /\ app = "running" /\ blocks = {Genesis} /\ tip = Genesis /\ bare = {}
      /\ saving = [p \in Peers |-> NoJob] /\ queue = <<>> /\ store = <<>> /\ DOMAIN height = {}
  BY DEF Init
<1>2. Ancestors[Genesis] = {Genesis}
  BY AncestorsUnfold, DatabaseAssumption
<1>3. <<>> \in Seq(Block) /\ DOMAIN <<>> = {}
  OBVIOUS
<1>4. TipOf(<<>>) = Genesis
  BY <1>3, TipOfStored
<1>5. Won(Genesis) \subseteq {Genesis} /\ Txs(Won(Genesis)) = {}
  BY <1>2 DEF Won, Txs, NothingBefore
<1>6. Saved(<<>>, rows) /\ Still(<<>>, <<>>, Genesis) /\ Confirmed(height, Genesis)
  <2>1. \A x \in Won(Genesis) : BlockData[x].txs = {}
    BY <1>5 DEF NothingBefore
  <2> QED
    BY <1>2, <1>4, <1>5, <2>1 DEF Saved, Still, Confirmed, Won
<1>7. AnchoredRows(<<>>) /\ QueueAnchored(<<>>) /\ InOrder(<<>>) /\ QueueBelow(<<>>, Genesis)
  BY <1>3 DEF AnchoredRows, QueueAnchored, InOrder, QueueBelow
<1>8. HandsAnchored(saving) /\ HandsBelow(saving, Genesis)
  BY <1>1 DEF HandsAnchored, HandsBelow
<1>9. AllCovered(queue, height, rows) /\ BareBelow(bare, Genesis) /\ Held(blocks, bare, height)
  BY <1>1 DEF AllCovered, BareBelow, Held, NothingBefore
<1> QED
  BY <1>1, <1>6, <1>7, <1>8, <1>9 DEF Kept

-----------------------------------------------------------------------------
(* What the next start has. *)

\* The longest branch is not left again, but for a restart.
KeepsWinner == Start \/ Ancestors[tip] \cap Winning \subseteq Ancestors[tip']

WinnerKept == [][KeepsWinner]_vars

LEMMA NextKept ==
    ASSUME OncePerBranch, IInv, Kept, [Next]_vars, [KeepsWinner]_vars
    PROVE  Kept'
<1>1. CASE UNCHANGED vars
  BY <1>1 DEF vars, Kept
<1>2. ASSUME NEW t \in Tx, RelayedTx(t) \/ RemoveTx(t)
      PROVE  Kept'
  BY <1>2, RelayedTxKept, RemoveTxKept
<1>3. ASSUME NEW p \in Peers, CallSaveBlocks(p)
      PROVE  Kept'
  BY <1>3, CallSaveBlocksKept
<1>4. ASSUME NEW p \in Peers, NEW b \in Block, RelayedBlock(p, b)
      PROVE  Kept'
  <2>1. CASE UNCHANGED vars
    BY <1>1, <2>1
  <2>2. CASE Start
    BY <2>2, StartKept
  <2>3. CASE Ancestors[tip] \cap Winning \subseteq Ancestors[tip']
    BY <1>4, <2>3, RelayedBlockKept DEF Won
  <2> QED
    BY <2>1, <2>2, <2>3 DEF KeepsWinner
<1>5. CASE InsertRow \/ DeleteRow \/ UpdateRow \/ UpdatedRows \/ StoreBlocks
  BY <1>5, InsertRowKept, DeleteRowKept, UpdateRowKept, UpdatedRowsKept, StoreBlocksKept
<1>6. CASE Start
  BY <1>6, StartKept
<1> QED
  BY <1>1, <1>2, <1>3, <1>4, <1>5, <1>6 DEF Next

LEMMA KeptAlways ==
    ASSUME OncePerBranch, NothingBefore
    PROVE  Spec /\ WinnerKept => [](IInv /\ Kept)
<1>1. Init => IInv /\ Kept
  BY InitHolds, InitKept
<1>2. IInv /\ Kept /\ [Next]_vars /\ [KeepsWinner]_vars => (IInv /\ Kept)'
  BY NextKeeps, NextKept
<1> QED
  BY <1>1, <1>2, PTL DEF Spec, WinnerKept

\* SavedChainHasTx, of any chain, any peers and any queue, wherever the app is stopped and whatever the
\* database refuses: the jobs that saveBlocks puts on the queue come after those of the transactions, and
\* the app exits when one of these finds no row.  If the longest branch is not left again once it is
\* on the main chain: see RestartConfirms in BRBlockChain.
THEOREM SavedChainComplete ==
    ASSUME OncePerBranch, NothingBefore
    PROVE  Spec /\ WinnerKept => []SavedChainHasTx
<1>1. Kept => SavedChainHasTx
  <2> SUFFICES ASSUME Kept, NEW best \in Longest, NEW t \in Txs(Ancestors[RestoredTip] \cap Ancestors[best])
               PROVE  t \in DOMAIN rows
    BY DEF SavedChainHasTx
  <2>1. PICK x \in Ancestors[RestoredTip] \cap Ancestors[best] : t \in BlockData[x].txs
    BY DEF Txs
  <2>2. x \in Won(TipOf(store))
    BY <2>1, StartIs DEF Won, Winning
  <2> QED
    BY <2>1, <2>2 DEF Kept, Saved
<1> QED
  BY <1>1, KeptAlways, PTL

\* SyncedSaved, in the same generality: once the tip is that of the longest branch and nothing is left to
\* save, every transaction of the branch is listed and saved, at its block's height.
THEOREM SyncedIsSaved ==
    ASSUME OncePerBranch, NothingBefore
    PROVE  Spec /\ WinnerKept => []SyncedSaved
<1>1. IInv /\ Kept => SyncedSaved
  <2> SUFFICES ASSUME IInv, Kept, AllSaved, tip \in Longest, NEW t \in Txs(Ancestors[tip])
               PROVE  t \in listed /\ t \in DOMAIN rows /\ height[t] = HeightIn(Ancestors[tip], t)
    BY DEF SyncedSaved
  <2>1. PICK x \in Ancestors[tip] : t \in BlockData[x].txs
    BY DEF Txs
  <2>2. x \in Won(tip) /\ tip \in Block
    BY <2>1 DEF Won, Winning, IInv, Typed
  <2>3. app = "running" /\ queue = <<>>
    BY DEF AllSaved
  <2>4. t \in DOMAIN height /\ height[t] = Height(x)
    BY <2>1, <2>2, <2>3 DEF Kept, Confirmed
  <2>5. HeightIn(Ancestors[tip], t) = Height(x)
    <3>1. PICK y : y = CHOOSE b \in Ancestors[tip] : t \in BlockData[b].txs
      OBVIOUS
    <3>2. y \in Ancestors[tip] /\ t \in BlockData[y].txs
      BY <2>1, <3>1
    <3>3. y = x
      BY <2>1, <2>2, <3>2 DEF OncePerBranch
    <3> QED
      BY <3>1, <3>3 DEF HeightIn
  <2>6. t \in DOMAIN rows
    <3>1. Height(x) \in Nat /\ Height(x) < TX_UNCONFIRMED /\ TX_UNCONFIRMED \in Nat
      BY <2>1, <2>2, AncestorsUnfold, Heighted, DatabaseAssumption
    <3>2. height[t] # TX_UNCONFIRMED
      BY <2>4, <3>1
    <3>3. Covered(queue, rows, t)
      BY <2>3, <2>4, <3>2 DEF Kept, AllCovered
    <3> QED
      BY <2>3, <3>3 DEF Covered, Updates
  <2>7. t \in listed
    <3>1. Removed(queue, listed, rows, t)
      BY <2>3, <2>6 DEF IInv, Typed, Settled
    <3>2. Deletes(queue, t) = {}
      BY <2>3 DEF Deletes
    <3> QED
      BY <2>6, <3>1, <3>2 DEF Removed
  <2> QED
    BY <2>4, <2>5, <2>6, <2>7
<1> QED
  BY <1>1, KeptAlways, PTL

\* A fork is one block deep: what is higher than a block of the longest branch follows it.
ShortForks == \A x \in Winning, v \in Block : Height(v) > Height(x) => x \in Ancestors[v]

\* Then WinnerKept holds: no reorganisation of _peerRelayedBlock, which takes a higher branch for the
\* main chain, leaves what the main chain has of the longest branch.
THEOREM ShortForksKeepWinner ==
    ASSUME ShortForks
    PROVE  Spec => WinnerKept
<1>1. IInv /\ [Next]_vars => [KeepsWinner]_vars
  <2> SUFFICES ASSUME IInv, Next, ~Start
               PROVE  Ancestors[tip] \cap Winning \subseteq Ancestors[tip']
    BY DEF KeepsWinner
  <2>1. CASE tip' = tip
    BY <2>1
  <2>2. ASSUME NEW p \in Peers, NEW b \in Block, RelayedBlock(p, b), tip' # tip
        PROVE  Ancestors[tip] \cap Winning \subseteq Ancestors[tip']
    <3>1. tip' = b /\ (BlockData[b].prev = tip \/ Height(b) > Height(tip)) /\ b # Genesis /\ tip \in Block
      BY <2>2 DEF RelayedBlock, ExtendsMainChain, ExistingBlock, ExtendFork, Reorganize, IInv, Typed
    <3>2. Height(b) \in Nat /\ Height(tip) \in Nat /\ (BlockData[b].prev = tip => Height(b) = Height(tip) + 1)
      BY <3>1, Heighted, DatabaseAssumption
    <3>3. Height(b) > Height(tip)
      BY <3>1, <3>2
    <3>4. ASSUME NEW x \in Ancestors[tip] \cap Winning
          PROVE  x \in Ancestors[b]
      <4>1. x \in Block /\ Height(x) <= Height(tip)
        BY <3>1, BranchInLine DEF InLine
      <4>2. Height(x) \in Nat
        BY <4>1, Heighted
      <4>3. Height(b) > Height(x)
        BY <3>2, <3>3, <4>1, <4>2
      <4> QED
        BY <4>3 DEF ShortForks
    <3> QED
      BY <3>1, <3>4
  <2>3. tip' = tip \/ \E p \in Peers, b \in Block : RelayedBlock(p, b)
    BY DEF Next, RelayedTx, RemoveTx, CallSaveBlocks, InsertRow, DeleteRow, UpdateRow, UpdatedRows, StoreBlocks
  <2> QED
    BY <2>1, <2>2, <2>3
<1> QED
  BY <1>1, Invariant, PTL DEF Spec, WinnerKept

\* SavedChainHasTx and SyncedSaved with conditions on the block tree alone: with forks one block deep, as
\* nearly all are, saveBlocks and the transactions' jobs leave nothing out, at any stop and any failure.
THEOREM ShortForksSaved ==
    ASSUME OncePerBranch, NothingBefore, ShortForks
    PROVE  Spec => [](SavedChainHasTx /\ SyncedSaved)
  BY SavedChainComplete, SyncedIsSaved, ShortForksKeepWinner, PTL
=============================================================================
