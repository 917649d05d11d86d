---------------------- MODULE BRReplicatedKVStoreProofs ----------------------
(***************************************************************************)
(* The optimization of _syncKey in BRReplicatedKVStore.tla is sound, a     *)
(* sync overwrites no newer local value, and one that reports no error and *)
(* was not disturbed leaves both sides equal: for any keys, values, clocks *)
(* and bounds, whatever the app, the other devices, the network and the    *)
(* database do.                                                            *)
(***************************************************************************)
EXTENDS BRReplicatedKVStore, TLAPS

Row ==
    [version : Nat, remote_version : Nat, value : Values \cup {NoValue, Garbage}, thetime : Int,
     deleted : BOOLEAN]

Object ==
    [version : Nat, time : Int, value : Values \cup {NoValue, Garbage}, deleted : BOOLEAN]

At == {"idle", "ver", "queued", "compare", "put", "del", "get", "apply", "remove", "record"}

Task ==
    [at : At, remoteVer : Nat, remoteTime : Int,
     remoteErr : {"none", "tombstone", "notFound", "unknown"},
     recorded : Nat, localVer : Nat, value : Values \cup {NoValue, Garbage}]

\* What the argument needs to know of the types.  The bounds of TypeOK play no part in it.
Typed ==
    /\ local \in [Keys -> Row]
    /\ remote \in [Keys -> Object]
    /\ task \in [Keys -> Task]
    /\ now \in Int

-----------------------------------------------------------------------------
(* The inductive invariant, for a row r, an object o and a task t of the same key. *)

\* Versions only grow: what was read or recorded is not ahead of what is there.
NotAhead(r, o, t) ==
    /\ r.remote_version <= o.version
    /\ t.remoteVer <= o.version
    /\ t.localVer <= r.version

\* A tombstone that was reported is there, or the server's version has grown since.
SeenTombstone(o, t) ==
    (/\ t.at \in {"queued", "compare", "remove"}
     /\ t.remoteErr = "tombstone" /\ t.remoteVer = o.version) => o.deleted

(***************************************************************************)
(* While the row is still the one that was compared: what is being sent is *)
(* the row's value, a deletion is sent for a deleted row, and a fetch or a *)
(* removal is for a row older than the object.                             *)
(***************************************************************************)
ComparedRow(r, t) ==
    t.localVer = r.version =>
        /\ t.at = "put" => t.value = r.value /\ ~r.deleted
        /\ t.at = "del" => r.deleted
        /\ t.at \in {"get", "apply", "remove"} => r.thetime < t.remoteTime

\* A removal is for a tombstone.
RemovesTombstone(t) == t.at = "remove" => t.remoteErr = "tombstone"

\* While the object is still the one that was fetched: it is what is about to be stored.
FetchedObject(o, t) ==
    t.at = "apply" /\ t.remoteVer = o.version => o.value = t.value /\ ~o.deleted

SameContents(r, o) == Visible(r) = Visible(o)

\* A remote version that is about to be recorded, for the row it was compared with, is one of equal
\* contents, or the server has moved on.
RecordsEqual(r, o, t) ==
    t.at = "record" /\ t.localVer = r.version /\ t.remoteVer = o.version => SameContents(r, o)

RowIsRemote(r, o) == r.remote_version # 0 /\ r.remote_version = o.version => SameContents(r, o)

KeyInv(r, o, t) ==
    /\ NotAhead(r, o, t)
    /\ SeenTombstone(o, t)
    /\ ComparedRow(r, t)
    /\ RemovesTombstone(t)
    /\ FetchedObject(o, t)
    /\ RecordsEqual(r, o, t)
    /\ RowIsRemote(r, o)

IInv ==
    /\ Typed
    /\ \A k \in Keys : KeyInv(local[k], remote[k], task[k])

-----------------------------------------------------------------------------
(* What can happen to one key. *)

\* Local and remote versions as they are, and a task that starts anew or has ended.
LEMMA FreshTask ==
    ASSUME NEW r \in Row, NEW o \in Object, NEW t \in Task, NEW u \in Task,
           KeyInv(r, o, t), u.at \in {"idle", "ver", "queued"}, u.localVer = 0,
           u.remoteVer \in {0, o.version}, u.remoteErr = "tombstone" => o.deleted
    PROVE  KeyInv(r, o, u)
  BY DEF KeyInv, NotAhead, SeenTombstone, ComparedRow, RemovesTombstone, FetchedObject, RecordsEqual,
         RowIsRemote, Row, Object, Task

\* The app writes: the row of the task is no longer there.
LEMMA LocalWrite ==
    ASSUME NEW r \in Row, NEW o \in Object, NEW t \in Task, NEW s \in Row, KeyInv(r, o, t),
           s.version = r.version + 1, s.remote_version = 0
    PROVE  KeyInv(s, o, t)
  BY DEF KeyInv, NotAhead, SeenTombstone, ComparedRow, RemovesTombstone, FetchedObject, RecordsEqual,
         RowIsRemote, Row, Object, Task

\* Another device writes: the version of the task is no longer there.
LEMMA RemoteWrite ==
    ASSUME NEW r \in Row, NEW o \in Object, NEW t \in Task, NEW n \in Object, KeyInv(r, o, t),
           n.version = o.version + 1
    PROVE  KeyInv(r, n, t)
  BY DEF KeyInv, NotAhead, SeenTombstone, ComparedRow, RemovesTombstone, FetchedObject, RecordsEqual,
         RowIsRemote, Row, Object, Task

\* The server has stored what the row says, and the task is to record its version.
LEMMA Sent ==
    ASSUME NEW r \in Row, NEW o \in Object, NEW t \in Task, NEW n \in Object, KeyInv(r, o, t),
           t.at \in {"put", "del"},
           n.version = o.version + 1,
           t.at = "put" => n.value = t.value /\ ~n.deleted,
           t.at = "del" => n.deleted,
           NEW u \in Task, u.at = "record", u.remoteVer = n.version, u.localVer = t.localVer
    PROVE  KeyInv(r, n, u)
<1>2. t.localVer = r.version => SameContents(r, n)
  BY DEF KeyInv, ComparedRow, SameContents, Visible
<1>3. r.remote_version < n.version
  BY DEF KeyInv, NotAhead, Row, Object
<1>4. RowIsRemote(r, n)
  BY <1>3 DEF RowIsRemote, Row, Object
<1>5. RecordsEqual(r, n, u)
  BY <1>2 DEF RecordsEqual
<1>6. NotAhead(r, n, u)
  BY <1>3 DEF KeyInv, NotAhead, Row, Object
<1> QED
  BY <1>4, <1>5, <1>6 DEF KeyInv, SeenTombstone, ComparedRow, RemovesTombstone, FetchedObject

\* The task moves on, with the row and the object as they are.
LEMMA TaskMoves ==
    ASSUME NEW r \in Row, NEW o \in Object, NEW t \in Task, NEW u \in Task, KeyInv(r, o, t),
           u.remoteVer = t.remoteVer, u.localVer <= r.version,
           SeenTombstone(o, u), ComparedRow(r, u), RemovesTombstone(u), FetchedObject(o, u),
           RecordsEqual(r, o, u)
    PROVE  KeyInv(r, o, u)
  BY DEF KeyInv, NotAhead, Row, Object, Task

\* What came from the server is stored: the row has the contents of the version to record.
LEMMA Received ==
    ASSUME NEW r \in Row, NEW o \in Object, NEW t \in Task, NEW s \in Row, KeyInv(r, o, t),
           s.version = r.version + 1, s.remote_version = 0,
           t.remoteVer = o.version => SameContents(s, o),
           NEW u \in Task, u.at = "record", u.remoteVer = t.remoteVer, u.localVer = s.version
    PROVE  KeyInv(s, o, u)
<1>2. RecordsEqual(s, o, u)
  BY DEF RecordsEqual
<1>3. NotAhead(s, o, u) /\ RowIsRemote(s, o)
  BY DEF KeyInv, NotAhead, RowIsRemote, Row, Object
<1> QED
  BY <1>2, <1>3 DEF KeyInv, SeenTombstone, ComparedRow, RemovesTombstone, FetchedObject

\* The remote version is recorded.
LEMMA Recorded ==
    ASSUME NEW r \in Row, NEW o \in Object, NEW t \in Task, KeyInv(r, o, t), t.at = "record",
           t.localVer = r.version,
           NEW s \in Row, s.version = r.version + 1, s.remote_version = t.remoteVer,
           s.value = r.value, s.deleted = r.deleted
    PROVE  KeyInv(s, o, NoTask)
<1>1. SameContents(r, o) => SameContents(s, o)
  BY DEF SameContents, Visible
<1>2. RowIsRemote(s, o)
  BY <1>1 DEF KeyInv, RecordsEqual, RowIsRemote
<1>3. NotAhead(s, o, NoTask)
  BY DEF KeyInv, NotAhead, NoTask, Row, Object, Task
<1> QED
  BY <1>2, <1>3 DEF KeyInv, NoTask, SeenTombstone, ComparedRow, RemovesTombstone, FetchedObject, RecordsEqual

\* A step that is about one key only.
LEMMA OneKey ==
    ASSUME IInv, Typed', NEW k \in Keys, KeyInv(local'[k], remote'[k], task'[k]),
           \A j \in Keys \ {k} : local'[j] = local[j] /\ remote'[j] = remote[j] /\ task'[j] = task[j]
    PROVE  IInv'
  BY DEF IInv

-----------------------------------------------------------------------------
(* The steps. *)

\* The task that nothing is known of.
LEMMA NoTaskTyped == NoTask \in Task
  BY DEF NoTask, Task, At

\* A task starts anew, with what the server says of the key, or has ended.
LEMMA FreshStep ==
    ASSUME IInv, NEW k \in Keys, NEW u \in Task, task' = [task EXCEPT ![k] = u],
           UNCHANGED <<local, remote, now>>,
           u.at \in {"idle", "ver", "queued"}, u.localVer = 0,
           u.remoteVer \in {0, remote[k].version}, u.remoteErr = "tombstone" => remote[k].deleted
    PROVE  IInv'
<1>1. Typed /\ Typed' /\ task'[k] = u
  BY DEF IInv, Typed
<1>2. local[k] \in Row /\ remote[k] \in Object /\ task[k] \in Task /\ KeyInv(local[k], remote[k], task[k])
  BY <1>1 DEF IInv, Typed
<1>3. KeyInv(local[k], remote[k], u)
  BY <1>2, FreshTask
<1>4. \A j \in Keys \ {k} : task'[j] = task[j]
  BY <1>1 DEF Typed
<1> QED
  BY <1>1, <1>3, <1>4, OneKey

\* The completion handler is called, or the error is lost.
LEMMA EndStep ==
    ASSUME IInv, NEW k \in Keys, task' = [task EXCEPT ![k] = NoTask], UNCHANGED <<local, remote, now>>
    PROVE  IInv'
<1>1. NoTask.at = "idle" /\ NoTask.localVer = 0 /\ NoTask.remoteVer = 0 /\ NoTask.remoteErr = "none"
  BY DEF NoTask
<1> QED
  BY <1>1, NoTaskTyped, FreshStep

\* What the server says of a key, as a task.
LEMMA QueuedTask ==
    ASSUME NEW o \in Object, NEW time \in Int
    PROVE  /\ Queued(o, time) \in Task
           /\ Queued(o, time).at = "queued" /\ Queued(o, time).localVer = 0
           /\ Queued(o, time).remoteVer = o.version
           /\ Queued(o, time).remoteErr = "tombstone" => o.deleted
  BY DEF Queued, NoTask, Task, At, Object

\* Set and Del by the app.
LEMMA WriteStep ==
    ASSUME IInv, NEW k \in Keys, NEW s \in Row, Write(k, s),
           s.version = local[k].version + 1, s.remote_version = 0
    PROVE  IInv'
<1>1. Typed /\ local' = [local EXCEPT ![k] = s] /\ UNCHANGED <<remote, task, now>>
  BY DEF IInv, Write
<1>2. local[k] \in Row /\ remote[k] \in Object /\ task[k] \in Task /\ KeyInv(local[k], remote[k], task[k])
  BY <1>1 DEF IInv, Typed
<1>3. KeyInv(s, remote[k], task[k])
  BY <1>2, LocalWrite
<1>4. Typed' /\ local'[k] = s /\ \A j \in Keys \ {k} : local'[j] = local[j]
  BY <1>1 DEF Typed
<1> QED
  BY <1>1, <1>3, <1>4, OneKey

\* The rows that the app and the syncs write.
LEMMA NewRows ==
    ASSUME now \in Int, NEW r \in Row
    PROVE  /\ \A v \in Values \cup {NoValue, Garbage} :
                 /\ SetRow(r, v) \in Row
                 /\ SetRow(r, v).version = r.version + 1 /\ SetRow(r, v).remote_version = 0
                 /\ SetRow(r, v).value = v /\ SetRow(r, v).deleted = FALSE
           /\ DelRow(r) \in Row
           /\ DelRow(r).version = r.version + 1 /\ DelRow(r).remote_version = 0
           /\ DelRow(r).deleted = TRUE
           /\ \A n \in Nat :
                 /\ RecordedRow(r, n) \in Row
                 /\ RecordedRow(r, n).version = r.version + 1 /\ RecordedRow(r, n).remote_version = n
                 /\ RecordedRow(r, n).value = r.value /\ RecordedRow(r, n).deleted = r.deleted
<1>1. \A v \in Values \cup {NoValue, Garbage} :
         /\ SetRow(r, v) \in Row
         /\ SetRow(r, v).version = r.version + 1 /\ SetRow(r, v).remote_version = 0
         /\ SetRow(r, v).value = v /\ SetRow(r, v).deleted = FALSE
  BY DEF SetRow, Row
<1>2. /\ DelRow(r) \in Row
      /\ DelRow(r).version = r.version + 1 /\ DelRow(r).remote_version = 0 /\ DelRow(r).deleted = TRUE
  <2> DEFINE n == r.version + 1
  <2>1. n \in Nat
    BY DEF Row
  <2>2. DelRow(r) = [r EXCEPT !.version = n, !.remote_version = 0, !.thetime = now, !.deleted = TRUE]
    BY DEF DelRow
  <2> HIDE DEF n
  <2>3. DelRow(r) = [version |-> n, remote_version |-> 0, value |-> r.value, thetime |-> now,
                     deleted |-> TRUE]
    BY <2>2 DEF Row
  <2>4. r.value \in Values \cup {NoValue, Garbage}
    BY DEF Row
  <2>5. /\ DelRow(r) \in Row
        /\ DelRow(r).version = n /\ DelRow(r).remote_version = 0 /\ DelRow(r).deleted = TRUE
    BY <2>1, <2>3, <2>4 DEF Row
  <2> QED
    BY <2>5 DEF n
<1>3. \A n \in Nat :
         /\ RecordedRow(r, n) \in Row
         /\ RecordedRow(r, n).version = r.version + 1 /\ RecordedRow(r, n).remote_version = n
         /\ RecordedRow(r, n).value = r.value /\ RecordedRow(r, n).deleted = r.deleted
  <2> TAKE m \in Nat
  <2> DEFINE n == r.version + 1
  <2>1. n \in Nat
    BY DEF Row
  <2>2. RecordedRow(r, m) = [r EXCEPT !.version = n, !.remote_version = m, !.thetime = now]
    BY DEF RecordedRow
  <2> HIDE DEF n
  <2>3. /\ RecordedRow(r, m) \in Row
        /\ RecordedRow(r, m).version = n /\ RecordedRow(r, m).remote_version = m
        /\ RecordedRow(r, m).value = r.value /\ RecordedRow(r, m).deleted = r.deleted
    BY <2>1, <2>2 DEF Row
  <2> QED
    BY <2>3 DEF n
<1> QED
  BY <1>1, <1>2, <1>3

\* The objects that the server makes.
LEMMA NewObjects ==
    ASSUME now \in Int, NEW o \in Object
    PROVE  /\ \A v \in Values \cup {NoValue, Garbage} :
                 /\ PutObject(o, v) \in Object
                 /\ PutObject(o, v).version = o.version + 1
                 /\ PutObject(o, v).value = v /\ PutObject(o, v).deleted = FALSE
           /\ DelObject(o) \in Object
           /\ DelObject(o).version = o.version + 1 /\ DelObject(o).deleted = TRUE
<1>1. \A v \in Values \cup {NoValue, Garbage} :
         /\ PutObject(o, v) \in Object
         /\ PutObject(o, v).version = o.version + 1
         /\ PutObject(o, v).value = v /\ PutObject(o, v).deleted = FALSE
  BY DEF PutObject, Object
<1>2. /\ DelObject(o) \in Object
      /\ DelObject(o).version = o.version + 1 /\ DelObject(o).deleted = TRUE
  <2> DEFINE n == o.version + 1
  <2>1. n \in Nat
    BY DEF Object
  <2>2. DelObject(o) = [o EXCEPT !.version = n, !.time = now, !.deleted = TRUE]
    BY DEF DelObject
  <2> HIDE DEF n
  <2>3. DelObject(o) \in Object /\ DelObject(o).version = n /\ DelObject(o).deleted = TRUE
    BY <2>1, <2>2 DEF Object
  <2> QED
    BY <2>3 DEF n
<1> QED
  BY <1>1, <1>2

\* The app writes a value or deletes one.
LEMMA SetDelStep ==
    ASSUME IInv, NEW k \in Keys, (\E v \in Values : Set(k, v)) \/ Del(k)
    PROVE  IInv'
<1>1. now \in Int /\ local[k] \in Row
  BY DEF IInv, Typed
<1>2. ASSUME NEW v \in Values, Set(k, v)
      PROVE  IInv'
  <2> DEFINE s == SetRow(local[k], v)
  <2>1. s \in Row /\ s.version = local[k].version + 1 /\ s.remote_version = 0
    BY <1>1, NewRows
  <2>2. Write(k, s)
    BY <1>2 DEF Set
  <2> HIDE DEF s
  <2> QED
    BY <2>1, <2>2, WriteStep
<1>3. CASE Del(k)
  <2> DEFINE s == DelRow(local[k])
  <2>1. s \in Row /\ s.version = local[k].version + 1 /\ s.remote_version = 0
    BY <1>1, NewRows
  <2>2. Write(k, s)
    BY <1>3 DEF Del
  <2> HIDE DEF s
  <2> QED
    BY <2>1, <2>2, WriteStep
<1> QED
  BY <1>2, <1>3

\* Another device writes.
LEMMA OtherDeviceStep ==
    ASSUME IInv, NEW k \in Keys, OtherDevice(k)
    PROVE  IInv'
<1>1. Typed /\ UNCHANGED <<local, task, now>>
  BY DEF IInv, OtherDevice
<1>2. /\ local[k] \in Row /\ remote[k] \in Object /\ task[k] \in Task /\ now \in Int
      /\ KeyInv(local[k], remote[k], task[k])
  BY <1>1 DEF IInv, Typed
<1>3. PICK n \in Object : remote' = [remote EXCEPT ![k] = n] /\ n.version = remote[k].version + 1
  <2>1. CASE \E v \in Values \cup ({Garbage} \ {NoValue}) : remote' = [remote EXCEPT ![k] = PutObject(@, v)]
    <3>1. PICK v \in Values \cup {NoValue, Garbage} : remote' = [remote EXCEPT ![k] = PutObject(remote[k], v)]
      BY <2>1
    <3> QED
      BY <1>2, <3>1, NewObjects
  <2>2. CASE remote' = [remote EXCEPT ![k] = DelObject(@)]
    <3>1. remote' = [remote EXCEPT ![k] = DelObject(remote[k])]
      BY <2>2
    <3> QED
      BY <1>2, <3>1, NewObjects
  <2> QED
    BY <2>1, <2>2 DEF OtherDevice
<1>4. KeyInv(local[k], n, task[k])
  BY <1>2, <1>3, RemoteWrite
<1>5. Typed' /\ remote'[k] = n /\ \A j \in Keys \ {k} : remote'[j] = remote[j]
  BY <1>1, <1>3 DEF Typed
<1> QED
  BY <1>1, <1>4, <1>5, OneKey

\* The answer to remote.keys makes a task of every key.
LEMMA KeysAnsweredStep ==
    ASSUME IInv, KeysAnswered
    PROVE  IInv'
<1>1. Typed /\ UNCHANGED <<local, remote, now>>
  BY DEF IInv, KeysAnswered
<1>2. CASE UNCHANGED task
  BY <1>1, <1>2 DEF IInv, Typed
<1>3. CASE task' = [k \in Keys |->
                       IF remote[k].version # 0 \/ local[k].version # 0
                          THEN Queued(remote[k], remote[k].time) ELSE NoTask]
  <2>1. ASSUME NEW k \in Keys
        PROVE  task'[k] \in Task /\ KeyInv(local[k], remote[k], task'[k])
    <3>1. local[k] \in Row /\ remote[k] \in Object /\ task[k] \in Task /\ KeyInv(local[k], remote[k], task[k])
      BY <1>1 DEF IInv, Typed
    <3>2. remote[k].time \in Int
      BY <3>1 DEF Object
    <3>3. KeyInv(local[k], remote[k], Queued(remote[k], remote[k].time))
      BY <3>1, <3>2, QueuedTask, FreshTask
    <3>4. KeyInv(local[k], remote[k], NoTask)
      BY <3>1, NoTaskTyped, FreshTask DEF NoTask
    <3> QED
      BY <1>3, <3>1, <3>2, <3>3, <3>4, QueuedTask, NoTaskTyped
  <2>2. task' \in [Keys -> Task]
    BY <1>3, <2>1
  <2> QED
    BY <1>1, <2>1, <2>2 DEF IInv, Typed
<1> QED
  BY <1>2, <1>3 DEF KeysAnswered

\* A sync of one key begins.
LEMMA SyncKeyStep ==
    ASSUME IInv, NEW k \in Keys, SyncKey(k)
    PROVE  IInv'
<1> DEFINE u == [NoTask EXCEPT !.at = "ver"]
<1>1. u \in Task /\ u.at = "ver" /\ u.localVer = 0 /\ u.remoteVer = 0 /\ u.remoteErr = "none"
  BY DEF NoTask, Task, At
<1>2. task' = [task EXCEPT ![k] = u] /\ UNCHANGED <<local, remote, now>>
  BY DEF SyncKey
<1> HIDE DEF u
<1> QED
  BY <1>1, <1>2, FreshStep

\* The answer that is an error, in a task.
LEMMA UnknownTask ==
    ASSUME NEW t \in Task,
           NEW a, a = [t EXCEPT !.at = "queued", !.remoteErr = "unknown"]
    PROVE  /\ a \in Task /\ a.at = "queued" /\ a.remoteErr = "unknown"
           /\ a.localVer = t.localVer /\ a.remoteVer = t.remoteVer
  BY DEF Task, At

\* The answer to remote.ver.
LEMMA VerAnsweredStep ==
    ASSUME IInv, NEW k \in Keys, VerAnswered(k)
    PROVE  IInv'
<1>1. remote[k] \in Object /\ now \in Int /\ UNCHANGED <<local, remote, now>>
  BY DEF IInv, Typed, VerAnswered
<1>2. RFC1123(now) \in Int /\ RFC1123(remote[k].time) \in Int
  BY <1>1, StoreAssumption DEF RFC1123, Object
<1> DEFINE a == [NoTask EXCEPT !.at = "queued", !.remoteErr = "unknown"]
           b == [NoTask EXCEPT !.at = "queued", !.remoteTime = RFC1123(now), !.remoteErr = "notFound"]
           c == Queued(remote[k], RFC1123(remote[k].time))
<1>3. \E u \in {a, b, c} : task' = [task EXCEPT ![k] = u]
  <2>1. PICK err \in {"none", "unknown"} :
           task' = [task EXCEPT ![k] = IF err = "unknown" THEN a ELSE IF remote[k].version = 0 THEN b ELSE c]
    BY DEF VerAnswered
  <2> HIDE DEF a, b, c
  <2> QED
    BY <2>1
<1>4. a \in Task /\ a.at = "queued" /\ a.localVer = 0 /\ a.remoteVer = 0 /\ a.remoteErr = "unknown"
  <2>1. NoTask.localVer = 0 /\ NoTask.remoteVer = 0
    BY DEF NoTask
  <2> QED
    BY <2>1, UnknownTask, NoTaskTyped
<1>5. b \in Task /\ b.at = "queued" /\ b.localVer = 0 /\ b.remoteVer = 0 /\ b.remoteErr = "notFound"
  BY <1>2 DEF NoTask, Task, At
<1>6. /\ c \in Task /\ c.at = "queued" /\ c.localVer = 0 /\ c.remoteVer = remote[k].version
      /\ c.remoteErr = "tombstone" => remote[k].deleted
  BY <1>1, <1>2, QueuedTask
<1> HIDE DEF a, b, c
<1>7. \A u \in {a, b, c} : /\ u \in Task /\ u.at = "queued" /\ u.localVer = 0
                           /\ u.remoteVer \in {0, remote[k].version}
                           /\ u.remoteErr = "tombstone" => remote[k].deleted
  BY <1>4, <1>5, <1>6
<1>8. PICK u \in {a, b, c} : task' = [task EXCEPT ![k] = u]
  BY <1>3
<1>9. /\ u \in Task /\ u.at \in {"idle", "ver", "queued"} /\ u.localVer = 0
      /\ u.remoteVer \in {0, remote[k].version}
      /\ u.remoteErr = "tombstone" => remote[k].deleted
  BY <1>7
<1> QED
  BY <1>1, <1>8, <1>9, FreshStep

-----------------------------------------------------------------------------
(* The steps of a sync that read or write. *)

\* A step of one key, from what it makes of its row, object and task.
LEMMA KeyStep ==
    ASSUME IInv, NEW k \in Keys, NEW r \in Row, NEW o \in Object, NEW t \in Task,
           local' = local \/ local' = [local EXCEPT ![k] = r],
           remote' = remote \/ remote' = [remote EXCEPT ![k] = o],
           task' = task \/ task' = [task EXCEPT ![k] = t],
           now' = now,
           local'[k] = r, remote'[k] = o, task'[k] = t,
           KeyInv(r, o, t)
    PROVE  IInv'
<1>1. Typed
  BY DEF IInv
<1>2. local' \in [Keys -> Row] /\ \A j \in Keys \ {k} : local'[j] = local[j]
  BY <1>1 DEF Typed
<1>3. remote' \in [Keys -> Object] /\ \A j \in Keys \ {k} : remote'[j] = remote[j]
  BY <1>1 DEF Typed
<1>4. task' \in [Keys -> Task] /\ \A j \in Keys \ {k} : task'[j] = task[j]
  BY <1>1 DEF Typed
<1>5. Typed'
  BY <1>1, <1>2, <1>3, <1>4 DEF Typed
<1>6. KeyInv(local'[k], remote'[k], task'[k])
  OBVIOUS
<1> QED
  BY <1>2, <1>3, <1>4, <1>5, <1>6, OneKey

\* What the invariant says of one key.
LEMMA OfKey ==
    ASSUME IInv, NEW k \in Keys
    PROVE  /\ local[k] \in Row /\ remote[k] \in Object /\ task[k] \in Task /\ now \in Int
           /\ KeyInv(local[k], remote[k], task[k])
           /\ local \in [Keys -> Row] /\ remote \in [Keys -> Object] /\ task \in [Keys -> Task]
  BY DEF IInv, Typed

\* A step that moves the task of a key only.
LEMMA MoveStep ==
    ASSUME IInv, NEW k \in Keys, NEW u \in Task, task' = [task EXCEPT ![k] = u],
           UNCHANGED <<local, remote, now>>,
           u.remoteVer = task[k].remoteVer, u.localVer <= local[k].version,
           SeenTombstone(remote[k], u), ComparedRow(local[k], u), RemovesTombstone(u),
           FetchedObject(remote[k], u), RecordsEqual(local[k], remote[k], u)
    PROVE  IInv'
<1>1. KeyInv(local[k], remote[k], u)
  BY OfKey, TaskMoves
<1>2. task'[k] = u
  BY OfKey
<1> QED
  BY <1>1, <1>2, OfKey, KeyStep

\* _syncKey reads the recorded remote version.
LEMMA ReadRemoteVersionStep ==
    ASSUME IInv, NEW k \in Keys, ReadRemoteVersion(k)
    PROVE  IInv'
<1> DEFINE t == task[k]
           u == [t EXCEPT !.at = "compare", !.recorded = local[k].remote_version]
<1>1. UNCHANGED <<local, remote, now>> /\ t.at = "queued"
  BY DEF ReadRemoteVersion
<1>2. CASE Complete(k, FALSE)
  BY <1>1, <1>2, EndStep DEF Complete
<1>3. CASE task' = [task EXCEPT ![k].at = "compare", ![k].recorded = local[k].remote_version]
  <2>1. task' = [task EXCEPT ![k] = u]
    BY <1>3, OfKey
  <2>2. local[k].remote_version \in Nat
    BY OfKey DEF Row
  <2>3. /\ u \in Task /\ u.at = "compare" /\ u.remoteVer = t.remoteVer /\ u.localVer = t.localVer
        /\ u.remoteErr = t.remoteErr
    BY <2>2, OfKey DEF Task, At
  <2> HIDE DEF u
  <2>4. u.localVer <= local[k].version
    BY <2>3, OfKey DEF KeyInv, NotAhead
  <2>5. SeenTombstone(remote[k], u)
    BY <1>1, <2>3, OfKey DEF KeyInv, SeenTombstone
  <2>6. /\ ComparedRow(local[k], u) /\ RemovesTombstone(u)
        /\ FetchedObject(remote[k], u) /\ RecordsEqual(local[k], remote[k], u)
    BY <2>3 DEF ComparedRow, RemovesTombstone, FetchedObject, RecordsEqual
  <2> QED
    BY <1>1, <2>1, <2>3, <2>4, <2>5, <2>6, MoveStep
<1> QED
  BY <1>2, <1>3 DEF ReadRemoteVersion

\* _syncKey throws, or ends with an error.
LEMMA DatabaseFailsStep ==
    ASSUME IInv, NEW k \in Keys, DatabaseFails(k)
    PROVE  IInv'
<1>1. task' = [task EXCEPT ![k] = NoTask] /\ UNCHANGED <<local, remote, now>>
  BY DEF DatabaseFails, Thrown, Complete
<1> QED
  BY <1>1, EndStep

\* What the strategy implies of the row and the task.
LEMMA StrategyMeans ==
    ASSUME NEW r \in Row, NEW t \in Task
    PROVE  /\ Strategy(r, t) \in {"record", "del", "put", "remove", "get"}
           /\ Strategy(r, t) = "record" => r.deleted /\ t.remoteErr = "tombstone"
           /\ Strategy(r, t) = "del" => r.deleted
           /\ Strategy(r, t) = "put" => ~r.deleted
           /\ Strategy(r, t) = "remove" => t.remoteErr = "tombstone" /\ r.thetime < t.remoteTime
           /\ Strategy(r, t) = "get" => r.thetime < t.remoteTime
<1>1. r.thetime \in Int /\ t.remoteTime \in Int /\ r.deleted \in BOOLEAN
  BY DEF Row, Task
<1>2. LocalIsNewer(r, t) \/ r.thetime < t.remoteTime
  BY <1>1 DEF LocalIsNewer
<1> QED
  BY <1>1, <1>2 DEF Strategy

\* _syncKey reads the row and decides.
LEMMA CompareStep ==
    ASSUME IInv, NEW k \in Keys, Compare(k)
    PROVE  IInv'
<1> DEFINE t == task[k]
           r == local[k]
           o == remote[k]
           u == [t EXCEPT !.at = Strategy(r, t), !.localVer = r.version, !.value = r.value]
<1>1. UNCHANGED <<local, remote, now>> /\ t.at = "compare"
  BY DEF Compare
<1>2. CASE Complete(k, TRUE)
  BY <1>1, <1>2, EndStep DEF Complete
<1>3. CASE task' = [task EXCEPT ![k] = u]
  <2>1. /\ r \in Row /\ o \in Object /\ t \in Task /\ KeyInv(r, o, t)
        /\ r.version \in Nat /\ r.value \in Values \cup {NoValue, Garbage}
    BY OfKey DEF Row
  <2>2. Strategy(r, t) \in At
    BY <2>1, StrategyMeans DEF At
  <2>3. /\ u \in Task /\ u.at = Strategy(r, t) /\ u.remoteVer = t.remoteVer /\ u.localVer = r.version
        /\ u.remoteErr = t.remoteErr /\ u.remoteTime = t.remoteTime /\ u.value = r.value
    BY <2>1, <2>2 DEF Task
  <2>4. task' = [task EXCEPT ![k] = u]
    BY <1>3
  <2> HIDE DEF u
  <2>5. u.remoteErr = "tombstone" /\ u.remoteVer = o.version => o.deleted
    BY <1>1, <2>1, <2>3 DEF KeyInv, SeenTombstone
  <2>6. SeenTombstone(o, u)
    BY <2>5 DEF SeenTombstone
  <2>7. ComparedRow(r, u) /\ RemovesTombstone(u) /\ FetchedObject(o, u)
    BY <2>1, <2>3, StrategyMeans DEF ComparedRow, RemovesTombstone, FetchedObject
  <2>8. RecordsEqual(r, o, u)
    <3>1. u.at = "record" => r.deleted /\ u.remoteErr = "tombstone"
      BY <2>1, <2>3, StrategyMeans
    <3> QED
      BY <2>5, <3>1 DEF RecordsEqual, SameContents, Visible
  <2>9. u.localVer <= r.version
    BY <2>1, <2>3
  <2> QED
    BY <1>1, <2>3, <2>4, <2>6, <2>7, <2>8, <2>9, MoveStep
<1> QED
  BY <1>2, <1>3 DEF Compare

\* The server has handled a put or a deletion, and its answer comes or is lost.
LEMMA HandledStep ==
    ASSUME IInv, NEW k \in Keys, NEW n \in Object, Handled(k, n), task[k].at \in {"put", "del"},
           n.version = remote[k].version + 1,
           task[k].at = "put" => n.value = task[k].value /\ ~n.deleted,
           task[k].at = "del" => n.deleted
    PROVE  IInv'
<1> DEFINE t == task[k]
           u == [t EXCEPT !.at = "record", !.remoteVer = n.version]
<1>1. remote' = [remote EXCEPT ![k] = n] /\ remote'[k] = n /\ UNCHANGED <<local, now>>
  BY OfKey DEF Handled
<1>2. CASE task' = [task EXCEPT ![k].at = "record", ![k].remoteVer = n.version]
  <2>1. task' = [task EXCEPT ![k] = u] /\ task'[k] = u
    BY <1>2, OfKey
  <2>2. u \in Task /\ u.at = "record" /\ u.remoteVer = n.version /\ u.localVer = t.localVer
    BY OfKey DEF Task, At, Object
  <2>3. local[k] \in Row /\ remote[k] \in Object /\ t \in Task /\ KeyInv(local[k], remote[k], t)
    BY OfKey
  <2> HIDE DEF u
  <2>4. KeyInv(local[k], n, u)
    BY <2>2, <2>3, Sent
  <2> QED
    BY <1>1, <2>1, <2>2, <2>3, <2>4, KeyStep
<1>3. CASE Complete(k, TRUE)
  <2>1. task' = [task EXCEPT ![k] = NoTask] /\ task'[k] = NoTask
    BY <1>3, OfKey DEF Complete
  <2>2. KeyInv(local[k], n, t)
    BY OfKey, RemoteWrite
  <2>3. NoTask.at = "idle" /\ NoTask.localVer = 0 /\ NoTask.remoteVer = 0 /\ NoTask.remoteErr = "none"
    BY DEF NoTask
  <2>4. KeyInv(local[k], n, NoTask)
    BY <2>2, <2>3, OfKey, NoTaskTyped, FreshTask
  <2> QED
    BY <1>1, <2>1, <2>4, NoTaskTyped, OfKey, KeyStep
<1> QED
  BY <1>2, <1>3 DEF Handled

\* A put and its answer.
LEMMA PutStep ==
    ASSUME IInv, NEW k \in Keys, Put(k)
    PROVE  IInv'
<1> DEFINE v == task[k].value
           n == PutObject(remote[k], v)
<1>1. CASE Refused(k, TRUE)
  BY <1>1, EndStep DEF Refused, Complete
<1>2. CASE Handled(k, n)
  <2>1. v \in Values \cup {NoValue, Garbage}
    BY OfKey DEF Task
  <2>2. n \in Object /\ n.version = remote[k].version + 1 /\ n.value = v /\ n.deleted = FALSE
    BY <2>1, OfKey, NewObjects
  <2>3. task[k].at = "put"
    BY DEF Put
  <2> HIDE DEF n
  <2> QED
    BY <1>2, <2>2, <2>3, HandledStep
<1> QED
  BY <1>1, <1>2 DEF Put

\* A deletion and its answer.
LEMMA DeleteStep ==
    ASSUME IInv, NEW k \in Keys, Delete(k)
    PROVE  IInv'
<1> DEFINE n == DelObject(remote[k])
<1>1. CASE Refused(k, TRUE) \/ Refused(k, FALSE)
  <2>1. task' = [task EXCEPT ![k] = NoTask] /\ UNCHANGED <<local, remote, now>>
    BY <1>1 DEF Refused, Complete
  <2> QED
    BY <2>1, EndStep
<1>2. CASE Handled(k, n)
  <2>1. n \in Object /\ n.version = remote[k].version + 1 /\ n.deleted = TRUE
    BY OfKey, NewObjects
  <2>2. task[k].at = "del"
    BY DEF Delete
  <2> HIDE DEF n
  <2> QED
    BY <1>2, <2>1, <2>2, HandledStep
<1> QED
  BY <1>1, <1>2 DEF Delete

\* A value is fetched.
LEMMA GetStep ==
    ASSUME IInv, NEW k \in Keys, Get(k)
    PROVE  IInv'
<1> DEFINE t == task[k]
           r == local[k]
           o == remote[k]
           u == [t EXCEPT !.at = "apply", !.value = o.value]
<1>1. CASE Refused(k, TRUE)
  <2>1. task' = [task EXCEPT ![k] = NoTask] /\ UNCHANGED <<local, remote, now>>
    BY <1>1 DEF Refused, Complete
  <2> QED
    BY <2>1, EndStep
<1>2. CASE /\ ~o.deleted
           /\ task' = [task EXCEPT ![k].at = "apply", ![k].value = o.value]
           /\ UNCHANGED <<local, remote, now>>
  <2>1. /\ r \in Row /\ o \in Object /\ t \in Task /\ KeyInv(r, o, t) /\ t.at = "get"
        /\ o.value \in Values \cup {NoValue, Garbage}
    BY OfKey DEF Object, Get
  <2>2. task' = [task EXCEPT ![k] = u]
    BY <1>2, OfKey
  <2>3. /\ u \in Task /\ u.at = "apply" /\ u.remoteVer = t.remoteVer /\ u.localVer = t.localVer
        /\ u.remoteTime = t.remoteTime /\ u.value = o.value
    BY <2>1 DEF Task, At
  <2> HIDE DEF u
  <2>4. u.localVer <= r.version
    BY <2>1, <2>3 DEF KeyInv, NotAhead
  <2>5. ComparedRow(r, u)
    BY <2>1, <2>3 DEF KeyInv, ComparedRow
  <2>6. FetchedObject(o, u)
    BY <1>2, <2>3 DEF FetchedObject
  <2>7. SeenTombstone(o, u) /\ RemovesTombstone(u) /\ RecordsEqual(r, o, u)
    BY <2>3 DEF SeenTombstone, RemovesTombstone, RecordsEqual
  <2> QED
    BY <1>2, <2>2, <2>3, <2>4, <2>5, <2>6, <2>7, MoveStep
<1> QED
  BY <1>1, <1>2 DEF Get

\* What came from the server is stored.
LEMMA StoredStep ==
    ASSUME IInv, NEW k \in Keys, NEW s \in Row, Stored(k, s), UNCHANGED <<remote, now>>,
           s.version = local[k].version + 1, s.remote_version = 0,
           task[k].remoteVer = remote[k].version => SameContents(s, remote[k])
    PROVE  IInv'
<1> DEFINE t == task[k]
           u == [t EXCEPT !.at = "record", !.localVer = s.version]
<1>1. local' = [local EXCEPT ![k] = s] /\ local'[k] = s
  BY OfKey DEF Stored
<1>2. task' = [task EXCEPT ![k] = u] /\ task'[k] = u
  BY OfKey DEF Stored
<1>3. u \in Task /\ u.at = "record" /\ u.remoteVer = t.remoteVer /\ u.localVer = s.version
  BY OfKey DEF Task, At, Row
<1>4. local[k] \in Row /\ remote[k] \in Object /\ t \in Task /\ KeyInv(local[k], remote[k], t)
  BY OfKey
<1> HIDE DEF u
<1>5. KeyInv(s, remote[k], u)
  BY <1>3, <1>4, Received
<1> QED
  BY <1>1, <1>2, <1>3, <1>4, <1>5, KeyStep

\* A remote value is stored, refused by the optimistic lock, or cannot be decrypted.
LEMMA ApplyStep ==
    ASSUME IInv, NEW k \in Keys, Apply(k)
    PROVE  IInv'
<1> DEFINE t == task[k]
           r == local[k]
           o == remote[k]
<1>1. /\ r \in Row /\ o \in Object /\ t \in Task /\ KeyInv(r, o, t) /\ t.at = "apply"
      /\ t.value \in Values \cup {NoValue, Garbage} /\ UNCHANGED <<remote, now>>
  BY OfKey DEF Task, Apply
<1>2. CASE Stored(k, SetRow(r, t.value))
  <2> DEFINE s == SetRow(r, t.value)
  <2>1. /\ s \in Row /\ s.version = r.version + 1 /\ s.remote_version = 0
        /\ s.value = t.value /\ s.deleted = FALSE
    <3>1. now \in Int
      BY OfKey
    <3> QED
      BY <1>1, <3>1, NewRows
  <2>2. Stored(k, s)
    BY <1>2
  <2> HIDE DEF s
  <2>3. t.remoteVer = o.version => SameContents(s, o)
    BY <1>1, <2>1 DEF KeyInv, FetchedObject, SameContents, Visible
  <2> QED
    BY <1>1, <2>1, <2>2, <2>3, StoredStep
<1>3. CASE Complete(k, TRUE) /\ UNCHANGED local
  <2>1. task' = [task EXCEPT ![k] = NoTask] /\ UNCHANGED <<local, remote, now>>
    BY <1>1, <1>3 DEF Complete
  <2> QED
    BY <2>1, EndStep
<1>4. CASE Complete(k, TRUE) /\ local' = [local EXCEPT ![k] = DelRow(@)]
  <2> DEFINE s == DelRow(r)
  <2>1. s \in Row /\ s.version = r.version + 1 /\ s.remote_version = 0
    BY <1>1, OfKey, NewRows
  <2>2. local' = [local EXCEPT ![k] = s] /\ local'[k] = s
    BY <1>4, OfKey
  <2>3. task' = [task EXCEPT ![k] = NoTask] /\ task'[k] = NoTask
    BY <1>4, OfKey DEF Complete
  <2> HIDE DEF s
  <2>4. KeyInv(s, o, t)
    BY <1>1, <2>1, LocalWrite
  <2>5. NoTask.at = "idle" /\ NoTask.localVer = 0 /\ NoTask.remoteVer = 0 /\ NoTask.remoteErr = "none"
    BY DEF NoTask
  <2>6. KeyInv(s, o, NoTask)
    BY <1>1, <2>1, <2>4, <2>5, NoTaskTyped, FreshTask
  <2> QED
    BY <1>1, <2>1, <2>2, <2>3, <2>6, NoTaskTyped, KeyStep
<1> QED
  BY <1>2, <1>3, <1>4 DEF Apply

\* A remote deletion is stored, or refused by the optimistic lock.
LEMMA RemoveStep ==
    ASSUME IInv, NEW k \in Keys, Remove(k)
    PROVE  IInv'
<1> DEFINE t == task[k]
           r == local[k]
           o == remote[k]
<1>1. /\ r \in Row /\ o \in Object /\ t \in Task /\ KeyInv(r, o, t) /\ t.at = "remove"
      /\ UNCHANGED <<remote, now>>
  BY OfKey DEF Remove
<1>2. CASE Stored(k, DelRow(r))
  <2> DEFINE s == DelRow(r)
  <2>1. s \in Row /\ s.version = r.version + 1 /\ s.remote_version = 0 /\ s.deleted = TRUE
    BY <1>1, OfKey, NewRows
  <2>2. Stored(k, s)
    BY <1>2
  <2> HIDE DEF s
  <2>3. t.remoteVer = o.version => o.deleted
    BY <1>1 DEF KeyInv, RemovesTombstone, SeenTombstone
  <2>4. t.remoteVer = o.version => SameContents(s, o)
    BY <2>1, <2>3 DEF SameContents, Visible
  <2> QED
    BY <1>1, <2>1, <2>2, <2>4, StoredStep
<1>3. CASE (Complete(k, TRUE) \/ Complete(k, FALSE)) /\ UNCHANGED local
  <2>1. task' = [task EXCEPT ![k] = NoTask] /\ UNCHANGED <<local, remote, now>>
    BY <1>1, <1>3 DEF Complete
  <2> QED
    BY <2>1, EndStep
<1> QED
  BY <1>2, <1>3 DEF Remove

\* The remote version is recorded, or refused by the optimistic lock.
LEMMA RecordStep ==
    ASSUME IInv, NEW k \in Keys, Record(k)
    PROVE  IInv'
<1> DEFINE t == task[k]
           r == local[k]
           o == remote[k]
           s == RecordedRow(r, t.remoteVer)
<1>1. /\ r \in Row /\ o \in Object /\ t \in Task /\ KeyInv(r, o, t) /\ t.at = "record"
      /\ t.remoteVer \in Nat /\ UNCHANGED <<remote, now>>
  BY OfKey DEF Task, Record
<1>2. CASE Current(k) /\ local' = [local EXCEPT ![k] = RecordedRow(@, t.remoteVer)] /\ Complete(k, FALSE)
  <2>1. /\ s \in Row /\ s.version = r.version + 1 /\ s.remote_version = t.remoteVer
        /\ s.value = r.value /\ s.deleted = r.deleted
    BY <1>1, OfKey, NewRows
  <2>2. local' = [local EXCEPT ![k] = s] /\ local'[k] = s
    BY <1>2, OfKey
  <2>3. task' = [task EXCEPT ![k] = NoTask] /\ task'[k] = NoTask
    BY <1>2, OfKey DEF Complete
  <2>4. t.localVer = r.version
    BY <1>2 DEF Current
  <2> HIDE DEF s
  <2>5. KeyInv(s, o, NoTask)
    BY <1>1, <2>1, <2>4, Recorded
  <2> QED
    BY <1>1, <2>1, <2>2, <2>3, <2>5, NoTaskTyped, KeyStep
<1>3. CASE Complete(k, TRUE) /\ UNCHANGED local
  <2>1. task' = [task EXCEPT ![k] = NoTask] /\ UNCHANGED <<local, remote, now>>
    BY <1>1, <1>3 DEF Complete
  <2> QED
    BY <2>1, EndStep
<1> QED
  BY <1>2, <1>3 DEF Record

\* A step that leaves rows, objects and tasks alone.
LEMMA QuietStep ==
    ASSUME IInv, UNCHANGED <<local, remote, task>>, now' \in Int
    PROVE  IInv'
  BY DEF IInv, Typed

-----------------------------------------------------------------------------
(* The invariant holds. *)

\* It holds of the empty table, an empty server and no sync.
LEMMA InitIInv == Init => IInv
<1> SUFFICES ASSUME Init
             PROVE  IInv
  OBVIOUS
<1>1. NoRow \in Row /\ NoObject \in Object
  BY DEF NoRow, NoObject, Row, Object
<1>2. now \in Int
  BY StoreAssumption DEF Init
<1>3. Typed
  BY <1>1, <1>2, NoTaskTyped DEF Init, Typed
<1>4. KeyInv(NoRow, NoObject, NoTask)
  BY DEF KeyInv, NotAhead, SeenTombstone, ComparedRow, RemovesTombstone, FetchedObject, RecordsEqual,
         RowIsRemote, NoRow, NoObject, NoTask
<1> QED
  BY <1>3, <1>4 DEF Init, IInv

\* Each step of the sync of a key keeps the invariant.
LEMMA SyncStepIInv ==
    ASSUME IInv, NEW k \in Keys, SyncStep(k)
    PROVE  IInv'
<1>1. CASE VerAnswered(k)
  BY <1>1, VerAnsweredStep
<1>2. CASE ReadRemoteVersion(k)
  BY <1>2, ReadRemoteVersionStep
<1>3. CASE DatabaseFails(k)
  BY <1>3, DatabaseFailsStep
<1>4. CASE Compare(k)
  BY <1>4, CompareStep
<1>5. CASE Put(k)
  BY <1>5, PutStep
<1>6. CASE Delete(k)
  BY <1>6, DeleteStep
<1>7. CASE Get(k)
  BY <1>7, GetStep
<1>8. CASE Apply(k)
  BY <1>8, ApplyStep
<1>9. CASE Remove(k)
  BY <1>9, RemoveStep
<1>10. CASE Record(k)
  BY <1>10, RecordStep
<1> QED
  BY <1>1, <1>2, <1>3, <1>4, <1>5, <1>6, <1>7, <1>8, <1>9, <1>10 DEF SyncStep

\* So does every step of the system.
LEMMA NextIInv ==
    ASSUME IInv, [Next]_vars
    PROVE  IInv'
<1>1. now \in Int
  BY DEF IInv, Typed
<1>2. CASE UNCHANGED vars
  BY <1>1, <1>2, QuietStep DEF vars
<1>3. CASE Tick
  BY <1>1, <1>3, QuietStep DEF Tick
<1>4. CASE SyncAllKeys
  BY <1>1, <1>4, QuietStep DEF SyncAllKeys
<1>5. CASE KeysAnswered
  BY <1>5, KeysAnsweredStep
<1>6. CASE FinishAll
  BY <1>1, <1>6, QuietStep DEF FinishAll
<1>7. ASSUME NEW k \in Keys, (\E v \in Values : Set(k, v)) \/ Del(k)
      PROVE  IInv'
  BY <1>7, SetDelStep
<1>8. ASSUME NEW k \in Keys, OtherDevice(k)
      PROVE  IInv'
  BY <1>8, OtherDeviceStep
<1>9. ASSUME NEW k \in Keys, SyncKey(k)
      PROVE  IInv'
  BY <1>9, SyncKeyStep
<1>10. ASSUME NEW k \in Keys, SyncStep(k)
       PROVE  IInv'
  BY <1>10, SyncStepIInv
<1> QED
  BY <1>2, <1>3, <1>4, <1>5, <1>6, <1>7, <1>8, <1>9, <1>10 DEF Next

\* It holds in every state of a behaviour.
LEMMA Invariance == Spec => []IInv
<1>1. Init => IInv
  BY InitIInv
<1>2. IInv /\ [Next]_vars => IInv'
  BY NextIInv
<1> QED
  BY <1>1, <1>2, PTL DEF Spec

-----------------------------------------------------------------------------
(* The theorems. *)

(***************************************************************************)
(* "one optimization is we keep the remote version on the most recent      *)
(* local version, if they match, there is nothing to do": it is sound.     *)
(* Versions of the server only grow, and setRemoteVersion stores one only  *)
(* in the row that was compared with it or made from it.                   *)
(***************************************************************************)
THEOREM RecordedSound == Spec => []RecordedIsRemote
<1>1. IInv => RecordedIsRemote
  BY DEF IInv, KeyInv, RowIsRemote, SameContents, RecordedIsRemote, Agree
<1> QED
  BY <1>1, Invariance, PTL

\* The sync of a key changes the row of that key only, and only under the optimistic lock.
LEMMA LocalChange ==
    ASSUME IInv, NEW j \in Keys, SyncStep(j), NEW k \in Keys, local'[k] # local[k]
    PROVE  j = k /\ Current(k)
<1>1. CASE \/ VerAnswered(j) \/ ReadRemoteVersion(j) \/ DatabaseFails(j) \/ Compare(j)
           \/ Put(j) \/ Delete(j) \/ Get(j)
  BY <1>1 DEF VerAnswered, ReadRemoteVersion, DatabaseFails, Compare, Put, Delete, Get, Handled, Refused
<1>2. CASE Apply(j)
  BY <1>2, OfKey DEF Apply, Stored
<1>3. CASE Remove(j)
  BY <1>3, OfKey DEF Remove, Stored
<1>4. CASE Record(j)
  BY <1>4, OfKey DEF Record
<1> QED
  BY <1>1, <1>2, <1>3, <1>4 DEF SyncStep

(***************************************************************************)
(* A sync replaces a local value only by one that the server got later     *)
(* (_set and _del under the optimistic lock, after the comparison of       *)
(* LocalIsNewer), in every step that the app and the other devices allow.  *)
(***************************************************************************)
THEOREM NewerKept == Spec => LocalWriteKept
<1>1. ASSUME IInv, Next, NEW k \in Keys, task[k].at \in {"apply", "remove"}, task'[k] # task[k],
             local'[k] # local[k]
      PROVE  local[k].thetime < task[k].remoteTime
  <2>1. CASE UNCHANGED task \/ UNCHANGED local
    BY <1>1, <2>1
  <2>2. ASSUME NEW j \in Keys, SyncStep(j)
        PROVE  local[k].thetime < task[k].remoteTime
    <3>1. Current(k)
      BY <1>1, <2>2, LocalChange
    <3> QED
      BY <1>1, <3>1, OfKey DEF KeyInv, ComparedRow, Current
  <2> QED
    BY <1>1, <2>1, <2>2 DEF Next, Tick, SyncAllKeys, KeysAnswered, FinishAll, Set, Del, Write, OtherDevice,
       SyncKey
<1>2. IInv /\ [Next]_vars =>
          [\A k \in Keys :
              task[k].at \in {"apply", "remove"} /\ task'[k] # task[k] /\ Visible(local'[k]) # Visible(local[k])
                  => local[k].thetime < task[k].remoteTime]_vars
  <2>1. \A k \in Keys : Visible(local'[k]) # Visible(local[k]) => local'[k] # local[k]
    OBVIOUS
  <2> QED
    BY <1>1, <2>1
<1> QED
  BY <1>2, Invariance, PTL DEF Spec, LocalWriteKept

-----------------------------------------------------------------------------
(* The inductive invariant of a sync, on top of IInv, for the row r, the object o, the task t of a key. *)

\* A sync that began where there was room still has it, and times lie on the clock.
Rooms(r, o, t) ==
    /\ r.version <= MaxVersion + 2 /\ o.version <= MaxVersion + 1
    /\ t.at # "idle" => r.version <= MaxVersion + 1
    /\ t.at \notin {"idle", "record"} => r.version <= MaxVersion /\ o.version <= MaxVersion
    /\ t.recorded <= o.version
    /\ r.thetime \in Stamp /\ o.time \in Stamp /\ t.remoteTime \in Stamp

\* What does not exist has no value.
Empty(r, o) ==
    /\ r.version = 0 => r.value = NoValue
    /\ o.version = 0 => o.value = NoValue

\* Nobody else writes: what _syncKey was told of the server, and what it read of the row, is so.
Undisturbed(r, o, t) ==
    /\ t.at \in {"queued", "compare"} => t.remoteVer = IF t.remoteErr = "unknown" THEN 0 ELSE o.version
    /\ t.at \in {"get", "apply", "remove", "record"} => t.remoteVer = o.version
    /\ t.at \in {"put", "del", "get", "apply", "remove", "record"} => t.localVer = r.version

\* The sync has met no error and no other writer.
Calm == sync.quiet /\ ~sync.failed

\* A key that a calm syncAllKeys is done with has the same contents on both sides.
KeySync(r, o, t, calm, phase) ==
    /\ Rooms(r, o, t) /\ Empty(r, o)
    /\ phase \in {"none", "keys"} => t.at = "idle"
    /\ phase = "keys" => r.version <= MaxVersion /\ o.version <= MaxVersion
    /\ phase \in {"all", "one"} /\ calm => Undisturbed(r, o, t)
    /\ phase = "all" /\ calm /\ t.at = "idle" => SameContents(r, o)

\* The record of the sync has its type.
SyncType ==
    sync \in [phase : {"none", "keys", "all", "one"}, failed : BOOLEAN, scope : SUBSET Keys, quiet : BOOLEAN]

\* A sync of one key leaves the others alone.
Scope ==
    /\ sync.phase \in {"keys", "all"} => sync.scope = Keys
    /\ sync.phase = "one" => \E j \in Keys : sync.scope = {j} /\ \A k \in Keys \ {j} : task[k].at = "idle"

\* The invariant of the sync.
SyncInv ==
    /\ SyncType /\ Scope /\ now \in Stamp
    /\ \A k \in Keys : KeySync(local[k], remote[k], task[k], Calm, sync.phase)
    /\ SyncedAgree

-----------------------------------------------------------------------------

\* A step that is about one key only, and does not begin a sync.
LEMMA Others ==
    ASSUME SyncInv, NEW k \in Keys, SyncType', Scope', now' \in Stamp, SyncedAgree', Calm' => Calm,
           \A j \in Keys \ {k} : local'[j] = local[j] /\ remote'[j] = remote[j] /\ task'[j] = task[j],
           KeySync(local'[k], remote'[k], task'[k], Calm', sync'.phase),
           sync'.phase = sync.phase \/
           (sync'.phase = "none" /\ \A j \in Keys \ {k} : task[j].at = "idle")
    PROVE  SyncInv'
<1>1. ASSUME NEW j \in Keys
      PROVE  KeySync(local'[j], remote'[j], task'[j], Calm', sync'.phase)
  <2>1. CASE j = k
    BY <2>1
  <2>2. CASE j # k
    <3>1. local'[j] = local[j] /\ remote'[j] = remote[j] /\ task'[j] = task[j]
      BY <2>2
    <3>2. KeySync(local[j], remote[j], task[j], Calm, sync.phase)
      BY DEF SyncInv
    <3>3. sync'.phase = "none" => sync.phase = "none" \/ task[j].at = "idle"
      BY <2>2
    <3>4. sync'.phase = sync.phase \/ sync'.phase = "none"
      OBVIOUS
    <3> QED
      BY <3>1, <3>2, <3>3, <3>4 DEF KeySync
  <2> QED
    BY <2>1, <2>2
<1> QED
  BY <1>1 DEF SyncInv

\* A key has a task only in a sync that it belongs to.
LEMMA AtWork ==
    ASSUME SyncInv, NEW k \in Keys, task[k].at # "idle"
    PROVE  /\ sync.phase \in {"all", "one"}
           /\ sync.phase = "all" => sync.scope = Keys
           /\ sync.phase = "one" => sync.scope = {k} /\ \A j \in Keys \ {k} : task[j].at = "idle"
           /\ KeySync(local[k], remote[k], task[k], Calm, sync.phase)
<1>1. sync.phase \in {"none", "keys", "all", "one"}
  BY DEF SyncInv, SyncType
<1>2. KeySync(local[k], remote[k], task[k], Calm, sync.phase)
  BY DEF SyncInv
<1>3. sync.phase \in {"all", "one"}
  BY <1>1, <1>2 DEF KeySync
<1>4. sync.phase = "one" => sync.scope = {k} /\ \A j \in Keys \ {k} : task[j].at = "idle"
  <2> SUFFICES ASSUME sync.phase = "one"
               PROVE  sync.scope = {k} /\ \A j \in Keys \ {k} : task[j].at = "idle"
    OBVIOUS
  <2>1. PICK j \in Keys : sync.scope = {j} /\ \A i \in Keys \ {j} : task[i].at = "idle"
    BY DEF SyncInv, Scope
  <2>2. j = k
    BY <2>1
  <2> QED
    BY <2>1, <2>2
<1> QED
  BY <1>2, <1>3, <1>4 DEF SyncInv, Scope

\* The sync of a key goes on.
LEMMA KeyMoves ==
    ASSUME IInv, SyncInv, NEW k \in Keys, NEW r, NEW o, NEW t, task[k].at # "idle",
           local' = local \/ local' = [local EXCEPT ![k] = r],
           remote' = remote \/ remote' = [remote EXCEPT ![k] = o],
           task' = [task EXCEPT ![k] = t],
           local'[k] = r, remote'[k] = o, UNCHANGED <<sync, now>>,
           t.at # "idle", Rooms(r, o, t), Empty(r, o), Calm => Undisturbed(r, o, t)
    PROVE  SyncInv'
<1>1. sync'.phase \in {"all", "one"} /\ sync'.phase = sync.phase /\ sync' = sync /\ (Calm' <=> Calm)
  BY AtWork DEF Calm
<1>2. SyncType' /\ SyncedAgree' /\ now' \in Stamp
  BY <1>1 DEF SyncInv, SyncType, SyncedAgree
<1>3. \A j \in Keys \ {k} : local'[j] = local[j] /\ remote'[j] = remote[j] /\ task'[j] = task[j]
  BY OfKey
<1>4. task'[k] = t
  BY OfKey
<1>5. Scope'
  BY <1>1, <1>3, AtWork DEF Scope
<1>6. KeySync(r, o, t, Calm', sync'.phase)
  BY <1>1 DEF KeySync
<1> QED
  BY <1>1, <1>2, <1>3, <1>4, <1>5, <1>6, Others

\* What Complete makes of the sync.
LEMMA Ended ==
    ASSUME SyncType, NEW k \in Keys, NEW err \in BOOLEAN, Complete(k, err)
    PROVE  /\ SyncType' /\ sync'.failed = (sync.failed \/ err) /\ sync'.scope = sync.scope
           /\ sync'.quiet = sync.quiet
           /\ sync'.phase = IF sync.phase = "one" THEN "none" ELSE sync.phase
<1> DEFINE f == sync.failed \/ err
           p == IF sync.phase = "one" THEN "none" ELSE sync.phase
<1>1. sync' = [sync EXCEPT !.failed = f, !.phase = p]
  BY DEF Complete
<1>2. f \in BOOLEAN /\ p \in {"none", "keys", "all", "one"}
  BY DEF SyncType
<1> HIDE DEF f, p
<1>3. SyncType' /\ sync'.failed = f /\ sync'.scope = sync.scope /\ sync'.quiet = sync.quiet /\ sync'.phase = p
  BY <1>1, <1>2 DEF SyncType
<1> QED
  BY <1>3 DEF f, p

\* The sync of a key ends: without an error and undisturbed, only with the same contents.
LEMMA KeyEnds ==
    ASSUME IInv, SyncInv, NEW k \in Keys, NEW err \in BOOLEAN, NEW r, NEW o, task[k].at # "idle",
           Complete(k, err),
           local' = local \/ local' = [local EXCEPT ![k] = r],
           remote' = remote \/ remote' = [remote EXCEPT ![k] = o],
           local'[k] = r, remote'[k] = o, now' = now,
           Rooms(r, o, NoTask), Empty(r, o),
           Calm /\ ~err => SameContents(r, o)
    PROVE  SyncInv'
<1>1. /\ SyncType' /\ sync'.failed = (sync.failed \/ err) /\ sync'.scope = sync.scope
      /\ sync'.quiet = sync.quiet
      /\ sync'.phase = IF sync.phase = "one" THEN "none" ELSE sync.phase
  BY Ended DEF SyncInv
<1>2. task' = [task EXCEPT ![k] = NoTask]
  BY DEF Complete
<1>3. task'[k] = NoTask /\ task'[k].at = "idle"
  BY <1>2, OfKey DEF NoTask
<1>4. \A j \in Keys \ {k} : local'[j] = local[j] /\ remote'[j] = remote[j] /\ task'[j] = task[j]
  BY <1>2, OfKey
<1>5. (Calm' => Calm) /\ (Calm' => SameContents(r, o)) /\ now' \in Stamp
  BY <1>1 DEF Calm, SyncInv
<1>6. KeySync(r, o, NoTask, Calm', sync'.phase)
  <2>1. NoTask.at = "idle" /\ sync'.phase \in {"none", "all"}
    BY <1>1, AtWork DEF NoTask
  <2>2. Undisturbed(r, o, NoTask)
    BY <2>1 DEF Undisturbed
  <2> QED
    BY <1>5, <2>1, <2>2 DEF KeySync
<1>7. sync'.phase = "none" => sync'.scope = {k} /\ \A j \in Keys \ {k} : task[j].at = "idle"
  BY <1>1, AtWork
<1>8. SyncedAgree'
  <2>1. Calm' => Visible(local'[k]) = Visible(remote'[k])
    BY <1>5 DEF SameContents
  <2> QED
    BY <1>7, <2>1 DEF SyncedAgree, Agree, Calm
<1>9. Scope' /\ (sync'.phase = sync.phase \/ sync'.phase = "none")
  BY <1>1, AtWork DEF Scope
<1> QED
  BY <1>1, <1>3, <1>4, <1>5, <1>6, <1>7, <1>8, <1>9, Others

\* _syncKey throws: syncAllKeys counts a failure, and syncKey never ends.
LEMMA KeyThrown ==
    ASSUME IInv, SyncInv, NEW k \in Keys, task[k].at # "idle", Thrown(k), UNCHANGED <<local, remote, now>>
    PROVE  SyncInv'
<1> DEFINE f == sync.failed \/ sync.phase = "all"
<1>1. sync' = [sync EXCEPT !.failed = f] /\ task' = [task EXCEPT ![k] = NoTask]
  BY DEF Thrown
<1>2. f \in BOOLEAN
  BY DEF SyncInv, SyncType
<1>3. /\ SyncType' /\ sync'.failed = (sync.failed \/ sync.phase = "all")
      /\ sync'.scope = sync.scope /\ sync'.phase = sync.phase /\ sync'.quiet = sync.quiet
  <2> HIDE DEF f
  <2>1. /\ SyncType' /\ sync'.failed = f
        /\ sync'.scope = sync.scope /\ sync'.phase = sync.phase /\ sync'.quiet = sync.quiet
    BY <1>1, <1>2 DEF SyncInv, SyncType
  <2> QED
    BY <2>1 DEF f
<1>4. task'[k] = NoTask /\ NoTask.at = "idle"
  BY <1>1, OfKey DEF NoTask
<1>5. \A j \in Keys \ {k} : local'[j] = local[j] /\ remote'[j] = remote[j] /\ task'[j] = task[j]
  BY <1>1, OfKey
<1>6. sync.phase \in {"all", "one"} /\ (Calm' => Calm) /\ (sync.phase = "all" => ~Calm') /\ now' \in Stamp
  BY <1>3, AtWork DEF Calm, SyncInv
<1>7. KeySync(local[k], remote[k], NoTask, Calm', sync'.phase)
  <2>1. Rooms(local[k], remote[k], NoTask)
    <3>1. Rooms(local[k], remote[k], task[k])
      BY AtWork DEF KeySync
    <3>2. remote[k].version \in Nat /\ NoTask.recorded = 0 /\ NoTask.remoteTime = 0
      BY OfKey DEF NoTask, Object
    <3> QED
      BY <1>4, <3>1, <3>2, StoreAssumption DEF Rooms, Stamp
  <2>2. Empty(local[k], remote[k])
    BY AtWork DEF KeySync
  <2>3. Undisturbed(local[k], remote[k], NoTask)
    BY <1>4 DEF Undisturbed
  <2> QED
    BY <1>3, <1>6, <2>1, <2>2, <2>3 DEF KeySync
<1>8. SyncedAgree' /\ Scope'
  BY <1>3, <1>5, <1>6, AtWork DEF SyncedAgree, Scope
<1> QED
  BY <1>3, <1>4, <1>5, <1>6, <1>7, <1>8, Others

\* The app or another device writes: the sync is disturbed.
LEMMA Disturbed ==
    ASSUME IInv, SyncInv, NEW k \in Keys, NEW r, NEW o,
           sync' = [sync EXCEPT !.quiet = FALSE], UNCHANGED <<task, now>>,
           local' = local \/ local' = [local EXCEPT ![k] = r],
           remote' = remote \/ remote' = [remote EXCEPT ![k] = o],
           local'[k] = r, remote'[k] = o,
           Rooms(r, o, task[k]), Empty(r, o),
           sync.phase = "keys" => r.version <= MaxVersion /\ o.version <= MaxVersion
    PROVE  SyncInv'
<1>1. /\ SyncType' /\ sync'.failed = sync.failed /\ sync'.quiet = FALSE
      /\ sync'.scope = sync.scope /\ sync'.phase = sync.phase
  BY DEF SyncInv, SyncType
<1>2. \A j \in Keys \ {k} : local'[j] = local[j] /\ remote'[j] = remote[j] /\ task'[j] = task[j]
  BY OfKey
<1>3. ~Calm' /\ Scope' /\ SyncedAgree' /\ now' \in Stamp
  BY <1>1 DEF SyncInv, Calm, Scope, SyncedAgree
<1>4. KeySync(r, o, task[k], Calm', sync'.phase)
  <2>1. KeySync(local[k], remote[k], task[k], Calm, sync.phase)
    BY DEF SyncInv
  <2> QED
    BY <1>1, <1>3, <2>1 DEF KeySync
<1> QED
  BY <1>1, <1>2, <1>3, <1>4, Others

-----------------------------------------------------------------------------
(* What the steps make of the times. *)

\* The date of a Last-Modified header is not later than the time, nor before the clock began.
LEMMA HeaderStamp ==
    ASSUME NEW t \in Stamp
    PROVE  RFC1123(t) \in Stamp
<1>1. t \in Nat /\ Second \in Nat \ {0} /\ t <= MaxTime /\ MaxTime \in Nat
  BY StoreAssumption DEF Stamp
<1>2. t % Second \in 0..(Second - 1) /\ t = Second * (t \div Second) + (t % Second)
  BY <1>1
<1>3. t \div Second \in Nat
  BY <1>1
<1>4. Second * (t \div Second) \in Nat
  BY <1>1, <1>3
<1>5. t - (t % Second) \in 0..MaxTime
  BY <1>1, <1>2, <1>4
<1> QED
  BY <1>5 DEF RFC1123, Stamp

\* Rows and objects are dated with the present.
LEMMA NewDates ==
    ASSUME NEW r \in Row, NEW o \in Object
    PROVE  /\ \A v : SetRow(r, v).thetime = now
           /\ DelRow(r).thetime = now /\ DelRow(r).value = r.value
           /\ \A n : RecordedRow(r, n).thetime = now
           /\ \A v : PutObject(o, v).time = now
           /\ DelObject(o).time = now /\ DelObject(o).value = o.value
<1>1. \A v : SetRow(r, v).thetime = now
  BY DEF SetRow
<1>2. \A v : PutObject(o, v).time = now
  BY DEF PutObject
<1>3. DelRow(r).thetime = now /\ DelRow(r).value = r.value
  <2> DEFINE n == r.version + 1
  <2>1. DelRow(r) = [r EXCEPT !.version = n, !.remote_version = 0, !.thetime = now, !.deleted = TRUE]
    BY DEF DelRow
  <2> HIDE DEF n
  <2> QED
    BY <2>1 DEF Row
<1>4. ASSUME NEW m
      PROVE  RecordedRow(r, m).thetime = now
  <2> DEFINE n == r.version + 1
  <2>1. RecordedRow(r, m) = [r EXCEPT !.version = n, !.remote_version = m, !.thetime = now]
    BY DEF RecordedRow
  <2> HIDE DEF n
  <2> QED
    BY <2>1 DEF Row
<1>5. DelObject(o).time = now /\ DelObject(o).value = o.value
  <2> DEFINE n == o.version + 1
  <2>1. DelObject(o) = [o EXCEPT !.version = n, !.time = now, !.deleted = TRUE]
    BY DEF DelObject
  <2> HIDE DEF n
  <2> QED
    BY <2>1 DEF Object
<1> QED
  BY <1>1, <1>2, <1>3, <1>4, <1>5

-----------------------------------------------------------------------------
(* The steps of the app, the other devices and the clock. *)

\* The app writes a value or deletes one.
LEMMA SetDelKeeps ==
    ASSUME IInv, SyncInv, NEW k \in Keys, (\E v \in Values : Set(k, v)) \/ Del(k)
    PROVE  SyncInv'
<1> DEFINE r == local[k]
           o == remote[k]
           t == task[k]
<1>1. r \in Row /\ o \in Object /\ t \in Task /\ now \in Int /\ r.version \in Nat
  BY OfKey DEF Row
<1>2. KeySync(r, o, t, Calm, sync.phase) /\ now \in Stamp
  BY DEF SyncInv
<1>3. PICK s \in Row : Write(k, s) /\ s.version = r.version + 1 /\ s.thetime = now
  <2>1. ASSUME NEW v \in Values, Set(k, v)
        PROVE  \E s \in Row : Write(k, s) /\ s.version = r.version + 1 /\ s.thetime = now
    <3>1. SetRow(r, v) \in Row /\ SetRow(r, v).version = r.version + 1 /\ SetRow(r, v).thetime = now
      BY <1>1, NewRows, NewDates
    <3> QED
      BY <2>1, <3>1 DEF Set
  <2>2. CASE Del(k)
    <3>1. DelRow(r) \in Row /\ DelRow(r).version = r.version + 1 /\ DelRow(r).thetime = now
      BY <1>1, NewRows, NewDates
    <3> QED
      BY <2>2, <3>1 DEF Del
  <2> QED
    BY <2>1, <2>2
<1>4. /\ local' = [local EXCEPT ![k] = s] /\ r.version < MaxVersion
      /\ sync' = [sync EXCEPT !.quiet = FALSE] /\ UNCHANGED <<remote, task, now>>
  BY <1>3 DEF Write
<1>5. local'[k] = s
  BY <1>4, OfKey
<1>6. s.version \in Nat \ {0} /\ s.version <= MaxVersion
  BY <1>1, <1>3, <1>4, StoreAssumption
<1> HIDE DEF r, o, t
<1>7. Rooms(s, o, t) /\ Empty(s, o)
  BY <1>2, <1>3, <1>6, StoreAssumption DEF KeySync, Rooms, Empty
<1>8. sync.phase = "keys" => s.version <= MaxVersion /\ o.version <= MaxVersion
  BY <1>2, <1>6 DEF KeySync
<1> QED
  BY <1>4, <1>5, <1>7, <1>8, Disturbed DEF o, t

\* Another device writes.
LEMMA OtherDeviceKeeps ==
    ASSUME IInv, SyncInv, NEW k \in Keys, OtherDevice(k)
    PROVE  SyncInv'
<1> DEFINE r == local[k]
           o == remote[k]
           t == task[k]
<1>1. r \in Row /\ o \in Object /\ t \in Task /\ now \in Int /\ o.version \in Nat
  BY OfKey DEF Object
<1>2. KeySync(r, o, t, Calm, sync.phase) /\ now \in Stamp
  BY DEF SyncInv
<1>3. PICK n \in Object : remote' = [remote EXCEPT ![k] = n] /\ n.version = o.version + 1 /\ n.time = now
  <2>1. CASE \E v \in Values \cup ({Garbage} \ {NoValue}) : remote' = [remote EXCEPT ![k] = PutObject(@, v)]
    <3>1. PICK v \in Values \cup {NoValue, Garbage} : remote' = [remote EXCEPT ![k] = PutObject(remote[k], v)]
      BY <2>1
    <3>2. /\ PutObject(o, v) \in Object /\ PutObject(o, v).version = o.version + 1
          /\ PutObject(o, v).time = now
      BY <1>1, NewObjects, NewDates
    <3> QED
      BY <3>1, <3>2
  <2>2. CASE remote' = [remote EXCEPT ![k] = DelObject(@)]
    <3>1. remote' = [remote EXCEPT ![k] = DelObject(remote[k])]
      BY <2>2
    <3> QED
      BY <1>1, <3>1, NewObjects, NewDates
  <2> QED
    BY <2>1, <2>2 DEF OtherDevice
<1>4. o.version < MaxVersion /\ sync' = [sync EXCEPT !.quiet = FALSE] /\ UNCHANGED <<local, task, now>>
  BY DEF OtherDevice
<1>5. remote'[k] = n
  BY <1>3, OfKey
<1>6. n.version \in Nat \ {0} /\ n.version <= MaxVersion
  BY <1>1, <1>3, <1>4, StoreAssumption
<1>7. t.recorded <= n.version
  <2>1. t.recorded \in Nat /\ t.recorded <= o.version
    BY <1>1, <1>2 DEF KeySync, Rooms, Task
  <2> QED
    BY <1>1, <1>3, <2>1
<1> HIDE DEF r, o, t
<1>8. Rooms(r, n, t) /\ Empty(r, n)
  BY <1>2, <1>3, <1>6, <1>7, StoreAssumption DEF KeySync, Rooms, Empty
<1>9. sync.phase = "keys" => r.version <= MaxVersion /\ n.version <= MaxVersion
  BY <1>2, <1>6 DEF KeySync
<1> QED
  BY <1>3, <1>4, <1>5, <1>8, <1>9, Disturbed DEF r, t

\* Nothing happens, or time passes.
LEMMA TimePasses ==
    ASSUME SyncInv, UNCHANGED vars \/ Tick
    PROVE  SyncInv'
<1>1. UNCHANGED <<local, remote, task, sync>> /\ now' \in Stamp
  BY StoreAssumption DEF SyncInv, vars, Tick, Stamp
<1> QED
  BY <1>1 DEF SyncInv, SyncType, Scope, KeySync, Calm, SyncedAgree, Agree

-----------------------------------------------------------------------------
(* A sync begins and ends. *)

\* syncAllKeys begins: nothing is known yet, and there is room for what it will write.
LEMMA SyncAllKeysKeeps ==
    ASSUME SyncInv, SyncAllKeys
    PROVE  SyncInv'
<1>1. /\ sync' = Begin("keys", Keys) /\ UNCHANGED <<local, remote, task, now>>
      /\ sync.phase = "none" /\ HasRoom
  BY DEF SyncAllKeys
<1>2. sync'.phase = "keys" /\ sync'.scope = Keys /\ SyncType'
  BY <1>1 DEF Begin, SyncType
<1>3. ASSUME NEW k \in Keys
      PROVE  KeySync(local'[k], remote'[k], task'[k], Calm', sync'.phase)
  <2>1. KeySync(local[k], remote[k], task[k], Calm, sync.phase)
    BY DEF SyncInv
  <2>2. local[k].version <= MaxVersion /\ remote[k].version <= MaxVersion
    BY <1>1 DEF HasRoom
  <2> QED
    BY <1>1, <1>2, <2>1, <2>2 DEF KeySync
<1>4. Scope' /\ SyncedAgree' /\ now' \in Stamp
  BY <1>1, <1>2 DEF Scope, SyncedAgree, SyncInv
<1> QED
  BY <1>2, <1>3, <1>4 DEF SyncInv

\* A task that has nothing to record yet, where there is room.
LEMMA FreshRooms ==
    ASSUME NEW r \in Row, NEW o \in Object, NEW t, NEW u,
           Rooms(r, o, t), r.version <= MaxVersion, o.version <= MaxVersion,
           u.recorded = 0, u.remoteTime \in Stamp
    PROVE  Rooms(r, o, u)
<1>1. r.version \in Nat /\ o.version \in Nat /\ MaxVersion \in Nat
  BY StoreAssumption DEF Row, Object
<1> QED
  BY <1>1 DEF Rooms

\* syncKey begins.
LEMMA SyncKeySync ==
    ASSUME IInv, SyncInv, NEW k \in Keys, SyncKey(k)
    PROVE  SyncInv'
<1> DEFINE u == [NoTask EXCEPT !.at = "ver"]
<1>1. u.at = "ver" /\ u.recorded = 0 /\ u.remoteTime = 0
  BY DEF NoTask
<1>2. /\ task' = [task EXCEPT ![k] = u] /\ UNCHANGED <<local, remote, now>>
      /\ sync' = Begin("one", {k}) /\ sync.phase = "none" /\ HasRoom
  BY DEF SyncKey
<1> HIDE DEF u
<1>3. task'[k] = u /\ \A j \in Keys \ {k} : task'[j] = task[j]
  BY <1>2, OfKey
<1>4. sync'.phase = "one" /\ sync'.scope = {k} /\ SyncType'
  BY <1>2 DEF Begin, SyncType
<1>5. ASSUME NEW j \in Keys
      PROVE  KeySync(local[j], remote[j], task[j], Calm, "none") /\ task[j].at = "idle"
  BY <1>2 DEF SyncInv, KeySync
<1>6. ASSUME NEW j \in Keys
      PROVE  KeySync(local'[j], remote'[j], task'[j], Calm', sync'.phase)
  <2>1. CASE j = k
    <3>1. local[k].version <= MaxVersion /\ remote[k].version <= MaxVersion
      BY <1>2 DEF HasRoom
    <3>2. Rooms(local[k], remote[k], task[k]) /\ Empty(local[k], remote[k])
      BY <1>5 DEF KeySync
    <3>3. u.remoteTime \in Stamp
      BY <1>1, StoreAssumption DEF Stamp
    <3>4. Rooms(local[k], remote[k], u)
      BY <1>1, <3>1, <3>2, <3>3, OfKey, FreshRooms
    <3>5. Undisturbed(local[k], remote[k], u)
      BY <1>1 DEF Undisturbed
    <3> QED
      BY <1>1, <1>2, <1>3, <1>4, <2>1, <3>2, <3>4, <3>5 DEF KeySync
  <2>2. CASE j # k
    <3>1. Undisturbed(local[j], remote[j], task[j])
      BY <1>5 DEF Undisturbed
    <3>2. task'[j] = task[j]
      BY <1>3, <2>2
    <3> QED
      BY <1>2, <1>4, <1>5, <3>1, <3>2 DEF KeySync
  <2> QED
    BY <2>1, <2>2
<1>7. Scope' /\ SyncedAgree' /\ now' \in Stamp
  BY <1>2, <1>3, <1>4, <1>5 DEF Scope, SyncedAgree, SyncInv
<1> QED
  BY <1>4, <1>6, <1>7 DEF SyncInv

\* What the server says of a key, in numbers.
LEMMA QueuedRooms ==
    ASSUME NEW o \in Object, NEW time \in Int
    PROVE  /\ Queued(o, time).recorded = 0 /\ Queued(o, time).remoteTime = time
           /\ Queued(o, time).remoteErr # "unknown"
  BY DEF Queued, NoTask, Object

\* The answer to remote.keys: a key that neither side has needs no sync.
LEMMA KeysAnsweredKeeps ==
    ASSUME IInv, SyncInv, KeysAnswered
    PROVE  SyncInv'
<1>1. UNCHANGED <<local, remote, now>> /\ sync.phase = "keys" /\ sync.scope = Keys
  BY DEF KeysAnswered, SyncInv, Scope
<1>2. CASE sync' = [sync EXCEPT !.phase = "none", !.failed = TRUE] /\ UNCHANGED task
  <2>1. SyncType' /\ sync'.phase = "none" /\ sync'.failed = TRUE
    BY <1>2 DEF SyncInv, SyncType
  <2>2. ASSUME NEW k \in Keys
        PROVE  KeySync(local'[k], remote'[k], task'[k], Calm', sync'.phase)
    <3>1. KeySync(local[k], remote[k], task[k], Calm, sync.phase)
      BY DEF SyncInv
    <3> QED
      BY <1>1, <1>2, <2>1, <3>1 DEF KeySync
  <2>3. Scope' /\ SyncedAgree' /\ now' \in Stamp
    BY <1>1, <2>1 DEF Scope, SyncedAgree, SyncInv
  <2> QED
    BY <2>1, <2>2, <2>3 DEF SyncInv
<1>3. CASE /\ sync' = [sync EXCEPT !.phase = "all"]
           /\ task' = [k \in Keys |->
                         IF remote[k].version # 0 \/ local[k].version # 0
                            THEN Queued(remote[k], remote[k].time) ELSE NoTask]
  <2>1. SyncType' /\ sync'.phase = "all" /\ sync'.scope = Keys
    BY <1>1, <1>3 DEF SyncInv, SyncType
  <2>2. ASSUME NEW k \in Keys
        PROVE  KeySync(local'[k], remote'[k], task'[k], Calm', sync'.phase)
    <3> DEFINE r == local[k]
               o == remote[k]
               q == Queued(o, o.time)
    <3>1. r \in Row /\ o \in Object /\ KeySync(r, o, task[k], Calm, "keys")
      BY <1>1, OfKey DEF SyncInv
    <3>2. r.version <= MaxVersion /\ o.version <= MaxVersion /\ Rooms(r, o, task[k]) /\ Empty(r, o)
      BY <3>1 DEF KeySync
    <3>3. o.time \in Stamp /\ o.time \in Int
      BY <3>1, <3>2 DEF Rooms, Object
    <3>4. q.recorded = 0 /\ q.remoteTime = o.time /\ q.at = "queued" /\ q.remoteVer = o.version
          /\ q.remoteErr # "unknown"
      BY <3>1, <3>3, QueuedTask, QueuedRooms
    <3>5. NoTask.recorded = 0 /\ NoTask.remoteTime \in Stamp /\ NoTask.at = "idle"
      BY StoreAssumption DEF NoTask, Stamp
    <3>6. task'[k] = IF o.version # 0 \/ r.version # 0 THEN q ELSE NoTask
      BY <1>3
    <3> HIDE DEF r, o, q
    <3>7. Rooms(r, o, q) /\ Undisturbed(r, o, q)
      <4>1. Rooms(r, o, q)
        BY <3>1, <3>2, <3>3, <3>4, FreshRooms
      <4> QED
        BY <4>1, <3>4 DEF Undisturbed
    <3>8. Rooms(r, o, NoTask) /\ Undisturbed(r, o, NoTask)
      <4>1. Rooms(r, o, NoTask)
        BY <3>1, <3>2, <3>5, FreshRooms
      <4> QED
        BY <4>1, <3>5 DEF Undisturbed
    <3>9. o.version = 0 /\ r.version = 0 => SameContents(r, o)
      BY <3>2 DEF Empty, SameContents, Visible
    <3>10. KeySync(r, o, task'[k], Calm', "all")
      <4>1. CASE task'[k] = q
        BY <3>2, <3>4, <3>7, <4>1 DEF KeySync
      <4>2. CASE task'[k] = NoTask /\ o.version = 0 /\ r.version = 0
        BY <3>2, <3>5, <3>8, <3>9, <4>2 DEF KeySync
      <4> QED
        BY <3>6, <4>1, <4>2
    <3> QED
      BY <1>1, <2>1, <3>10 DEF r, o
  <2>3. Scope' /\ SyncedAgree' /\ now' \in Stamp
    BY <1>1, <2>1 DEF Scope, SyncedAgree, SyncInv
  <2> QED
    BY <2>1, <2>2, <2>3 DEF SyncInv
<1> QED
  BY <1>2, <1>3 DEF KeysAnswered

\* The end of syncAllKeys: every key has been brought to the same contents, unless one failed.
LEMMA FinishAllKeeps ==
    ASSUME SyncInv, FinishAll
    PROVE  SyncInv'
<1>1. /\ UNCHANGED <<local, remote, task, now>> /\ sync.phase = "all"
      /\ \A k \in Keys : task[k].at = "idle"
      /\ sync' = [sync EXCEPT !.phase = "none"]
  BY DEF FinishAll
<1>2. /\ SyncType' /\ sync'.phase = "none" /\ sync'.scope = Keys /\ sync'.failed = sync.failed
      /\ sync'.quiet = sync.quiet
  BY <1>1 DEF SyncInv, SyncType, Scope
<1>3. ASSUME NEW k \in Keys
      PROVE  /\ KeySync(local'[k], remote'[k], task'[k], Calm', sync'.phase)
             /\ Calm => Visible(local'[k]) = Visible(remote'[k])
  <2>1. KeySync(local[k], remote[k], task[k], Calm, "all") /\ task[k].at = "idle"
    BY <1>1 DEF SyncInv
  <2> QED
    BY <1>1, <1>2, <2>1 DEF KeySync, SameContents
<1>4. SyncedAgree'
  BY <1>2, <1>3 DEF SyncedAgree, Agree, Calm
<1> QED
  BY <1>1, <1>2, <1>3, <1>4 DEF SyncInv, Scope

-----------------------------------------------------------------------------
(* The steps of the sync of a key. *)

\* What is known of a key that is syncing.
LEMMA OfBusyKey ==
    ASSUME IInv, SyncInv, NEW k \in Keys, task[k].at # "idle"
    PROVE  /\ local[k] \in Row /\ remote[k] \in Object /\ task[k] \in Task /\ now \in Stamp
           /\ local[k].version \in Nat /\ remote[k].version \in Nat
           /\ KeyInv(local[k], remote[k], task[k])
           /\ Rooms(local[k], remote[k], task[k]) /\ Empty(local[k], remote[k])
           /\ Calm => Undisturbed(local[k], remote[k], task[k])
<1>1. local[k] \in Row /\ remote[k] \in Object /\ task[k] \in Task /\ KeyInv(local[k], remote[k], task[k])
  BY OfKey
<1>2. KeySync(local[k], remote[k], task[k], Calm, sync.phase) /\ sync.phase \in {"all", "one"}
  BY AtWork
<1>3. /\ Rooms(local[k], remote[k], task[k]) /\ Empty(local[k], remote[k])
      /\ Calm => Undisturbed(local[k], remote[k], task[k])
  BY <1>2 DEF KeySync
<1> QED
  BY <1>1, <1>3 DEF SyncInv, Row, Object

\* A key whose sync is over needs no room.
LEMMA EndRooms ==
    ASSUME NEW r, NEW o \in Object, r.version <= MaxVersion + 2, o.version <= MaxVersion + 1,
           r.thetime \in Stamp, o.time \in Stamp
    PROVE  Rooms(r, o, NoTask)
<1>1. NoTask.at = "idle" /\ NoTask.recorded = 0 /\ NoTask.remoteTime = 0
  BY DEF NoTask
<1>2. o.version \in Nat /\ 0 \in Stamp
  BY StoreAssumption DEF Object, Stamp
<1> QED
  BY <1>1, <1>2 DEF Rooms

\* The sync of a key ends, and has changed neither side since it last did.
LEMMA EndsAsItIs ==
    ASSUME IInv, SyncInv, NEW k \in Keys, NEW err \in BOOLEAN, task[k].at # "idle", Complete(k, err),
           UNCHANGED <<local, remote, now>>,
           Calm /\ ~err => SameContents(local[k], remote[k])
    PROVE  SyncInv'
<1>1. local[k] \in Row /\ remote[k] \in Object /\ Rooms(local[k], remote[k], task[k])
      /\ Empty(local[k], remote[k])
  BY OfBusyKey
<1>2. Rooms(local[k], remote[k], NoTask)
  BY <1>1, EndRooms DEF Rooms
<1> QED
  BY <1>1, <1>2, KeyEnds

\* The answer to remote.ver.
LEMMA VerAnsweredKeeps ==
    ASSUME IInv, SyncInv, NEW k \in Keys, VerAnswered(k)
    PROVE  SyncInv'
<1> DEFINE r == local[k]
           o == remote[k]
           a == [NoTask EXCEPT !.at = "queued", !.remoteErr = "unknown"]
           b == [NoTask EXCEPT !.at = "queued", !.remoteTime = RFC1123(now), !.remoteErr = "notFound"]
           c == Queued(o, RFC1123(o.time))
<1>1. task[k].at = "ver" /\ UNCHANGED <<local, remote, sync, now>>
  BY DEF VerAnswered
<1>2. r \in Row /\ o \in Object /\ Rooms(r, o, task[k]) /\ Empty(r, o) /\ now \in Stamp
  BY <1>1, OfBusyKey
<1>3. r.version <= MaxVersion /\ o.version <= MaxVersion /\ o.time \in Stamp
  BY <1>1, <1>2 DEF Rooms
<1>4. RFC1123(now) \in Stamp /\ RFC1123(o.time) \in Stamp /\ 0 \in Stamp /\ RFC1123(o.time) \in Int
  BY <1>2, <1>3, HeaderStamp, StoreAssumption DEF Stamp
<1>5. a.at = "queued" /\ a.recorded = 0 /\ a.remoteTime = 0 /\ a.remoteVer = 0 /\ a.remoteErr = "unknown"
  BY DEF NoTask
<1>6. /\ b.at = "queued" /\ b.recorded = 0 /\ b.remoteTime = RFC1123(now) /\ b.remoteVer = 0
      /\ b.remoteErr = "notFound"
  BY DEF NoTask
<1>7. /\ c.at = "queued" /\ c.recorded = 0 /\ c.remoteTime = RFC1123(o.time) /\ c.remoteVer = o.version
      /\ c.remoteErr # "unknown"
  BY <1>2, <1>4, QueuedTask, QueuedRooms
<1>8. PICK u : /\ task' = [task EXCEPT ![k] = u]
               /\ u = a \/ (u = b /\ o.version = 0) \/ u = c
  <2>1. PICK err \in {"none", "unknown"} :
           task' = [task EXCEPT ![k] = IF err = "unknown" THEN a ELSE IF o.version = 0 THEN b ELSE c]
    BY DEF VerAnswered
  <2> HIDE DEF a, b, c
  <2> QED
    BY <2>1
<1> HIDE DEF a, b, c
<1>9. u.at = "queued" /\ u.recorded = 0 /\ u.remoteTime \in Stamp
  BY <1>4, <1>5, <1>6, <1>7, <1>8
<1>10. Undisturbed(r, o, u)
  BY <1>5, <1>6, <1>7, <1>8 DEF Undisturbed
<1>11. Rooms(r, o, u)
  BY <1>2, <1>3, <1>9, FreshRooms
<1> QED
  BY <1>1, <1>2, <1>8, <1>9, <1>10, <1>11, KeyMoves

\* _syncKey reads the recorded remote version, and ends at once if it is the server's.
LEMMA ReadRemoteVersionKeeps ==
    ASSUME IInv, SyncInv, NEW k \in Keys, ReadRemoteVersion(k)
    PROVE  SyncInv'
<1> DEFINE r == local[k]
           o == remote[k]
           t == task[k]
           u == [t EXCEPT !.at = "compare", !.recorded = r.remote_version]
<1>1. UNCHANGED <<local, remote, now>> /\ t.at = "queued"
  BY DEF ReadRemoteVersion
<1>2. /\ r \in Row /\ o \in Object /\ t \in Task /\ Rooms(r, o, t) /\ Empty(r, o) /\ KeyInv(r, o, t)
      /\ Calm => Undisturbed(r, o, t)
  BY <1>1, OfBusyKey
<1>3. CASE UpToDate(t, r) /\ Complete(k, FALSE)
  <2>1. t.remoteVer > 0 /\ r.remote_version = t.remoteVer /\ t.remoteVer \in Nat
    BY <1>2, <1>3 DEF UpToDate, Task
  <2>2. Calm => t.remoteVer = o.version
    BY <1>1, <1>2, <2>1 DEF Undisturbed
  <2>3. Calm => SameContents(r, o)
    BY <1>2, <2>1, <2>2 DEF KeyInv, RowIsRemote
  <2> QED
    BY <1>1, <1>3, <2>3, EndsAsItIs
<1>4. CASE task' = [task EXCEPT ![k].at = "compare", ![k].recorded = r.remote_version] /\ UNCHANGED sync
  <2>1. task' = [task EXCEPT ![k] = u]
    BY <1>4, OfKey
  <2>2. r.remote_version \in Nat /\ r.remote_version <= o.version
    BY <1>2 DEF Row, KeyInv, NotAhead
  <2>3. /\ u.at = "compare" /\ u.remoteVer = t.remoteVer /\ u.remoteTime = t.remoteTime
        /\ u.remoteErr = t.remoteErr /\ u.recorded = r.remote_version
    BY <1>2 DEF Task
  <2> HIDE DEF u
  <2>4. Rooms(r, o, u)
    BY <1>1, <1>2, <2>2, <2>3 DEF Rooms
  <2>5. Calm => Undisturbed(r, o, u)
    BY <1>1, <1>2, <2>3 DEF Undisturbed
  <2> QED
    BY <1>1, <1>2, <1>4, <2>1, <2>3, <2>4, <2>5, KeyMoves
<1> QED
  BY <1>3, <1>4 DEF ReadRemoteVersion

\* _syncKey throws, or ends with an error.
LEMMA DatabaseFailsKeeps ==
    ASSUME IInv, SyncInv, NEW k \in Keys, DatabaseFails(k)
    PROVE  SyncInv'
<1>1. UNCHANGED <<local, remote, now>> /\ task[k].at # "idle"
  BY DEF DatabaseFails
<1>2. CASE Thrown(k)
  BY <1>1, <1>2, KeyThrown
<1>3. CASE Complete(k, TRUE)
  BY <1>1, <1>3, EndsAsItIs
<1> QED
  BY <1>2, <1>3 DEF DatabaseFails

\* _syncKey reads the row and decides.
LEMMA CompareKeeps ==
    ASSUME IInv, SyncInv, NEW k \in Keys, Compare(k)
    PROVE  SyncInv'
<1> DEFINE r == local[k]
           o == remote[k]
           t == task[k]
           u == [t EXCEPT !.at = Strategy(r, t), !.localVer = r.version, !.value = r.value]
<1>1. UNCHANGED <<local, remote, now>> /\ t.at = "compare"
  BY DEF Compare
<1>2. /\ r \in Row /\ o \in Object /\ t \in Task /\ Rooms(r, o, t) /\ Empty(r, o)
      /\ r.version \in Nat /\ o.version \in Nat
      /\ Calm => Undisturbed(r, o, t)
  BY <1>1, OfBusyKey
<1>3. CASE Complete(k, TRUE)
  BY <1>1, <1>3, EndsAsItIs
<1>4. CASE t.remoteErr # "unknown" /\ task' = [task EXCEPT ![k] = u] /\ UNCHANGED sync
  <2>1. Strategy(r, t) \in {"record", "del", "put", "remove", "get"}
    BY <1>2, StrategyMeans
  <2>2. /\ u.at = Strategy(r, t) /\ u.remoteVer = t.remoteVer /\ u.remoteTime = t.remoteTime
        /\ u.recorded = t.recorded /\ u.localVer = r.version
    BY <1>2 DEF Task
  <2>3. task' = [task EXCEPT ![k] = u]
    BY <1>4
  <2> HIDE DEF u
  <2>4. Rooms(r, o, u)
    BY <1>1, <1>2, <2>1, <2>2, StoreAssumption DEF Rooms
  <2>5. Calm => Undisturbed(r, o, u)
    BY <1>1, <1>2, <1>4, <2>1, <2>2 DEF Undisturbed
  <2>6. u.at # "idle"
    BY <2>1, <2>2
  <2> QED
    BY <1>1, <1>2, <1>4, <2>3, <2>4, <2>5, <2>6, KeyMoves
<1> QED
  BY <1>3, <1>4 DEF Compare

\* The server has handled a put or a deletion, and its answer comes or is lost.
LEMMA HandledKeeps ==
    ASSUME IInv, SyncInv, NEW k \in Keys, NEW n \in Object, Handled(k, n), task[k].at \in {"put", "del"},
           n.version = remote[k].version + 1, n.time = now
    PROVE  SyncInv'
<1> DEFINE r == local[k]
           o == remote[k]
           t == task[k]
           u == [t EXCEPT !.at = "record", !.remoteVer = n.version]
<1>1. remote' = [remote EXCEPT ![k] = n] /\ remote'[k] = n /\ UNCHANGED <<local, now>>
  BY OfKey DEF Handled
<1>2. /\ r \in Row /\ o \in Object /\ t \in Task /\ Rooms(r, o, t) /\ Empty(r, o) /\ now \in Stamp
      /\ r.version \in Nat /\ o.version \in Nat
      /\ Calm => Undisturbed(r, o, t)
  BY OfBusyKey
<1>3. /\ r.version <= MaxVersion /\ o.version <= MaxVersion /\ t.recorded <= o.version
      /\ r.thetime \in Stamp /\ t.remoteTime \in Stamp /\ t.recorded \in Nat
  BY <1>2 DEF Rooms, Task
<1>4. /\ n.version \in Nat \ {0} /\ n.version <= MaxVersion + 1 /\ t.recorded <= n.version
      /\ r.version <= MaxVersion + 1 /\ r.version <= MaxVersion + 2
  BY <1>2, <1>3, StoreAssumption
<1>5. Empty(r, n)
  BY <1>2, <1>4 DEF Empty
<1>6. CASE task' = [task EXCEPT ![k].at = "record", ![k].remoteVer = n.version] /\ UNCHANGED sync
  <2>1. task' = [task EXCEPT ![k] = u]
    BY <1>6, OfKey
  <2>2. /\ u.at = "record" /\ u.remoteVer = n.version /\ u.localVer = t.localVer
        /\ u.recorded = t.recorded /\ u.remoteTime = t.remoteTime
    BY <1>2 DEF Task
  <2> HIDE DEF u
  <2>3. Rooms(r, n, u)
    BY <1>2, <1>3, <1>4, <2>2 DEF Rooms
  <2>4. Calm => Undisturbed(r, n, u)
    BY <1>2, <2>2 DEF Undisturbed
  <2> QED
    BY <1>1, <1>5, <1>6, <2>1, <2>2, <2>3, <2>4, KeyMoves
<1>7. CASE Complete(k, TRUE)
  <2>1. Rooms(r, n, NoTask)
    BY <1>2, <1>3, <1>4, EndRooms
  <2> QED
    BY <1>1, <1>5, <1>7, <2>1, KeyEnds
<1> QED
  BY <1>6, <1>7 DEF Handled

\* A put and its answer.
LEMMA PutKeeps ==
    ASSUME IInv, SyncInv, NEW k \in Keys, Put(k)
    PROVE  SyncInv'
<1>1. task[k].at = "put"
  BY DEF Put
<1>2. CASE Refused(k, TRUE)
  BY <1>1, <1>2, EndsAsItIs DEF Refused
<1>3. CASE Handled(k, PutObject(remote[k], task[k].value))
  <2>1. PICK v \in Values \cup {NoValue, Garbage} : v = task[k].value
    BY OfKey DEF Task
  <2>2. PICK n : n = PutObject(remote[k], v)
    OBVIOUS
  <2>3. n \in Object /\ n.version = remote[k].version + 1 /\ n.time = now
    BY <2>2, OfKey, NewObjects, NewDates
  <2> QED
    BY <1>1, <1>3, <2>1, <2>2, <2>3, HandledKeeps
<1> QED
  BY <1>2, <1>3 DEF Put

\* A deletion and its answer: a key that the server does not have has no value there.
LEMMA DeleteKeeps ==
    ASSUME IInv, SyncInv, NEW k \in Keys, Delete(k)
    PROVE  SyncInv'
<1> DEFINE r == local[k]
           o == remote[k]
           t == task[k]
<1>1. t.at = "del"
  BY DEF Delete
<1>2. CASE Refused(k, TRUE)
  BY <1>1, <1>2, EndsAsItIs DEF Refused
<1>3. CASE o.version = 0 /\ Refused(k, FALSE)
  <2>1. /\ r \in Row /\ o \in Object /\ t \in Task /\ Empty(r, o) /\ KeyInv(r, o, t)
        /\ Calm => Undisturbed(r, o, t)
    BY <1>1, OfBusyKey
  <2>2. Calm => r.deleted
    BY <1>1, <2>1 DEF Undisturbed, KeyInv, ComparedRow
  <2>3. Calm => SameContents(r, o)
    BY <1>3, <2>1, <2>2 DEF Empty, SameContents, Visible
  <2> QED
    BY <1>1, <1>3, <2>3, EndsAsItIs DEF Refused
<1>4. CASE Handled(k, DelObject(o))
  <2>1. PICK n : n = DelObject(o)
    OBVIOUS
  <2>2. n \in Object /\ n.version = o.version + 1 /\ n.time = now
    BY <2>1, OfKey, NewObjects, NewDates
  <2> QED
    BY <1>1, <1>4, <2>1, <2>2, HandledKeeps
<1> QED
  BY <1>2, <1>3, <1>4 DEF Delete

\* A value is fetched.
LEMMA GetKeeps ==
    ASSUME IInv, SyncInv, NEW k \in Keys, Get(k)
    PROVE  SyncInv'
<1> DEFINE r == local[k]
           o == remote[k]
           t == task[k]
           u == [t EXCEPT !.at = "apply", !.value = o.value]
<1>1. t.at = "get"
  BY DEF Get
<1>2. CASE Refused(k, TRUE)
  BY <1>1, <1>2, EndsAsItIs DEF Refused
<1>3. CASE /\ task' = [task EXCEPT ![k].at = "apply", ![k].value = o.value]
           /\ UNCHANGED <<local, remote, sync, now>>
  <2>1. /\ r \in Row /\ o \in Object /\ t \in Task /\ Rooms(r, o, t) /\ Empty(r, o)
        /\ Calm => Undisturbed(r, o, t)
    BY <1>1, OfBusyKey
  <2>2. task' = [task EXCEPT ![k] = u]
    BY <1>3, OfKey
  <2>3. /\ u.at = "apply" /\ u.remoteVer = t.remoteVer /\ u.localVer = t.localVer
        /\ u.recorded = t.recorded /\ u.remoteTime = t.remoteTime
    BY <2>1 DEF Task
  <2> HIDE DEF u
  <2>4. Rooms(r, o, u)
    BY <1>1, <2>1, <2>3 DEF Rooms
  <2>5. Calm => Undisturbed(r, o, u)
    BY <1>1, <2>1, <2>3 DEF Undisturbed
  <2> QED
    BY <1>1, <1>3, <2>1, <2>2, <2>3, <2>4, <2>5, KeyMoves
<1> QED
  BY <1>2, <1>3 DEF Get

\* What came from the server is stored.
LEMMA StoredKeeps ==
    ASSUME IInv, SyncInv, NEW k \in Keys, NEW s \in Row, Stored(k, s), UNCHANGED <<remote, now>>,
           task[k].at \in {"apply", "remove"},
           s.version = local[k].version + 1, s.thetime = now
    PROVE  SyncInv'
<1> DEFINE r == local[k]
           o == remote[k]
           t == task[k]
           u == [t EXCEPT !.at = "record", !.localVer = s.version]
<1>1. local' = [local EXCEPT ![k] = s] /\ local'[k] = s /\ UNCHANGED sync
  BY OfKey DEF Stored
<1>2. task' = [task EXCEPT ![k] = u]
  BY OfKey DEF Stored
<1>3. /\ r \in Row /\ o \in Object /\ t \in Task /\ Rooms(r, o, t) /\ Empty(r, o) /\ now \in Stamp
      /\ r.version \in Nat
      /\ Calm => Undisturbed(r, o, t)
  BY OfBusyKey
<1>4. /\ u.at = "record" /\ u.remoteVer = t.remoteVer /\ u.localVer = s.version
      /\ u.recorded = t.recorded /\ u.remoteTime = t.remoteTime
  BY <1>3 DEF Task
<1> HIDE DEF u
<1>5. s.version \in Nat \ {0} /\ s.version <= MaxVersion + 1 /\ s.version <= MaxVersion + 2
  BY <1>3, StoreAssumption DEF Rooms
<1>6. Rooms(s, o, u)
  BY <1>3, <1>4, <1>5 DEF Rooms
<1>7. Empty(s, o) /\ (Calm => Undisturbed(s, o, u))
  BY <1>3, <1>4, <1>5 DEF Empty, Undisturbed
<1> QED
  BY <1>1, <1>2, <1>4, <1>6, <1>7, KeyMoves

\* A remote value is stored, refused by the optimistic lock, or cannot be decrypted.
LEMMA ApplyKeeps ==
    ASSUME IInv, SyncInv, NEW k \in Keys, Apply(k)
    PROVE  SyncInv'
<1> DEFINE r == local[k]
           o == remote[k]
           t == task[k]
<1>1. t.at = "apply" /\ UNCHANGED <<remote, now>>
  BY DEF Apply
<1>2. /\ r \in Row /\ o \in Object /\ t \in Task /\ Rooms(r, o, t) /\ Empty(r, o) /\ now \in Stamp
      /\ r.version \in Nat /\ t.value \in Values \cup {NoValue, Garbage} /\ now \in Int
  BY <1>1, OfBusyKey, OfKey DEF Task
<1>3. CASE Stored(k, SetRow(r, t.value))
  <2>1. PICK s : s = SetRow(r, t.value)
    OBVIOUS
  <2>2. s \in Row /\ s.version = r.version + 1 /\ s.thetime = now
    BY <1>2, <2>1, NewRows, NewDates
  <2> QED
    BY <1>1, <1>3, <2>1, <2>2, StoredKeeps
<1>4. CASE Complete(k, TRUE) /\ UNCHANGED local
  BY <1>1, <1>4, EndsAsItIs
<1>5. CASE Complete(k, TRUE) /\ local' = [local EXCEPT ![k] = DelRow(@)]
  <2>1. PICK s : s = DelRow(r)
    OBVIOUS
  <2>2. s \in Row /\ s.version = r.version + 1 /\ s.thetime = now
    BY <1>2, <2>1, NewRows, NewDates
  <2>3. local' = [local EXCEPT ![k] = s] /\ local'[k] = s
    BY <1>5, <2>1, OfKey
  <2>4. s.version \in Nat \ {0} /\ s.version <= MaxVersion + 2
    BY <1>1, <1>2, <2>2, StoreAssumption DEF Rooms
  <2>5. Rooms(s, o, NoTask)
    BY <1>2, <2>2, <2>4, EndRooms DEF Rooms
  <2>6. Empty(s, o)
    BY <1>2, <2>4 DEF Empty
  <2> QED
    BY <1>1, <1>5, <2>3, <2>5, <2>6, KeyEnds
<1> QED
  BY <1>3, <1>4, <1>5 DEF Apply

\* A remote deletion is stored, refused by the optimistic lock, or of a key that is not here.
LEMMA RemoveKeeps ==
    ASSUME IInv, SyncInv, NEW k \in Keys, Remove(k)
    PROVE  SyncInv'
<1> DEFINE r == local[k]
           o == remote[k]
           t == task[k]
<1>1. t.at = "remove" /\ UNCHANGED <<remote, now>>
  BY DEF Remove
<1>2. /\ r \in Row /\ o \in Object /\ t \in Task /\ Empty(r, o) /\ KeyInv(r, o, t) /\ now \in Int
      /\ Calm => Undisturbed(r, o, t)
  BY <1>1, OfBusyKey, OfKey
<1>3. CASE Stored(k, DelRow(r))
  <2>1. PICK s : s = DelRow(r)
    OBVIOUS
  <2>2. s \in Row /\ s.version = r.version + 1 /\ s.thetime = now
    BY <1>2, <2>1, NewRows, NewDates
  <2> QED
    BY <1>1, <1>3, <2>1, <2>2, StoredKeeps
<1>4. CASE Complete(k, TRUE) /\ UNCHANGED local
  BY <1>1, <1>4, EndsAsItIs
<1>5. CASE t.localVer = 0 /\ Complete(k, FALSE) /\ UNCHANGED local
  <2>1. Calm => r.version = 0 /\ t.remoteVer = o.version
    BY <1>1, <1>2, <1>5 DEF Undisturbed
  <2>2. Calm => o.deleted
    BY <1>1, <1>2, <2>1 DEF KeyInv, RemovesTombstone, SeenTombstone
  <2>3. Calm => SameContents(r, o)
    BY <1>2, <2>1, <2>2 DEF Empty, SameContents, Visible
  <2> QED
    BY <1>1, <1>5, <2>3, EndsAsItIs
<1> QED
  BY <1>3, <1>4, <1>5 DEF Remove

\* The remote version is recorded, or refused by the optimistic lock.
LEMMA RecordKeeps ==
    ASSUME IInv, SyncInv, NEW k \in Keys, Record(k)
    PROVE  SyncInv'
<1> DEFINE r == local[k]
           o == remote[k]
           t == task[k]
<1>1. t.at = "record" /\ UNCHANGED <<remote, now>>
  BY DEF Record
<1>2. /\ r \in Row /\ o \in Object /\ t \in Task /\ Rooms(r, o, t) /\ Empty(r, o) /\ KeyInv(r, o, t)
      /\ r.version \in Nat /\ now \in Stamp /\ now \in Int /\ t.remoteVer \in Nat
      /\ Calm => Undisturbed(r, o, t)
  BY <1>1, OfBusyKey, OfKey DEF Task
<1>3. CASE local' = [local EXCEPT ![k] = RecordedRow(@, t.remoteVer)] /\ Complete(k, FALSE)
  <2>1. PICK s : s = RecordedRow(r, t.remoteVer)
    OBVIOUS
  <2>2. /\ s \in Row /\ s.version = r.version + 1 /\ s.thetime = now
        /\ s.value = r.value /\ s.deleted = r.deleted
    <3>1. PICK m \in Nat : m = t.remoteVer
      BY <1>2
    <3>2. /\ RecordedRow(r, m) \in Row /\ RecordedRow(r, m).version = r.version + 1
          /\ RecordedRow(r, m).value = r.value /\ RecordedRow(r, m).deleted = r.deleted
      BY <1>2, NewRows
    <3>3. RecordedRow(r, m).thetime = now
      BY <1>2, NewDates
    <3> QED
      BY <2>1, <3>1, <3>2, <3>3
  <2>3. local' = [local EXCEPT ![k] = s] /\ local'[k] = s
    BY <1>3, <2>1, OfKey
  <2>4. s.version \in Nat \ {0} /\ s.version <= MaxVersion + 2
    BY <1>1, <1>2, <2>2, StoreAssumption DEF Rooms
  <2>5. Rooms(s, o, NoTask)
    BY <1>2, <2>2, <2>4, EndRooms DEF Rooms
  <2>6. Empty(s, o)
    BY <1>2, <2>4 DEF Empty
  <2>7. Calm => SameContents(s, o)
    <3>1. Calm => SameContents(r, o)
      BY <1>1, <1>2 DEF Undisturbed, KeyInv, RecordsEqual
    <3> QED
      BY <2>2, <3>1 DEF SameContents, Visible
  <2> QED
    BY <1>1, <1>3, <2>3, <2>5, <2>6, <2>7, KeyEnds
<1>4. CASE Complete(k, TRUE) /\ UNCHANGED local
  BY <1>1, <1>4, EndsAsItIs
<1> QED
  BY <1>3, <1>4 DEF Record

-----------------------------------------------------------------------------
(* The invariant of the sync holds. *)

\* Before the first sync nothing is there.
LEMMA InitSyncInv == Init => SyncInv
<1> SUFFICES ASSUME Init
             PROVE  SyncInv
  OBVIOUS
<1>1. SyncType /\ Scope /\ SyncedAgree
  BY DEF Init, NoSync, SyncType, Scope, SyncedAgree
<1>2. now \in Stamp /\ 0 \in Stamp
  BY StoreAssumption DEF Init, Stamp
<1>3. KeySync(NoRow, NoObject, NoTask, Calm, "none")
  <2>1. Rooms(NoRow, NoObject, NoTask)
    BY <1>2, StoreAssumption DEF Rooms, NoRow, NoObject, NoTask
  <2> QED
    BY <2>1 DEF KeySync, Empty, NoRow, NoObject, NoTask
<1>4. ASSUME NEW k \in Keys
      PROVE  KeySync(local[k], remote[k], task[k], Calm, sync.phase)
  BY <1>3 DEF Init, NoSync
<1> QED
  BY <1>1, <1>2, <1>4 DEF SyncInv

\* Every step keeps it.
LEMMA NextSyncInv ==
    ASSUME IInv, SyncInv, [Next]_vars
    PROVE  SyncInv'
<1>1. CASE UNCHANGED vars \/ Tick
  BY <1>1, TimePasses
<1>2. CASE SyncAllKeys
  BY <1>2, SyncAllKeysKeeps
<1>3. CASE KeysAnswered
  BY <1>3, KeysAnsweredKeeps
<1>4. CASE FinishAll
  BY <1>4, FinishAllKeeps
<1>5. ASSUME NEW k \in Keys, (\E v \in Values : Set(k, v)) \/ Del(k)
      PROVE  SyncInv'
  BY <1>5, SetDelKeeps
<1>6. ASSUME NEW k \in Keys, OtherDevice(k)
      PROVE  SyncInv'
  BY <1>6, OtherDeviceKeeps
<1>7. ASSUME NEW k \in Keys, SyncKey(k)
      PROVE  SyncInv'
  BY <1>7, SyncKeySync
<1>8. ASSUME NEW k \in Keys, SyncStep(k)
      PROVE  SyncInv'
  <2>1. CASE VerAnswered(k)
    BY <2>1, VerAnsweredKeeps
  <2>2. CASE ReadRemoteVersion(k)
    BY <2>2, ReadRemoteVersionKeeps
  <2>3. CASE DatabaseFails(k)
    BY <2>3, DatabaseFailsKeeps
  <2>4. CASE Compare(k)
    BY <2>4, CompareKeeps
  <2>5. CASE Put(k)
    BY <2>5, PutKeeps
  <2>6. CASE Delete(k)
    BY <2>6, DeleteKeeps
  <2>7. CASE Get(k)
    BY <2>7, GetKeeps
  <2>8. CASE Apply(k)
    BY <2>8, ApplyKeeps
  <2>9. CASE Remove(k)
    BY <2>9, RemoveKeeps
  <2>10. CASE Record(k)
    BY <2>10, RecordKeeps
  <2> QED
    BY <1>8, <2>1, <2>2, <2>3, <2>4, <2>5, <2>6, <2>7, <2>8, <2>9, <2>10 DEF SyncStep
<1> QED
  BY <1>1, <1>2, <1>3, <1>4, <1>5, <1>6, <1>7, <1>8 DEF Next

\* It holds in every state of a behaviour.
LEMMA SyncInvariance == Spec => []SyncInv
<1>1. Init => SyncInv
  BY InitSyncInv
<1>2. IInv /\ SyncInv /\ [Next]_vars => SyncInv'
  BY NextSyncInv
<1> QED
  BY <1>1, <1>2, Invariance, PTL DEF Spec

(***************************************************************************)
(* The rows, the server's objects, the tasks and the sync keep their       *)
(* types, and versions their bound: a sync that begins where there is room *)
(* adds at most two rows to a key and one version to its object.           *)
(***************************************************************************)
THEOREM TypeCorrect == Spec => []TypeOK
<1>1. IInv /\ SyncInv => TypeOK
  <2> SUFFICES ASSUME IInv, SyncInv
               PROVE  TypeOK
    OBVIOUS
  <2>1. ASSUME NEW k \in Keys
        PROVE  /\ local[k] \in [version : Version, remote_version : Version, value : Content,
                                thetime : Stamp, deleted : BOOLEAN]
               /\ remote[k] \in [version : Version, time : Stamp, value : Content, deleted : BOOLEAN]
               /\ task[k] \in
                     [at : At, remoteVer : Version, remoteTime : Stamp,
                      remoteErr : {"none", "tombstone", "notFound", "unknown"},
                      recorded : Version, localVer : Version, value : Content]
    <3> DEFINE r == local[k]
               o == remote[k]
               t == task[k]
    <3>1. r \in Row /\ o \in Object /\ t \in Task /\ KeyInv(r, o, t)
      BY OfKey
    <3>2. Rooms(r, o, t)
      BY DEF SyncInv, KeySync
    <3> HIDE DEF r, o, t
    <3>3. /\ r.version \in Nat /\ o.version \in Nat /\ r.remote_version \in Nat
          /\ t.remoteVer \in Nat /\ t.localVer \in Nat /\ t.recorded \in Nat
      BY <3>1 DEF Row, Object, Task
    <3>4. /\ r.version \in Version /\ o.version \in Version /\ r.remote_version \in Version
          /\ t.remoteVer \in Version /\ t.localVer \in Version /\ t.recorded \in Version
      BY <3>1, <3>2, <3>3, StoreAssumption DEF KeyInv, NotAhead, Rooms, Version
    <3>5. r.thetime \in Stamp /\ o.time \in Stamp /\ t.remoteTime \in Stamp
      BY <3>2 DEF Rooms
    <3>6. r \in [version : Version, remote_version : Version, value : Content,
                 thetime : Stamp, deleted : BOOLEAN]
      BY <3>1, <3>4, <3>5 DEF Row, Content
    <3>7. o \in [version : Version, time : Stamp, value : Content, deleted : BOOLEAN]
      BY <3>1, <3>4, <3>5 DEF Object, Content
    <3>8. t \in [at : At, remoteVer : Version, remoteTime : Stamp,
                 remoteErr : {"none", "tombstone", "notFound", "unknown"},
                 recorded : Version, localVer : Version, value : Content]
      BY <3>1, <3>4, <3>5 DEF Task, Content
    <3> QED
      BY <3>6, <3>7, <3>8 DEF r, o, t
  <2>2. /\ DOMAIN local = Keys /\ local = [k \in Keys |-> local[k]]
        /\ DOMAIN remote = Keys /\ remote = [k \in Keys |-> remote[k]]
        /\ DOMAIN task = Keys /\ task = [k \in Keys |-> task[k]]
    BY DEF IInv, Typed
  <2> QED
    BY <2>1, <2>2 DEF TypeOK, SyncInv, SyncType, At
<1> QED
  BY <1>1, Invariance, SyncInvariance, PTL

(***************************************************************************)
(* "XCTAssertDatabasesAreSynced": a sync that reports no error, and during *)
(* which nobody else wrote, leaves its keys with the same contents on both *)
(* sides, whatever was there before it, whatever clocks said, and whether  *)
(* it was of all keys or of one.                                           *)
(***************************************************************************)
THEOREM SyncSound == Spec => []SyncedAgree
<1>1. SyncInv => SyncedAgree
  BY DEF SyncInv
<1> QED
  BY <1>1, SyncInvariance, PTL
=============================================================================
