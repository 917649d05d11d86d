------------------------- MODULE BRReplicatedKVStore -------------------------
(***************************************************************************)
(* The replicated key-value store                                          *)
(* (bitcorewallet/src/Platform/BRReplicatedKVStore.swift): a local table   *)
(* of versioned rows under optimistic locking, and the syncs that bring it *)
(* and a remote store to the same contents, last write wins.               *)
(*                                                                         *)
(* A step is one transaction of the local database, one request that the   *)
(* server handles, or one completion: between two of them the app and the  *)
(* wallet's other devices may write.  Of a key's rows only the newest is   *)
(* kept here.  The remote store is modelled after the adaptor of           *)
(* bitcorewalletTests/BRReplicatedKVStoreTests.swift, and the dates it     *)
(* sends after BRAPIClient+KV.swift.  All clocks agree.                    *)
(***************************************************************************)
EXTENDS Integers, FiniteSets

CONSTANTS
    Keys,
    Values,
    NoValue,
    Garbage,       \* what another device stored and decrypt() refuses, or NoValue if none does
    MaxParallel,   \* 10: value of the semaphore of syncAllKeys
    Second,        \* ticks of the clock per second
    MaxTime,       \* bound: the clock
    MaxVersion,    \* bound: versions of a key, here and on the server
    DbFails        \* may the database fail?

ASSUME StoreAssumption ==
    /\ NoValue \notin Values /\ Garbage \notin Values
    /\ MaxParallel \in Nat \ {0} /\ Second \in Nat \ {0}
    /\ MaxTime \in Nat /\ Second <= MaxTime /\ MaxVersion \in Nat
    /\ DbFails \in BOOLEAN

VARIABLES
    local,     \* the newest row of each key in the table kvstore, version 0 if there is none
    remote,    \* each key on the server, version 0 if it does not exist
    task,      \* where the sync of each key is, see NoTask
    sync,      \* the sync: phase is "none" unless syncRunning
    now        \* the time, in ticks

vars == <<local, remote, task, sync, now>>

NoRow == [version |-> 0, remote_version |-> 0, value |-> NoValue, thetime |-> 0, deleted |-> FALSE]

NoObject == [version |-> 0, time |-> 0, value |-> NoValue, deleted |-> FALSE]

(***************************************************************************)
(* "ver", "put", "del" and "get": a request is under way.  "queued":       *)
(* _syncKey is to run with what the server said of the key.  "compare": it *)
(* has read the recorded remote version.  "remove" and "apply": a deletion *)
(* or a new value is to be stored.  "record": the remote version is.       *)
(***************************************************************************)
NoTask ==
    [at |-> "idle",
     remoteVer |-> 0, remoteTime |-> 0, remoteErr |-> "none",
     recorded |-> 0,           \* recordedRemoteVersion
     localVer |-> 0,
     value |-> NoValue]        \* the value that is sent or has come

NoSync ==
    [phase |-> "none",         \* "keys": remote.keys is under way; "all" or "one": keys are syncing
     failed |-> FALSE,         \* failures > 0, or the error given to the completion handler
     scope |-> {},             \* the keys this sync, or else the last one, was about
     quiet |-> FALSE]          \* nobody else has written since it began

Init ==
    /\ local = [k \in Keys |-> NoRow]
    /\ remote = [k \in Keys |-> NoObject]
    /\ task = [k \in Keys |-> NoTask]
    /\ sync = NoSync
    /\ now = Second

Tick ==
    /\ now < MaxTime
    /\ now' = now + 1
    /\ UNCHANGED <<local, remote, task, sync>>

-----------------------------------------------------------------------------
(* The local table.  Every change adds a row. *)

\* Mutant: the new row keeps the remote version of the one before.
SetRowKeeps(row, v) ==
    [row EXCEPT !.version = @ + 1, !.value = v, !.thetime = now, !.deleted = FALSE]

\* _set, once the version is known to be current.
SetRow(row, v) ==
    [version |-> row.version + 1, remote_version |-> 0, value |-> v, thetime |-> now, deleted |-> FALSE]

\* _del: the value stays.
DelRow(row) ==
    [row EXCEPT !.version = @ + 1, !.remote_version = 0, !.thetime = now, !.deleted = TRUE]

\* setRemoteVersion: a new version of the row, as of now.
RecordedRow(row, remoteVer) ==
    [row EXCEPT !.version = @ + 1, !.remote_version = remoteVer, !.thetime = now]

Write(k, row) ==
    /\ local[k].version < MaxVersion
    /\ local' = [local EXCEPT ![k] = row]
    /\ sync' = [sync EXCEPT !.quiet = FALSE]
    /\ UNCHANGED <<remote, task, now>>

\* set() with the current version; with any other it throws a conflict.
Set(k, v) == Write(k, SetRow(local[k], v))

\* del()
Del(k) == local[k].version # 0 /\ Write(k, DelRow(local[k]))

-----------------------------------------------------------------------------
(* The server, and the other devices that use it. *)

PutObject(obj, v) == [version |-> obj.version + 1, time |-> now, value |-> v, deleted |-> FALSE]

DelObject(obj) == [obj EXCEPT !.version = @ + 1, !.time = now, !.deleted = TRUE]

OtherDevice(k) ==
    /\ remote[k].version < MaxVersion
    /\ \/ \E v \in Values \cup ({Garbage} \ {NoValue}) :
             remote' = [remote EXCEPT ![k] = PutObject(@, v)]
       \/ /\ remote[k].version # 0
          /\ remote' = [remote EXCEPT ![k] = DelObject(@)]
    /\ sync' = [sync EXCEPT !.quiet = FALSE]
    /\ UNCHANGED <<local, task, now>>

\* The server accepts a put of the version it has; a key it has not is created as version 1.
Accepts(k, version) ==
    IF remote[k].version = 0 THEN version = 1 ELSE version = remote[k].version

-----------------------------------------------------------------------------
(* A sync begins. *)

HasRoom == \A k \in Keys : local[k].version <= MaxVersion /\ remote[k].version <= MaxVersion

Begin(phase, keys) == [phase |-> phase, failed |-> FALSE, scope |-> keys, quiet |-> TRUE]

\* syncAllKeys, unless a sync is running.
SyncAllKeys ==
    /\ sync.phase = "none" /\ HasRoom
    /\ sync' = Begin("keys", Keys)
    /\ UNCHANGED <<local, remote, task, now>>

\* syncKey, unless a sync is running.
SyncKey(k) ==
    /\ sync.phase = "none" /\ HasRoom
    /\ sync' = Begin("one", {k})
    /\ task' = [task EXCEPT ![k] = [NoTask EXCEPT !.at = "ver"]]
    /\ UNCHANGED <<local, remote, now>>

Queued(obj, time) ==
    [NoTask EXCEPT !.at = "queued", !.remoteVer = obj.version, !.remoteTime = time,
                   !.remoteErr = IF obj.deleted THEN "tombstone" ELSE "none"]

\* The answer to remote.keys: each key that the server or the table has is queued, with the version
\* and the time of the server or, if it has none, with zeros.
KeysAnswered ==
    /\ sync.phase = "keys"
    /\ \/ /\ sync' = [sync EXCEPT !.phase = "all"]
          /\ task' = [k \in Keys |->
                         IF remote[k].version # 0 \/ local[k].version # 0
                            THEN Queued(remote[k], remote[k].time) ELSE NoTask]
       \/ /\ sync' = [sync EXCEPT !.phase = "none", !.failed = TRUE]
          /\ UNCHANGED task
    /\ UNCHANGED <<local, remote, now>>

\* Mutant: rounded up.
RFC1123Up(t) == t + Second - (t % Second)

\* A Last-Modified header tells whole seconds.
RFC1123(t) == t - (t % Second)

\* The answer to remote.ver.  A key that does not exist is dated now.
VerAnswered(k) ==
    /\ task[k].at = "ver"
    /\ \E err \in {"none", "unknown"} :
          task' = [task EXCEPT ![k] =
              IF err = "unknown"
                 THEN [NoTask EXCEPT !.at = "queued", !.remoteErr = "unknown"]
                 ELSE IF remote[k].version = 0
                 THEN [NoTask EXCEPT !.at = "queued", !.remoteTime = RFC1123(now), !.remoteErr = "notFound"]
                 ELSE Queued(remote[k], RFC1123(remote[k].time))]
    /\ UNCHANGED <<local, remote, sync, now>>

-----------------------------------------------------------------------------
(* _syncKey *)

\* The completion handler is called with or without an error.
Complete(k, err) ==
    /\ task' = [task EXCEPT ![k] = NoTask]
    /\ sync' = [sync EXCEPT !.failed = @ \/ err, !.phase = IF @ = "one" THEN "none" ELSE @]

Active == {k \in Keys : task[k].at \notin {"idle", "queued"}}

\* Mutant: a recorded version that is not older than the server's will do.
UpToDateIfNewer(t, row) == t.remoteErr # "notFound" /\ t.remoteVer > 0 /\ row.remote_version <= t.remoteVer

\* "one optimization is we keep the remote version on the most recent local version, if they match,
\* there is nothing to do"
UpToDate(t, row) == t.remoteErr # "notFound" /\ t.remoteVer > 0 /\ row.remote_version = t.remoteVer

\* Once the semaphore lets it: remoteVersion(key) is read.
ReadRemoteVersion(k) ==
    /\ task[k].at = "queued"
    /\ Cardinality(Active) < MaxParallel
    /\ \/ UpToDate(task[k], local[k]) /\ Complete(k, FALSE)
       \/ /\ ~UpToDate(task[k], local[k])
          /\ task' = [task EXCEPT ![k].at = "compare", ![k].recorded = local[k].remote_version]
          /\ UNCHANGED sync
    /\ UNCHANGED <<local, remote, now>>

\* Mutant: the key is never taken out of the group of syncAllKeys.
ThrownInGroup(k) ==
    /\ task' = [task EXCEPT ![k] = [NoTask EXCEPT !.at = "lost"]]
    /\ sync' = [sync EXCEPT !.failed = @ \/ sync.phase = "all"]

\* _syncKey throws: syncAllKeys counts a failure, and in syncKey nobody hears of it.
Thrown(k) ==
    /\ task' = [task EXCEPT ![k] = NoTask]
    /\ sync' = [sync EXCEPT !.failed = @ \/ sync.phase = "all"]

\* The database fails: _syncKey throws, unless it is past its first two transactions.
DatabaseFails(k) ==
    /\ DbFails
    /\ \/ task[k].at \in {"queued", "compare"} /\ Thrown(k)
       \/ task[k].at \in {"apply", "remove", "record"} /\ Complete(k, TRUE)
    /\ UNCHANGED <<local, remote, now>>

\* "local is newer (or a tiebreaker)"
LocalIsNewer(row, t) == row.thetime >= t.remoteTime

\* The next step of _syncKey for the task t, after get(key) has read the row.
Strategy(row, t) ==
    CASE row.deleted /\ t.remoteErr = "tombstone"       -> "record"
      [] row.deleted /\ t.remoteErr # "tombstone" /\ LocalIsNewer(row, t) -> "del"
      [] ~row.deleted /\ LocalIsNewer(row, t)           -> "put"
      [] ~row.deleted /\ t.remoteErr = "tombstone" /\ ~LocalIsNewer(row, t) -> "remove"
      [] OTHER                                          -> "get"

Compare(k) ==
    LET t   == task[k]
        row == local[k]
    IN  /\ t.at = "compare"
        /\ \/ t.remoteErr = "unknown" /\ Complete(k, TRUE)
           \/ /\ t.remoteErr # "unknown"
              /\ task' = [task EXCEPT ![k] = [t EXCEPT !.at = Strategy(row, t),
                             !.localVer = row.version, !.value = row.value]]
              /\ UNCHANGED sync
        /\ UNCHANGED <<local, remote, now>>

\* "set the remote version to "1" to create the key on the server"
UseRemoteVer(t) == IF t.remoteVer = 0 \/ t.remoteVer < t.recorded THEN 1 ELSE t.remoteVer

\* A request changes the key on the server, and its answer comes or is lost.
Handled(k, object) ==
    /\ remote' = [remote EXCEPT ![k] = object]
    /\ \/ /\ task' = [task EXCEPT ![k].at = "record", ![k].remoteVer = object.version]
          /\ UNCHANGED sync
       \/ Complete(k, TRUE)
    /\ UNCHANGED <<local, now>>

\* It fails, or is lost on the way.
Refused(k, err) ==
    /\ Complete(k, err)
    /\ UNCHANGED <<local, remote, now>>

Put(k) ==
    /\ task[k].at = "put"
    /\ \/ Accepts(k, UseRemoteVer(task[k])) /\ Handled(k, PutObject(remote[k], task[k].value))
       \/ Refused(k, TRUE)

\* A key that the server does not have counts as deleted.
Delete(k) ==
    /\ task[k].at = "del"
    /\ \/ /\ remote[k].version # 0 /\ task[k].remoteVer = remote[k].version
          /\ Handled(k, DelObject(remote[k]))
       \/ remote[k].version = 0 /\ Refused(k, FALSE)
       \/ Refused(k, TRUE)

Get(k) ==
    /\ task[k].at = "get"
    /\ \/ /\ remote[k].version # 0 /\ task[k].remoteVer = remote[k].version /\ ~remote[k].deleted
          /\ task' = [task EXCEPT ![k].at = "apply", ![k].value = remote[k].value]
          /\ UNCHANGED <<local, remote, sync, now>>
       \/ Refused(k, TRUE)

\* Mutant: the version is not compared with the one that was read.
CurrentAlways(k) == TRUE

\* The optimistic lock of _set, _del and setRemoteVersion.
Current(k) == local[k].version = task[k].localVer

Stored(k, row) ==
    /\ local' = [local EXCEPT ![k] = row]
    /\ task' = [task EXCEPT ![k].at = "record", ![k].localVer = row.version]
    /\ UNCHANGED sync

\* The remote value is stored with _set; one that cannot be decrypted deletes the local one.
Apply(k) ==
    LET v == task[k].value
    IN  /\ task[k].at = "apply"
        /\ \/ v # Garbage /\ Current(k) /\ Stored(k, SetRow(local[k], v))
           \/ v # Garbage /\ ~Current(k) /\ Complete(k, TRUE) /\ UNCHANGED local
           \/ /\ v = Garbage /\ Complete(k, TRUE)
              /\ IF Current(k) /\ task[k].localVer # 0
                    THEN local' = [local EXCEPT ![k] = DelRow(@)] ELSE UNCHANGED local
        /\ UNCHANGED <<remote, now>>

\* The remote deletion is stored with _del; a key that is not there is deleted already.
Remove(k) ==
    /\ task[k].at = "remove"
    /\ \/ task[k].localVer # 0 /\ Current(k) /\ Stored(k, DelRow(local[k]))
       \/ task[k].localVer # 0 /\ ~Current(k) /\ Complete(k, TRUE) /\ UNCHANGED local
       \/ task[k].localVer = 0 /\ Complete(k, FALSE) /\ UNCHANGED local
    /\ UNCHANGED <<remote, now>>

\* setRemoteVersion
Record(k) ==
    /\ task[k].at = "record"
    /\ \/ /\ task[k].localVer # 0 /\ Current(k)
          /\ local' = [local EXCEPT ![k] = RecordedRow(@, task[k].remoteVer)]
          /\ Complete(k, FALSE)
       \/ /\ task[k].localVer = 0 \/ ~Current(k)
          /\ Complete(k, TRUE)
          /\ UNCHANGED local
    /\ UNCHANGED <<remote, now>>

\* The end of syncAllKeys, when the group of keys is empty.
FinishAll ==
    /\ sync.phase = "all"
    /\ \A k \in Keys : task[k].at = "idle"
    /\ sync' = [sync EXCEPT !.phase = "none"]
    /\ UNCHANGED <<local, remote, task, now>>

-----------------------------------------------------------------------------

SyncStep(k) ==
    \/ VerAnswered(k) \/ ReadRemoteVersion(k) \/ DatabaseFails(k) \/ Compare(k)
    \/ Put(k) \/ Delete(k) \/ Get(k) \/ Apply(k) \/ Remove(k) \/ Record(k)

Next ==
    \/ Tick
    \/ SyncAllKeys \/ KeysAnswered \/ FinishAll
    \/ \E k \in Keys :
          \/ \E v \in Values : Set(k, v)
          \/ Del(k) \/ OtherDevice(k) \/ SyncKey(k) \/ SyncStep(k)

\* Requests are answered or time out, and queues run what is put on them.
Fairness ==
    /\ WF_vars(KeysAnswered) /\ WF_vars(FinishAll)
    /\ \A k \in Keys : WF_vars(SyncStep(k))

Spec == Init /\ [][Next]_vars /\ Fairness

-----------------------------------------------------------------------------

Version == 0..(MaxVersion + 2)

Stamp == 0..MaxTime

Content == Values \cup {NoValue, Garbage}

TypeOK ==
    /\ local \in [Keys -> [version : Version, remote_version : Version, value : Content,
                           thetime : Stamp, deleted : BOOLEAN]]
    /\ remote \in [Keys -> [version : Version, time : Stamp, value : Content, deleted : BOOLEAN]]
    /\ task \in [Keys ->
           [at : {"idle", "ver", "queued", "compare", "put", "del", "get", "apply", "remove", "record"},
            remoteVer : Version, remoteTime : Stamp,
            remoteErr : {"none", "tombstone", "notFound", "unknown"},
            recorded : Version, localVer : Version, value : Content]]
    /\ sync \in [phase : {"none", "keys", "all", "one"}, failed : BOOLEAN,
                 scope : SUBSET Keys, quiet : BOOLEAN]
    /\ now \in Stamp

\* What a reader finds in the two stores under k: a deleted key is not there.
Visible(c) == IF c.deleted THEN NoValue ELSE c.value

Agree(k) == Visible(local[k]) = Visible(remote[k])

(***************************************************************************)
(* The optimization of _syncKey is sound: a row that carries the server's  *)
(* current version has what the server has, whatever the app and the other *)
(* devices wrote while the remote version was on its way to the table.     *)
(***************************************************************************)
RecordedIsRemote ==
    \A k \in Keys :
        local[k].remote_version # 0 /\ local[k].remote_version = remote[k].version => Agree(k)

(***************************************************************************)
(* XCTAssertDatabasesAreSynced of the tests, for every history: a sync     *)
(* that reports no error, and in the course of which nobody else wrote,    *)
(* leaves its keys with the same contents on both sides, deletions         *)
(* included.                                                               *)
(***************************************************************************)
SyncedAgree ==
    sync.phase = "none" /\ sync.quiet /\ ~sync.failed => \A k \in sync.scope : Agree(k)

(***************************************************************************)
(* A sync replaces a local value only by one that the server got later:    *)
(* what the app writes while the answer is on its way is not overwritten.  *)
(***************************************************************************)
LocalWriteKept ==
    [][\A k \in Keys :
          task[k].at \in {"apply", "remove"} /\ task'[k] # task[k] /\ Visible(local'[k]) # Visible(local[k])
              => local[k].thetime < task[k].remoteTime]_vars

\* syncAllKeys ends and resets syncRunning, whatever the server and the database refuse: every key
\* leaves the group, and gives the semaphore back to the next.
SyncAllEnds == sync.phase \in {"keys", "all"} ~> sync.phase = "none"

-----------------------------------------------------------------------------
(* What comments of the code say, and the code does not do. *)

\* "only one sync can run at a time": so each of them must end, or there is none any more.
SyncEnds == sync.phase # "none" ~> sync.phase = "none"

\* "takes the value and current remote version (zero if creating)", "this is our lock": a put
\* replaces only the version that the local row was compared with.
SeenBeforeReplaced ==
    [][\A k \in Keys : task[k].at = "put" /\ remote'[k] # remote[k]
                          => remote[k].version = task[k].remoteVer]_vars
=============================================================================
