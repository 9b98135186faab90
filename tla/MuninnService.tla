--------------------------- MODULE MuninnService ---------------------------
(***************************************************************************)
(* Muninn in serve mode: the main thread, which bootstraps the store and   *)
(* then runs the watch loop, and the websocket I/O threads, which run      *)
(* remote create, update and delete commands, all on one LmdbStore.        *)
(*                                                                         *)
(* A capture is several store calls of its own: scan and build, read the   *)
(* base snapshot, store the result, apply retention.  Remote captures hold *)
(* pipeline_mutex_ up to the store call; the watch loop has a pipeline of  *)
(* its own and takes no lock, delete takes none either.  Between two store *)
(* calls of one thread any call of another thread can happen.              *)
(*                                                                         *)
(* Commands with an acknowledgement and the outbox reads are modelled by   *)
(* module MuninnBridge; nothing in serve mode calls compaction.            *)
(***************************************************************************)
EXTENDS LmdbStore

CONSTANTS
  Watch,          \* the main thread
  Workers,        \* I/O threads running remote commands; {} when
                  \* allow_remote_mutating_commands is off (the default)
  Contents,       \* states of the watched tree
  ContentOf,      \* what a snapshot captured
  KeepLatest,     \* retention_keep_latest_snapshots, 0 when not configured
  MaxTime,        \* bound: seconds that pass
  MaxCrashes,     \* bound: crashes of the process
  MaxFailures,    \* bound: retention cleanups that fail in a row
  MaxEvents       \* bound: the three of them together

Threads == Workers \cup {Watch}

Captures(time, content) ==
  {id \in SnapshotIds : CreatedAt[id] = time /\ ContentOf[id] = content}

ASSUME ServiceAssumption ==
  /\ Watch \notin Workers /\ IsFiniteSet(Workers)
  /\ ContentOf \in [SnapshotIds -> Contents]
  /\ KeepLatest \in 0..MaxKeep
  /\ MaxTime \in Nat
  /\ MaxCrashes \in Nat
  /\ MaxFailures \in Nat /\ MaxEvents \in Nat
  /\ \A time \in 0..MaxTime, content \in Contents : Captures(time, content) # {}
  /\ DeltaPairs = SnapshotIds \X SnapshotIds

\* The snapshot id is a hash of the capture time and the entries.
SnapshotOf(time, content) == CHOOSE id \in Captures(time, content) : TRUE

VARIABLES
  now,            \* the host's system clock, in seconds
  files,          \* content of the watched tree
  pc,             \* where each thread is in its capture
  base,           \* base_snapshot_id of the running capture, 0 for a full one
  snap,           \* snapshot_build.snapshot.snapshot_id
  watch_base,     \* watch_base_snapshot_id
  pipeline_mutex, \* the worker holding pipeline_mutex_, or Watch for nobody
  serving,        \* the websocket server has been started
  crashes,        \* number of crashes so far
  failed_cleanups \* history: retention cleanups failed since one succeeded

threadVars == <<pc, base, snap, watch_base, pipeline_mutex,
                serving>>
environmentVars == <<now, files, crashes, failed_cleanups>>
serviceVars == <<storeVars, threadVars, environmentVars>>

ServiceTypeOK ==
  /\ StoreTypeOK
  /\ now \in 0..MaxTime
  /\ files \in Contents
  /\ pc \in [Threads -> {"idle", "boot", "scan", "read_base", "put", "retain"}]
  /\ base \in [Threads -> SnapshotIds \cup {0}]
  /\ snap \in [Threads -> SnapshotIds \cup {0}]
  /\ watch_base \in SnapshotIds \cup {0}
  /\ pipeline_mutex \in Threads
  /\ serving \in BOOLEAN
  /\ crashes \in 0..MaxCrashes
  /\ failed_cleanups \in 0..MaxFailures

-----------------------------------------------------------------------------
\* Memory of a fresh process; main has not reached the watch loop.
FreshPc == [t \in Threads |-> IF t = Watch THEN "boot" ELSE "idle"]
NoSnapshots == [t \in Threads |-> 0]

StartProcess ==
  /\ pc' = FreshPc
  /\ base' = NoSnapshots
  /\ snap' = NoSnapshots
  /\ watch_base' = 0
  /\ pipeline_mutex' = Watch
  /\ serving' = FALSE

ServiceInit ==
  /\ StoreInit
  /\ pc = FreshPc
  /\ base = NoSnapshots
  /\ snap = NoSnapshots
  /\ watch_base = 0
  /\ pipeline_mutex = Watch
  /\ serving = FALSE
  /\ now = 0
  /\ files \in Contents
  /\ crashes = 0
  /\ failed_cleanups = 0

MoreEvents == now + crashes + failed_cleanups < MaxEvents

Tick ==
  /\ now < MaxTime /\ MoreEvents
  /\ now' = now + 1
  /\ UNCHANGED <<storeVars, threadVars, files, crashes, failed_cleanups>>

FilesChange ==
  /\ files' \in Contents \ {files}
  /\ UNCHANGED <<storeVars, threadVars, now, crashes, failed_cleanups>>

\* The process dies and is started again on the same LMDB directory.
CrashAndRestart ==
  /\ crashes < MaxCrashes /\ MoreEvents
  /\ crashes' = crashes + 1
  /\ StartProcess
  /\ UNCHANGED <<storeVars, now, files, failed_cleanups>>

-----------------------------------------------------------------------------
(***************************************************************************)
(* Starting a capture.                                                     *)
(***************************************************************************)

\* main: bootstrap_create captures a full snapshot, otherwise the retention
\* cleanup at start-up comes first.
Boot ==
  /\ pc[Watch] = "boot"
  /\ \E next \in {"scan", "retain"} : pc' = [pc EXCEPT ![Watch] = next]
  /\ UNCHANGED <<base, snap, watch_base, pipeline_mutex,
                 serving, storeVars, environmentVars>>

\* watch_interval_seconds have passed on the steady clock, which says nothing
\* of the system clock that stamps the snapshots: the cycle can start any time.
WatchCycle ==
  /\ serving
  /\ pc[Watch] = "idle"
  /\ base' = [base EXCEPT ![Watch] = watch_base]
  /\ pc' = [pc EXCEPT ![Watch] = "scan"]
  /\ UNCHANGED <<snap, watch_base, pipeline_mutex, serving, storeVars,
                 environmentVars>>

\* Create (b = 0) and update commands wait for pipeline_mutex_.
RemoteCapture(w, b) ==
  /\ serving
  /\ pc[w] = "idle"
  /\ pipeline_mutex = Watch
  /\ pipeline_mutex' = w
  /\ base' = [base EXCEPT ![w] = b]
  /\ pc' = [pc EXCEPT ![w] = "scan"]
  /\ UNCHANGED <<snap, watch_base, serving, storeVars,
                 environmentVars>>

RemoteDelete(w, id) ==
  /\ serving
  /\ pc[w] = "idle"
  /\ DeleteSnapshot(id)
  /\ UNCHANGED <<threadVars, environmentVars>>

-----------------------------------------------------------------------------
(***************************************************************************)
(* The steps of a capture, the same code for the watch loop and for        *)
(* commands.                                                               *)
(***************************************************************************)

\* A worker leaves the block that holds pipeline_mutex_.
Unlock(t) == pipeline_mutex' = IF pipeline_mutex = t THEN Watch ELSE pipeline_mutex

\* Before it serves, main goes on to the retention cleanup whatever the
\* bootstrap capture returned; afterwards a failed capture ends the cycle.  The
\* locals of the capture go out of scope.
Finish(t, ok) ==
  /\ pc' = [pc EXCEPT ![t] = IF ok \/ ~serving THEN "retain" ELSE "idle"]
  /\ base' = [base EXCEPT ![t] = 0]
  /\ snap' = [snap EXCEPT ![t] = 0]

\* scanner_.scan and snapshot_builder_.build.
Scan(t) ==
  /\ pc[t] = "scan"
  /\ snap' = [snap EXCEPT ![t] = SnapshotOf(now, files)]
  /\ pc' = [pc EXCEPT ![t] = IF base[t] = 0 THEN "put" ELSE "read_base"]
  /\ UNCHANGED <<base, watch_base, pipeline_mutex, serving, storeVars,
                 environmentVars>>

\* A snapshot that fails its validation is not stored.
ScanInvalid(t) ==
  /\ pc[t] = "scan"
  /\ Finish(t, FALSE)
  /\ Unlock(t)
  /\ UNCHANGED <<watch_base, serving, storeVars, environmentVars>>

\* Mutant of ReadBaseMissing: the watch loop keeps its base.
ReadBaseMissingKeepsBase(t) ==
  /\ pc[t] = "read_base"
  /\ base[t] \notin snapshots
  /\ Finish(t, FALSE)
  /\ Unlock(t)
  /\ UNCHANGED <<watch_base, serving, storeVars, environmentVars>>

\* get_snapshot(base) is NotFound: nothing is stored; the watch loop falls
\* back to a full snapshot on its next cycle.
ReadBaseMissing(t) ==
  /\ pc[t] = "read_base"
  /\ base[t] \notin snapshots
  /\ watch_base' = IF t = Watch THEN 0 ELSE watch_base
  /\ Finish(t, FALSE)
  /\ Unlock(t)
  /\ UNCHANGED <<serving, storeVars, environmentVars>>

\* The delta is empty: the base is returned as the result, which the watch loop
\* remembers already, and nothing is stored.
ReadBaseUnchanged(t) ==
  /\ pc[t] = "read_base"
  /\ base[t] \in snapshots
  /\ ContentOf[base[t]] = ContentOf[snap[t]]
  /\ Finish(t, TRUE)
  /\ Unlock(t)
  /\ UNCHANGED <<watch_base, serving, storeVars, environmentVars>>

\* A delta with changes was computed from the base that was just read.
ReadBaseChanged(t) ==
  /\ pc[t] = "read_base"
  /\ base[t] \in snapshots
  /\ ContentOf[base[t]] # ContentOf[snap[t]]
  /\ pc' = [pc EXCEPT ![t] = "put"]
  /\ UNCHANGED <<base, snap, watch_base, pipeline_mutex,
                 serving, storeVars, environmentVars>>

\* The write transaction of the capture; the watch loop remembers the result.
Put(t) ==
  /\ pc[t] = "put"
  /\ IF base[t] = 0
       THEN PutSnapshotWithTransport(snap[t], TRUE)
       ELSE PutSnapshotAndDeltaWithTransport(base[t], snap[t], TRUE)
  /\ watch_base' = IF t = Watch THEN snap[t] ELSE watch_base
  /\ Finish(t, TRUE)
  /\ Unlock(t)
  /\ UNCHANGED <<serving, environmentVars>>

\* A delta that fails its validation, or a transaction that aborts (a full
\* map): nothing is stored.
PutFails(t) ==
  /\ pc[t] = "put"
  /\ Finish(t, FALSE)
  /\ Unlock(t)
  /\ UNCHANGED <<watch_base, serving, storeVars, environmentVars>>

\* Mutant of Retain: the watch loop does not apply retention.
RetainAfterCommands(t) ==
  /\ pc[t] = "retain"
  /\ IF KeepLatest > 0 /\ t # Watch /\ Cardinality(snapshots) > KeepLatest
       THEN ApplySnapshotRetention(KeepLatest)
       ELSE UNCHANGED storeVars
  /\ pc' = [pc EXCEPT ![t] = "idle"]
  /\ serving' = TRUE
  /\ failed_cleanups' = 0
  /\ UNCHANGED <<base, snap, watch_base, pipeline_mutex, now, files, crashes>>

\* apply_snapshot_retention after a successful capture, and once at start-up,
\* where it is the last step before the server starts.
Retain(t) ==
  /\ pc[t] = "retain"
  /\ IF KeepLatest > 0 /\ Cardinality(snapshots) > KeepLatest
       THEN ApplySnapshotRetention(KeepLatest)
       ELSE UNCHANGED storeVars
  /\ pc' = [pc EXCEPT ![t] = "idle"]
  /\ serving' = TRUE
  /\ failed_cleanups' = 0
  /\ UNCHANGED <<base, snap, watch_base, pipeline_mutex, now, files, crashes>>

\* The retention transaction aborts (a full map): a running service goes on,
\* main at start-up gives up and the process is started anew.
RetainFails(t) ==
  /\ pc[t] = "retain"
  /\ KeepLatest > 0
  /\ failed_cleanups < MaxFailures /\ MoreEvents
  /\ failed_cleanups' = failed_cleanups + 1
  /\ IF serving
       THEN /\ pc' = [pc EXCEPT ![t] = "idle"]
            /\ UNCHANGED <<base, snap, watch_base,
                           pipeline_mutex, serving>>
       ELSE StartProcess
  /\ UNCHANGED <<storeVars, now, files, crashes>>

CaptureStep(t) ==
  \/ Scan(t)
  \/ ScanInvalid(t)
  \/ ReadBaseMissing(t)
  \/ ReadBaseUnchanged(t)
  \/ ReadBaseChanged(t)
  \/ Put(t)
  \/ PutFails(t)
  \/ Retain(t)
  \/ RetainFails(t)

ServiceNext ==
  \/ Tick
  \/ FilesChange
  \/ CrashAndRestart
  \/ Boot
  \/ WatchCycle
  \/ \E w \in Workers, b \in SnapshotIds \cup {0} : RemoteCapture(w, b)
  \/ \E w \in Workers, id \in SnapshotIds : RemoteDelete(w, id)
  \/ \E t \in Threads : CaptureStep(t)

ServiceSpec == ServiceInit /\ [][ServiceNext]_serviceVars

\* The watch loop comes round again after every cycle, a thread in a capture
\* goes on with it, and the scans of the watch loop do not fail for ever.
ServiceFairness ==
  /\ WF_serviceVars(Boot)
  /\ WF_serviceVars(WatchCycle)
  /\ \A t \in Threads : WF_serviceVars(CaptureStep(t))
  /\ SF_serviceVars(Scan(Watch))

FairServiceSpec == ServiceSpec /\ ServiceFairness

-----------------------------------------------------------------------------
\* A consumer can read the outbox front to back: a delta record directly
\* follows the snapshot record of its target, and the snapshot it starts from
\* was announced before both, whatever threads interleave their captures.
DeltaRecordsFollowSnapshots ==
  \A s \in DOMAIN outbox : outbox[s].type = "Delta" =>
    /\ s - 1 \in DOMAIN outbox
    /\ outbox[s - 1] = SnapshotRecord(outbox[s].target)
    /\ \E r \in DOMAIN outbox :
          r < s - 1 /\ outbox[r] = SnapshotRecord(outbox[s].base)

\* Every stored snapshot has been announced: a snapshot is never persisted
\* without its outbox record, also across crashes and failed captures.
StoredSnapshotsAreAnnounced ==
  \A id \in snapshots : \E s \in DOMAIN outbox : outbox[s] = SnapshotRecord(id)

\* A stored delta can be applied: both its snapshots are stored.
DeltaEndpointsStored ==
  \A d \in deltas : d[1] \in snapshots /\ d[2] \in snapshots

\* With retention configured the store holds at most KeepLatest snapshots plus
\* one for each capture that is on its way to its own retention cleanup and one
\* for each cleanup that failed since one succeeded: a single cleanup makes up
\* for earlier failures and for crashes between a store and its cleanup.
RetentionBound ==
  serving /\ KeepLatest > 0 =>
    Cardinality(snapshots)
      <= KeepLatest + Cardinality({t \in Threads : pc[t] = "retain"})
                    + failed_cleanups

\* README "If watch update base snapshot is missing ... Muninn resets watch
\* state and retries with full snapshot on next cycle": a watch loop whose base
\* was removed, by a command or by retention, does not stay on it.
WatchBaseMissing == serving /\ watch_base # 0 /\ watch_base \notin snapshots
WatchRecovers == WatchBaseMissing ~> ~WatchBaseMissing

=============================================================================
