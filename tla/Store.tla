------------------------------- MODULE Store -------------------------------
(***************************************************************************)
(* The request-level behaviour of castella's Store (src/store.rs) over its *)
(* three pieces of shared state: the PostgreSQL rows (src/db.rs), the      *)
(* remote Drive objects (src/drive.rs) and the allocation gate             *)
(* (Store::file_alloc_mutex).  Every request task runs Store::upload,     *)
(* Store::get or Store::delete; each await on the database, the remote    *)
(* drive or the gate is one step, and every step that can fail has a      *)
(* failure action (an error returned by `?`, or the task being dropped).  *)
(*                                                                         *)
(* Data is abstracted to what the properties tell apart: a remote object   *)
(* is its id (ids are fresh naturals, as the provider's random ids are     *)
(* distinct), a drive is the id of its remote shared drive (drive rows are *)
(* never deleted, so the id identifies the row), and a file row keeps its  *)
(* serial key, its remote id and its drive.  Sizes, secrets, content types *)
(* and timestamps are left out: no property here is about them.            *)
(***************************************************************************)
EXTENDS Naturals, FiniteSets

CONSTANTS
    Procs,              \* the concurrent request tasks
    NoProc,             \* the gate is free
    DriveMaxFileLimit,  \* DRIVE_MAX_FILE_LIMIT (store.rs:41)
    MaxFiles,           \* bound: remote file objects ever created
    MaxDrives           \* bound: remote shared drives ever created

ASSUME StoreAssumption ==
    /\ NoProc \notin Procs
    /\ DriveMaxFileLimit \in Nat
    /\ MaxFiles \in Nat
    /\ MaxDrives \in Nat

VARIABLES
    drives,     \* ids of the drives that have a row in table drives
    files,      \* rows of table files: [key, id, drive]
    remote,     \* ids of the file objects that exist on the remote drive
    fileSeq,    \* the serial of files.key: values drawn by inserts so far
    remoteSeq,  \* remote file objects ever created
    driveSeq,   \* remote shared drives ever created
    gate,       \* holder of file_alloc_mutex, or NoProc
    pc,         \* where each task is
    drv,        \* upload: the drive allocated to the file
    rid,        \* upload: the remote id of the uploaded object
    req,        \* get / delete: the key asked for
    row         \* the row the database returned (upload: the uncommitted insert)

vars == <<drives, files, remote, fileSeq, remoteSeq, driveSeq, gate,
          pc, drv, rid, req, row>>

Keys == 1..MaxFiles
Row == [key : Nat, id : Nat, drive : Nat]
NoRow == [key |-> 0, id |-> 0, drive |-> 0]

PcLabels == {"idle", "lock", "query", "create_drive", "add_drive",
             "create_file", "add_file", "commit", "get_row", "get_remote",
             "delete_row", "delete_remote"}

TypeOK ==
    /\ drives \subseteq Nat
    /\ files \subseteq Row
    /\ remote \subseteq Nat
    /\ fileSeq \in Nat /\ remoteSeq \in Nat /\ driveSeq \in Nat
    /\ gate \in Procs \cup {NoProc}
    /\ pc \in [Procs -> PcLabels]
    /\ drv \in [Procs -> Nat]
    /\ rid \in [Procs -> Nat]
    /\ req \in [Procs -> Nat]
    /\ row \in [Procs -> Row]

Init ==
    /\ drives = {} /\ files = {} /\ remote = {}
    /\ fileSeq = 0 /\ remoteSeq = 0 /\ driveSeq = 0
    /\ gate = NoProc
    /\ pc = [p \in Procs |-> "idle"]
    /\ drv = [p \in Procs |-> 0]
    /\ rid = [p \in Procs |-> 0]
    /\ req = [p \in Procs |-> 0]
    /\ row = [p \in Procs |-> NoRow]

(* Number of rows of table files in drive d: the `counts` CTE of           *)
(* get_drive_by_least_files, with coalesce(count, 0) for an empty drive.   *)
FileCount(d) == Cardinality({r \in files : r.drive = d})

(* Drives get_drive_by_least_files may return: count <= max_files, and no  *)
(* eligible drive has fewer files (order by count asc limit 1; ties are    *)
(* broken arbitrarily by the database).                                    *)
LeastFilesDrives ==
    LET eligible == {d \in drives : FileCount(d) <= DriveMaxFileLimit}
    IN  {d \in eligible : \A e \in eligible : FileCount(d) <= FileCount(e)}

(* Mutant: a task that returns while holding the guard keeps the gate. *)
FinishKeepGate(p) ==
    /\ pc' = [pc EXCEPT ![p] = "idle"]
    /\ UNCHANGED gate
    /\ drv' = [drv EXCEPT ![p] = 0]
    /\ rid' = [rid EXCEPT ![p] = 0]
    /\ req' = [req EXCEPT ![p] = 0]
    /\ row' = [row EXCEPT ![p] = NoRow]

(* A task finishes its request: its locals go out of scope and the gate   *)
(* guard, if it holds it, is dropped.                                      *)
Finish(p) ==
    /\ pc' = [pc EXCEPT ![p] = "idle"]
    /\ gate' = IF gate = p THEN NoProc ELSE gate
    /\ drv' = [drv EXCEPT ![p] = 0]
    /\ rid' = [rid EXCEPT ![p] = 0]
    /\ req' = [req EXCEPT ![p] = 0]
    /\ row' = [row EXCEPT ![p] = NoRow]

-----------------------------------------------------------------------------
(* Store::upload: allocate_file, then Drive::create_file, then add_file. *)

StartUpload(p) ==
    /\ pc[p] = "idle"
    /\ pc' = [pc EXCEPT ![p] = "lock"]
    /\ UNCHANGED <<drives, files, remote, fileSeq, remoteSeq, driveSeq, gate,
                   drv, rid, req, row>>

(* The client goes away while its upload waits for file_alloc_mutex: the  *)
(* request future is dropped and leaves the wait queue.                    *)
LockAbandon(p) ==
    /\ pc[p] = "lock"
    /\ Finish(p)
    /\ UNCHANGED <<drives, files, remote, fileSeq, remoteSeq, driveSeq>>

(* Mutant: the allocation runs without waiting for the gate. *)
LockUnguarded(p) ==
    /\ pc[p] = "lock"
    /\ gate' = p
    /\ pc' = [pc EXCEPT ![p] = "query"]
    /\ UNCHANGED <<drives, files, remote, fileSeq, remoteSeq, driveSeq,
                   drv, rid, req, row>>

(* self.file_alloc_mutex.lock().await *)
Lock(p) ==
    /\ pc[p] = "lock"
    /\ gate = NoProc
    /\ gate' = p
    /\ pc' = [pc EXCEPT ![p] = "query"]
    /\ UNCHANGED <<drives, files, remote, fileSeq, remoteSeq, driveSeq,
                   drv, rid, req, row>>

(* db.get_drive_by_least_files(DRIVE_MAX_FILE_LIMIT): Some(drive) returns  *)
(* it and drops the guard; None goes on to create a drive under the gate.  *)
AllocQuery(p) ==
    /\ pc[p] = "query"
    /\ \/ \E d \in LeastFilesDrives :
             /\ drv' = [drv EXCEPT ![p] = d]
             /\ pc' = [pc EXCEPT ![p] = "create_file"]
             /\ gate' = NoProc
       \/ /\ LeastFilesDrives = {}
          /\ pc' = [pc EXCEPT ![p] = "create_drive"]
          /\ UNCHANGED <<gate, drv>>
    /\ UNCHANGED <<drives, files, remote, fileSeq, remoteSeq, driveSeq,
                   rid, req, row>>

(* self.drive.create_drive(rand_drive_name()) succeeds. *)
CreateDrive(p) ==
    /\ pc[p] = "create_drive"
    /\ driveSeq < MaxDrives
    /\ driveSeq' = driveSeq + 1
    /\ drv' = [drv EXCEPT ![p] = driveSeq + 1]
    /\ pc' = [pc EXCEPT ![p] = "add_drive"]
    /\ UNCHANGED <<drives, files, remote, fileSeq, remoteSeq, gate,
                   rid, req, row>>

(* self.db.add_drive(folder.id) succeeds; returning drops the guard. *)
AddDrive(p) ==
    /\ pc[p] = "add_drive"
    /\ drives' = drives \cup {drv[p]}
    /\ pc' = [pc EXCEPT ![p] = "create_file"]
    /\ gate' = NoProc
    /\ UNCHANGED <<files, remote, fileSeq, remoteSeq, driveSeq,
                   drv, rid, req, row>>

(* Mutant: the upload's status is not checked, so an id comes back for an *)
(* object the provider never stored.                                       *)
CreateFileUnchecked(p) ==
    /\ pc[p] = "create_file"
    /\ remoteSeq < MaxFiles
    /\ remoteSeq' = remoteSeq + 1
    /\ rid' = [rid EXCEPT ![p] = remoteSeq + 1]
    /\ pc' = [pc EXCEPT ![p] = "add_file"]
    /\ UNCHANGED <<drives, files, remote, fileSeq, driveSeq, gate, drv, req, row>>

(* self.drive.create_file(...) uploads the whole encrypted stream and the  *)
(* provider answers with the new object's id.                              *)
CreateFile(p) ==
    /\ pc[p] = "create_file"
    /\ remoteSeq < MaxFiles
    /\ remoteSeq' = remoteSeq + 1
    /\ remote' = remote \cup {remoteSeq + 1}
    /\ rid' = [rid EXCEPT ![p] = remoteSeq + 1]
    /\ pc' = [pc EXCEPT ![p] = "add_file"]
    /\ UNCHANGED <<drives, files, fileSeq, driveSeq, gate, drv, req, row>>

(* insert into files (...) returning *: the row the insert returns, under *)
(* the next value of the files.key serial.                                 *)
InsertedRow(p) == [key |-> fileSeq + 1, id |-> rid[p], drive |-> drv[p]]

(* self.db.add_file(file.id, drive.key, ...): executor() begins a          *)
(* transaction and the insert draws the next serial value; the row is      *)
(* visible to no other task until the commit, and the serial value is     *)
(* spent even if the transaction never commits.                            *)
AddFile(p) ==
    /\ pc[p] = "add_file"
    /\ fileSeq' = fileSeq + 1
    /\ row' = [row EXCEPT ![p] = InsertedRow(p)]
    /\ pc' = [pc EXCEPT ![p] = "commit"]
    /\ UNCHANGED <<drives, files, remote, remoteSeq, driveSeq, gate, drv, rid, req>>

(* exec.commit(): the inserted row becomes visible, and upload returns.    *)
(* Two uploads may commit in either order, whatever their keys.            *)
Commit(p) ==
    /\ pc[p] = "commit"
    /\ files' = files \cup {row[p]}
    /\ Finish(p)
    /\ UNCHANGED <<drives, remote, fileSeq, remoteSeq, driveSeq>>

(* Mutant: an error path that returns without dropping the guard. *)
UploadFailKeepGate(p) ==
    /\ pc[p] \in {"query", "create_drive", "add_drive", "create_file", "add_file", "commit"}
    /\ FinishKeepGate(p)
    /\ UNCHANGED <<drives, files, remote, fileSeq, remoteSeq, driveSeq>>

(* Any awaited step of an upload returns an error through `?` (database,   *)
(* transport, status, auth or client-stream error) or the task is dropped: *)
(* the guard is released and nothing more happens.  After create_drive     *)
(* this leaves an orphan shared drive, after create_file an orphan object; *)
(* after the insert the transaction rolls back and its serial value is    *)
(* lost.                                                                   *)
UploadFail(p) ==
    /\ pc[p] \in {"query", "create_drive", "add_drive", "create_file", "add_file", "commit"}
    /\ Finish(p)
    /\ UNCHANGED <<drives, files, remote, fileSeq, remoteSeq, driveSeq>>

-----------------------------------------------------------------------------
(* Store::get: get_file_by_key(key, true), then Drive::get_file. *)

StartGet(p) ==
    /\ pc[p] = "idle"
    /\ \E k \in Keys : req' = [req EXCEPT ![p] = k]
    /\ pc' = [pc EXCEPT ![p] = "get_row"]
    /\ UNCHANGED <<drives, files, remote, fileSeq, remoteSeq, driveSeq, gate,
                   drv, rid, row>>

(* update files set accessed_time = ... where key = $1 returning *: no row *)
(* is Ok(None) (404); a row goes on to the ranged download.                *)
GetRow(p) ==
    /\ pc[p] = "get_row"
    /\ \/ \E r \in files :
             /\ r.key = req[p]
             /\ row' = [row EXCEPT ![p] = r]
             /\ pc' = [pc EXCEPT ![p] = "get_remote"]
             /\ UNCHANGED <<gate, drv, rid, req>>
       \/ /\ \A r \in files : r.key # req[p]
          /\ Finish(p)
    /\ UNCHANGED <<drives, files, remote, fileSeq, remoteSeq, driveSeq>>

(* self.drive.get_file(...): a 2xx answer needs the object to exist; the  *)
(* stream itself is the subject of module Download.                       *)
GetRemote(p) ==
    /\ pc[p] = "get_remote"
    /\ row[p].id \in remote
    /\ Finish(p)
    /\ UNCHANGED <<drives, files, remote, fileSeq, remoteSeq, driveSeq>>

(* The database or the remote request fails (a deleted object is a 404).  *)
GetFail(p) ==
    /\ pc[p] \in {"get_row", "get_remote"}
    /\ Finish(p)
    /\ UNCHANGED <<drives, files, remote, fileSeq, remoteSeq, driveSeq>>

-----------------------------------------------------------------------------
(* Store::delete: delete_file_by_key, then Drive::delete_file. *)

StartDelete(p) ==
    /\ pc[p] = "idle"
    /\ \E k \in Keys : req' = [req EXCEPT ![p] = k]
    /\ pc' = [pc EXCEPT ![p] = "delete_row"]
    /\ UNCHANGED <<drives, files, remote, fileSeq, remoteSeq, driveSeq, gate,
                   drv, rid, row>>

(* delete from files where key = $1 returning *: the commitment point. *)
DeleteRow(p) ==
    /\ pc[p] = "delete_row"
    /\ \/ \E r \in files :
             /\ r.key = req[p]
             /\ files' = files \ {r}
             /\ row' = [row EXCEPT ![p] = r]
             /\ pc' = [pc EXCEPT ![p] = "delete_remote"]
             /\ UNCHANGED <<gate, drv, rid, req>>
       \/ /\ \A r \in files : r.key # req[p]
          /\ Finish(p)
          /\ UNCHANGED files
    /\ UNCHANGED <<drives, remote, fileSeq, remoteSeq, driveSeq>>

(* self.drive.delete_file(&FileHandle::new(file.id)) succeeds. *)
DeleteRemote(p) ==
    /\ pc[p] = "delete_remote"
    /\ remote' = remote \ {row[p].id}
    /\ Finish(p)
    /\ UNCHANGED <<drives, files, fileSeq, remoteSeq, driveSeq>>

(* The database or the remote delete fails; after the row is gone the     *)
(* remote object is left an orphan.                                        *)
DeleteFail(p) ==
    /\ pc[p] \in {"delete_row", "delete_remote"}
    /\ Finish(p)
    /\ UNCHANGED <<drives, files, remote, fileSeq, remoteSeq, driveSeq>>

-----------------------------------------------------------------------------
Next ==
    \E p \in Procs :
        \/ StartUpload(p) \/ Lock(p) \/ LockAbandon(p) \/ AllocQuery(p) \/ CreateDrive(p)
        \/ AddDrive(p) \/ CreateFile(p) \/ AddFile(p) \/ Commit(p) \/ UploadFail(p)
        \/ StartGet(p) \/ GetRow(p) \/ GetRemote(p) \/ GetFail(p)
        \/ StartDelete(p) \/ DeleteRow(p) \/ DeleteRemote(p) \/ DeleteFail(p)

Spec == Init /\ [][Next]_vars

(* Every awaited step of a started request eventually completes or fails:  *)
(* the runtime keeps polling a task whose future is ready, and every       *)
(* database and remote call ends with an answer or an error.  Waiting on   *)
(* file_alloc_mutex is strongly fair: tokio's Mutex queues waiters in FIFO *)
(* order, so a waiter that finds the lock free again and again gets it.    *)
(* Starting a request is the client's choice and is not required.          *)
Progress(p) ==
    \/ AllocQuery(p) \/ CreateDrive(p) \/ AddDrive(p) \/ CreateFile(p)
    \/ AddFile(p) \/ Commit(p) \/ UploadFail(p) \/ GetRow(p) \/ GetRemote(p) \/ GetFail(p)
    \/ DeleteRow(p) \/ DeleteRemote(p) \/ DeleteFail(p)

Fairness == \A p \in Procs : WF_vars(Progress(p)) /\ SF_vars(Lock(p))

FairSpec == Spec /\ Fairness

-----------------------------------------------------------------------------
(* Every file row points at a remote object that exists: upload inserts    *)
(* the row only after Drive::create_file succeeded, and delete removes the *)
(* row before the remote delete (spec §3 invariant 5, §7).  Orphan objects *)
(* without a row are allowed.                                              *)
RowHasRemote == \A r \in files : r.id \in remote

(* No redundant shared drive: file_alloc_mutex makes a task create a drive *)
(* only when every drive already held more than DRIVE_MAX_FILE_LIMIT rows, *)
(* so the k-th drive needs (k-1)*(limit+1) serial values to have been      *)
(* drawn (rows inserted, whether still there, deleted or rolled back)      *)
(* (spec §8 property 7, the gate invariant; scenario S3).                  *)
NoRedundantDrive ==
    \/ drives = {}
    \/ (Cardinality(drives) - 1) * (DriveMaxFileLimit + 1) <= fileSeq

(* An upload waiting for file_alloc_mutex eventually holds it (unless its  *)
(* client gives up), however often other uploads take it first: every      *)
(* holder releases the guard on every path out of allocate_file, and the   *)
(* Mutex hands it to waiters fairly (spec §6, allocation gate).            *)
GateEventuallyGranted ==
    \A p \in Procs : pc[p] = "lock" ~> (gate = p \/ pc[p] = "idle")

(* No drive holds more than DRIVE_MAX_FILE_LIMIT files (spec §3: "a drive  *)
(* is a remote container holding at most DRIVE_MAX_FILE_LIMIT files").     *)
DriveWithinLimit == \A d \in drives : FileCount(d) <= DriveMaxFileLimit

=============================================================================
