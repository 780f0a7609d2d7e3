---------------------------- MODULE DriveState ----------------------------
(***************************************************************************)
(* The state that the API process of Mist Drive keeps for one user, and    *)
(* the operations of its stores.  Users share nothing here (buckets,       *)
(* documents, reservations and processing marks are all keyed by the user  *)
(* id), so one user is enough.  The handlers that work on this state are   *)
(* in UploadHandlers, FileHandlers and CompressWorkers, and Drive composes *)
(* them.                                                                   *)
(*                                                                         *)
(*  - in MinIO:   bucket (objects), multipart (uploads not yet completed)  *)
(*  - in SQLite:  usedBytes (of the user record), docs (upload documents), *)
(*                queue (compression work)                                 *)
(*  - in memory:  reserved, processing, and the tasks: handlers, their     *)
(*                goroutines and workers, each between two of its calls    *)
(***************************************************************************)
EXTENDS ByteTotals, Sequences

CONSTANTS
  Folders,    \* folders of the bucket
  Names,      \* file names inside a folder
  Archives,   \* the names whose extension makes them recompressible
  UploadIds,  \* the ids that MinIO can issue for multipart uploads
  Sizes,      \* sizes of uploaded and of recompressed objects
  Quota,      \* QuotaBytes of the user
  Requests,   \* concurrent HTTP handlers, with the goroutine each may leave
  Workers,    \* compression workers
  None,       \* no value
  Allowed     \* what clients may ask for and what may disturb them, see below

Keys  == Folders \X Names
Paths == Keys \cup Folders

Operations   == {"upload", "abort", "delete", "recompute", "rename"}
Disturbances ==
  {"overlap",      \* requests on related paths, or on one upload, interleave
   "jobs",         \* requests arrive on the path that a job has marked
   "lateComplete", \* an upload completes on the path that a job has marked
   "fault",        \* a call to MinIO fails
   "checkFails",   \* so does the one that looks for a file at a new name
   "saveFails",    \* the document of a new upload is not saved
   "lostReply",    \* MinIO does the work but the caller gets an error
   "diskFull",     \* the disk of the server is nearly full
   "expiry",       \* uploads stay open for longer than UploadTTL
   "restart"}      \* the API process stops and starts again

ASSUME DriveAssumption ==
  /\ IsFiniteSet(Folders) /\ IsFiniteSet(Names) /\ IsFiniteSet(UploadIds)
  /\ IsFiniteSet(Requests) /\ IsFiniteSet(Workers)
  /\ Archives \subseteq Names
  /\ Sizes \subseteq Nat
  /\ Quota \in Nat
  /\ Requests \cap Workers = {}
  /\ None \notin UploadIds \cup Paths
  /\ Folders \cap Keys = {}
  /\ Allowed \subseteq Operations \cup Disturbances

VARIABLES
  usedBytes,   \* users.User.UsedBytes
  reserved,    \* quota.Reservations: bytes reserved for the user
  bucket,      \* the objects in MinIO
  multipart,   \* multipart uploads open in MinIO
  plan,        \* key and size of each upload that MinIO has issued an id for
  docs,        \* uploads with a document (uploads.State) in the store
  expired,     \* uploads whose document is older than UploadTTL
  processing,  \* paths marked as being processed
  queue,       \* compression queue
  task,        \* what each handler or worker is doing
  sweep,       \* the running pass of the upload GC
  unpublished  \* the bucket has changed and no event has followed yet

vars == <<usedBytes, reserved, bucket, multipart, plan, docs, expired,
          processing, queue, task, sweep, unpublished>>

accounts == <<usedBytes, reserved>>
objects  == <<bucket, unpublished>>
uploads  == <<multipart, plan, docs, expired, sweep>>
jobs     == <<processing, queue>>
stores   == <<accounts, objects, uploads, jobs>>

Allows(what) == what \in Allowed
Procs == Requests \cup Workers

---------------------------------------------------------------------------
(* Objects.  The content of an object is named by the upload it came from; *)
(* packed says that the server recompressed it, which is also what the     *)
(* mist-source-size metadata records.  The two make up its ETag.           *)

Object   == [size : Nat, content : UploadIds \cup {None}, packed : BOOLEAN]
NoObject == [size |-> 0, content |-> None, packed |-> FALSE]
Plan     == [key : Keys \cup {None}, size : Nat]
NoPlan   == [key |-> None, size |-> 0]
Item     == [key : Keys, size : Nat, content : UploadIds \cup {None},
             packed : BOOLEAN]

Exists(k)     == bucket[k] # NoObject
ETag(x)       == <<x.content, x.packed>>
SizesOf(b)    == [k \in DOMAIN b |-> b[k].size]
FilesAt(path) == {k \in Keys : Exists(k) /\ (k = path \/ k[1] = path)}
BytesIn(S)    == TotalBytes([k \in S |-> bucket[k].size])

---------------------------------------------------------------------------
(* Tasks: the local variables of a handler, goroutine or worker.           *)

\* Steps of a job that runs after its request was answered, or in a worker,
\* while the path of the job is marked.
JobSteps == {"renameCopy", "renameRemove", "renamePublish", "renameUnmark",
             "packLoad", "pack", "packStat", "packPut", "packUsed", "packUnmark"}
Steps == JobSteps \cup
  {"idle", "initCheck", "initStat", "initReserve", "initMultipart",
   "initRelease", "initSave", "completeStat", "completeS3", "completeRestat",
   "completeUsed", "completeRelease", "completeDelete", "abortS3",
   "abortRelease", "abortDelete", "deleteList", "deleteRemove",
   "recomputeSet", "renameCheck", "renameCollide", "renameMark",
   "packCheck", "packDisk"}

Task == [pc : Steps, path : Paths \cup {None}, to : Paths \cup {None},
         up : UploadIds \cup {None}, n : Nat, old : Nat,
         todo : SUBSET Keys, done : SUBSET Keys, obj : Object, failed : BOOLEAN]
Idle == [pc |-> "idle", path |-> None, to |-> None, up |-> None, n |-> 0,
         old |-> 0, todo |-> {}, done |-> {}, obj |-> NoObject,
         failed |-> FALSE]

At(p, pc)   == task[p].pc = pc
Become(p, t) == task' = [task EXCEPT ![p] = t]
Goto(p, pc) == Become(p, [task[p] EXCEPT !.pc = pc])
Finish(p)   == Become(p, Idle)

Related(s, t) == \/ s = t /\ s # None
                 \/ s \in Keys /\ s[1] = t
                 \/ t \in Keys /\ t[1] = s
Involves(q, path) == /\ ~At(q, "idle")
                     /\ \/ At(q, "recomputeSet")
                        \/ Related(task[q].path, path)
                        \/ Related(task[q].to, path)

Covers(mark, path) == path = mark \/ (path \in Keys /\ path[1] = mark)

\* No other task works on this path, except as the run allows.
Quiet(path, during) ==
  \/ Allows("overlap")
  \/ \A q \in Procs : Involves(q, path) =>
       Allows(during) /\ task[q].pc \in JobSteps /\ Covers(task[q].path, path)

---------------------------------------------------------------------------
(* Operations of the stores.                                               *)

Floor0(x) == IF x < 0 THEN 0 ELSE x

\* Users.AddUsedBytes(delta)
AddUsedBytes(delta) == usedBytes' = Floor0(usedBytes + delta)

\* Reservations.Release(size)
Release(size) == reserved' = Floor0(reserved - size)

\* Server.isProcessingBlocked
Blocked(path) == \E mark \in processing : Covers(mark, path)

\* Server.publishChange, and the RenameError event: either reaches the hub
Publish == unpublished' = FALSE

SetObject(k, x) == bucket' = [bucket EXCEPT ![k] = x] /\ unpublished' = TRUE

=============================================================================
