------------------------------- MODULE Drive -------------------------------
(***************************************************************************)
(* The API process with its stores: request handlers, the goroutines that  *)
(* they leave behind, compression workers and the upload GC, interleaved   *)
(* between any two of their calls.                                         *)
(***************************************************************************)
EXTENDS UploadHandlers, FileHandlers, CompressWorkers

Init ==
  /\ usedBytes = 0 /\ reserved = 0
  /\ bucket = [k \in Keys |-> NoObject]
  /\ multipart = {} /\ docs = {} /\ expired = {}
  /\ plan = [u \in UploadIds |-> NoPlan]
  /\ processing = {} /\ queue = <<>>
  /\ task = [p \in Procs |-> Idle]
  /\ sweep = NoSweep
  /\ unpublished = FALSE

\* The process stops at any moment and starts again: what it held in memory
\* is gone, MinIO and SQLite keep theirs.  Clients see the new hub version.
Restart ==
  /\ Allows("restart")
  /\ task' = [p \in Procs |-> Idle]
  /\ reserved' = 0 /\ processing' = {} /\ sweep' = NoSweep
  /\ unpublished' = FALSE
  /\ UNCHANGED <<usedBytes, bucket, multipart, plan, docs, expired, queue>>

RequestSteps(r) ==
  \/ InitSteps(r) \/ CompleteSteps(r) \/ AbortSteps(r)
  \/ DeleteSteps(r) \/ RecomputeSteps(r) \/ RenameSteps(r)

Next ==
  \/ \E r \in Requests : RequestSteps(r)
  \/ \E w \in Workers : PackSteps(w)
  \/ SweepSteps
  \/ \E u \in UploadIds : Expire(u)
  \/ Restart

Spec == Init /\ [][Next]_vars

\* The GC runs at boot and every hour, a worker looks at the queue every five
\* seconds, and a goroutine or worker that has begun goes on: each call it
\* makes returns.  No client has to send a request, or to be answered.
JobStep(p) == /\ task[p].pc \in JobSteps
              /\ \/ p \in Requests /\ RenameSteps(p)
                 \/ p \in Workers /\ PackSteps(p)

Fairness == /\ WF_vars(SweepSteps)
            /\ \A p \in Procs : WF_vars(JobStep(p))

FairSpec == Spec /\ Fairness

---------------------------------------------------------------------------
StoresOK ==
  /\ usedBytes \in Nat /\ reserved \in Nat
  /\ bucket \in [Keys -> Object]
  /\ multipart \subseteq UploadIds
  /\ plan \in [UploadIds -> Plan]
  /\ docs \subseteq UploadIds /\ expired \subseteq UploadIds
  /\ processing \subseteq Paths
  /\ queue \in Seq(Item)
  /\ sweep \in [todo : SUBSET UploadIds, cur : UploadIds \cup {None}]
  /\ unpublished \in BOOLEAN

\* Every variable has its type; in particular no counter goes negative.
TypeOK == StoresOK /\ task \in [Procs -> Task]

---------------------------------------------------------------------------
(* Reservations and quota.                                                 *)

Holders == {r \in Requests : task[r].pc \in {"initMultipart", "initRelease", "initSave"}}
Finishes(r, u) == task[r].up = u /\ task[r].pc \in {"completeDelete", "abortDelete"}
OpenUploads   == {u \in docs : \A r \in Requests : ~Finishes(r, u)}

HeldByUploads  == TotalBytes([u \in OpenUploads |-> plan[u].size])
HeldByRequests == TotalBytes([r \in Holders |-> task[r].n])

\* The bytes reserved are the sizes of the uploads that are open or being
\* opened, whatever call to MinIO fails: a reservation is released exactly
\* once on every path through init, complete and abort.
ReservationLedger == reserved = HeldByUploads + HeldByRequests

\* TryReserve never lets the reservations of a user exceed the quota, nor
\* does any later step: not a restart, a GC pass or requests that interleave.
ReservedWithinQuota == reserved <= Quota

\* The bytes that a task has added to the bucket, and taken from it, but not
\* yet counted in usedBytes.
Gained(p) ==
  LET t == task[p] IN
    CASE t.pc = "completeRestat"                 -> plan[t.up].size
      [] t.pc = "completeUsed"                   -> t.obj.size
      [] t.pc \in {"renameCopy", "renameRemove"} -> BytesIn(t.done)
      [] t.pc = "packUsed"                       -> t.old
      [] OTHER                                   -> 0
Lost(p) ==
  LET t == task[p] IN
    CASE t.pc \in {"completeRestat", "completeUsed"} -> t.old
      [] t.pc = "deleteRemove"                       -> t.n - BytesIn(t.todo)
      [] t.pc = "packUsed"                           -> t.n
      [] OTHER                                       -> 0

\* usedBytes follows the bucket through completes, deletes, renames,
\* recompression and recounts: it differs from the sum of the object sizes
\* only by what running tasks have yet to add or subtract.
UsageLedger ==
  usedBytes + TotalBytes([p \in Procs |-> Gained(p)])
    = BytesIn(Keys) + TotalBytes([p \in Procs |-> Lost(p)])

\* The largest object that a key can come to hold without a new upload.
Prospects(k) == {bucket[k].size} \cup {plan[u].size : u \in {v \in docs \cap multipart : plan[v].key = k}}
WorstCase ==
  TotalBytes([k \in Keys |-> CHOOSE n \in Prospects(k) : \A m \in Prospects(k) : m <= n])

\* Whichever of the open uploads complete, in whatever order, the bucket stays
\* within the quota, although an upload that replaces an object is only
\* charged for the difference (uploadInit's effectiveUsed).
QuotaRespected == WorstCase <= Quota

\* "Parallel uploads cannot collectively exceed a user's quota" (package
\* quota).
UsedWithinQuota == usedBytes <= Quota

---------------------------------------------------------------------------
(* Uploads, files and events.                                              *)

\* A multipart upload that is open in MinIO always has a document, or a
\* handler that is about to save it: nothing else could ever abort it.
UploadsTracked ==
  \A u \in multipart : u \in docs \/ \E r \in Requests : At(r, "initSave") /\ task[r].up = u

\* When no task is running, the last change of the bucket has been published:
\* the hub's version, and with it every cached listing, is up to date.
ChangesPublished == (\A p \in Procs : At(p, "idle")) => ~unpublished

\* Every mark belongs to a running job, so that no path stays refused.
MarksOwned ==
  \A path \in processing : \E p \in Procs : task[p].pc \in JobSteps /\ task[p].path = path

\* No two jobs work on one path, nor one inside the folder that another moves:
\* a rename of what is marked is refused "instead of racing the first" (test
\* RenameBlockedWhileProcessing).
JobsApart ==
  \A p, q \in Procs :
    p # q /\ {task[p].pc, task[q].pc} \subseteq JobSteps => ~Covers(task[p].path, task[q].path)

\* The content of an uploaded file leaves the bucket only by a delete of the
\* file, or by an upload to its path: no rename loses one, whichever of its
\* copies and removals fail or lose their reply ("rather than silently
\* deleting originals whose copy never happened or errored", renameFile).
Deletes(r, k)  == At(r, "deleteRemove") /\ k \in task[r].todo \ task'[r].todo
Replaces(r, k) == At(r, "completeS3") /\ task[r].path = k /\ bucket'[k].content = task[r].up
ContentKept ==
  [][\A k \in Keys : Exists(k) =>
       \/ bucket[k].content \in {bucket'[j].content : j \in Keys}
       \/ \E r \in Requests : Deletes(r, k) \/ Replaces(r, k)]_vars

\* Recompression replaces a file only by a smaller one with the content it
\* has at that moment, neither undoing a later upload nor bringing back a
\* file that was deleted.
PackKeepsContent ==
  [][\A k \in Keys :
       bucket'[k].packed /\ ~bucket[k].packed /\ bucket'[k] \notin {bucket[j] : j \in Keys}
         => bucket'[k].content = bucket[k].content /\ bucket'[k].size <= bucket[k].size]_vars

\* A copy whose original is still there is not yet a file of its own.
Copies == UNION {{Target(task[r], k) : k \in task[r].done} :
                   r \in {q \in Requests : task[q].pc \in {"renameCopy", "renameRemove"}}}
Files == INSTANCE FileStore WITH
  files <- [k \in Keys |-> IF k \in Copies THEN NoObject ELSE bucket[k]],
  spent <- {u \in UploadIds : plan[u] # NoPlan /\ u \notin multipart}

\* The handlers, goroutines and workers together implement FileStore.
FileStoreImplemented == Files!Spec

\* renameFile lists what it will move, and then looks whether the path is being
\* processed.  A job that moves the files away and ends between the two leaves
\* it with a list of what is gone.
NoStaleRename ==
  \A r \in Requests :
    ~ /\ At(r, "renameCheck") /\ At(r, "renameCollide")'
      /\ task[r].todo # FilesAt(task[r].path)

\* From some time on the process is not restarted.
StaysUp == <>[][~Restart]_vars

\* Once the process stays up, an upload older than UploadTTL loses its
\* document, although calls to MinIO may fail.
ExpiredReclaimed ==
  StaysUp => \A u \in UploadIds : u \in docs \cap expired ~> u \notin docs

\* Once the process stays up, a path that is marked becomes available again.
MarksReleased ==
  StaysUp => \A path \in Paths : path \in processing ~> path \notin processing

=============================================================================
