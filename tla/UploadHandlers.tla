-------------------------- MODULE UploadHandlers --------------------------
(***************************************************************************)
(* Multipart uploads: the init, complete and abort handlers of the API and *)
(* the garbage collector of uploads that were never finished.  Each action *)
(* is one call that a handler makes on a store, with the code around it.   *)
(***************************************************************************)
EXTENDS DriveState

---------------------------------------------------------------------------
(* uploadInit                                                              *)

\* currentUser: the handler keeps the user record it reads here.
InitBegin(r, k, n) ==
  /\ Allows("upload") /\ At(r, "idle")
  /\ Become(r, [Idle EXCEPT !.pc = "initCheck", !.path = k, !.n = n,
                            !.old = usedBytes])
  /\ UNCHANGED stores

InitCheck(r) ==
  /\ At(r, "initCheck")
  /\ IF Blocked(task[r].path) THEN Finish(r) ELSE Goto(r, "initStat")
  /\ UNCHANGED stores

\* Mutant: without max(0, ...).
InitStatUnclamped(r) ==
  /\ At(r, "initStat")
  /\ Become(r, [task[r] EXCEPT !.pc = "initReserve",
                  !.old = @ - bucket[task[r].path].size])
  /\ UNCHANGED stores

\* From here on old is effectiveUsed.  When StatObject fails, the object
\* counts as empty.
InitStat(r) ==
  /\ At(r, "initStat")
  /\ \/ Become(r, [task[r] EXCEPT !.pc = "initReserve",
                     !.old = Floor0(@ - bucket[task[r].path].size)])
     \/ Allows("fault") /\ Goto(r, "initReserve")
  /\ UNCHANGED stores

\* Mutant: other reservations are not counted.
FitsAlone(used, size) == used + size <= Quota

\* Reservations.TryReserve
Fits(used, size) == used + reserved + size <= Quota

InitReserve(r) ==
  /\ At(r, "initReserve")
  /\ IF Fits(task[r].old, task[r].n)
     THEN reserved' = reserved + task[r].n /\ Goto(r, "initMultipart")
     ELSE Finish(r) /\ UNCHANGED reserved
  /\ UNCHANGED <<objects, uploads, jobs, usedBytes>>

\* Mutant: a refusal keeps the reservation.
InitRefuseKeeping(r) ==
  /\ At(r, "initMultipart")
  /\ Finish(r)
  /\ UNCHANGED stores

\* The disk is too full, the part size is refused, or MinIO fails.
InitRefuse(r) ==
  /\ At(r, "initMultipart")
  /\ Release(task[r].n)
  /\ Finish(r)
  /\ UNCHANGED <<objects, uploads, jobs, usedBytes>>

\* InitMultipart: MinIO issues an id; its reply may be lost.
InitMultipart(r, u) ==
  /\ At(r, "initMultipart") /\ plan[u] = NoPlan
  /\ multipart' = multipart \cup {u}
  /\ plan' = [plan EXCEPT ![u] = [key |-> task[r].path, size |-> task[r].n]]
  /\ \/ Become(r, [task[r] EXCEPT !.pc = "initSave", !.up = u])
     \/ Allows("lostReply") /\ Goto(r, "initRelease")
  /\ UNCHANGED <<accounts, objects, jobs, docs, expired, sweep>>

InitRelease(r) ==
  /\ At(r, "initRelease")
  /\ Release(task[r].n)
  /\ Finish(r)
  /\ UNCHANGED <<objects, uploads, jobs, usedBytes>>

\* Uploads.Save, whose error the handler ignores.
InitSave(r) ==
  /\ At(r, "initSave")
  /\ \/ docs' = docs \cup {task[r].up}
     \/ Allows("saveFails") /\ UNCHANGED docs
  /\ Finish(r)
  /\ UNCHANGED <<accounts, objects, jobs, multipart, plan, expired, sweep>>

InitSteps(r) ==
  \/ \E k \in Keys, n \in Sizes : InitBegin(r, k, n)
  \/ InitCheck(r) \/ InitStat(r) \/ InitReserve(r) \/ InitRefuse(r)
  \/ \E u \in UploadIds : InitMultipart(r, u)
  \/ InitRelease(r) \/ InitSave(r)

---------------------------------------------------------------------------
(* uploadComplete                                                          *)

\* No other request finishes this upload, except as the run allows.
OnlyFinisher(u) == Allows("overlap") \/ \A q \in Requests : task[q].up # u

\* Uploads.Get; without a document the answer is 404 and nothing changes.
CompleteBegin(r, u) ==
  /\ Allows("upload") /\ At(r, "idle") /\ u \in docs
  /\ OnlyFinisher(u) /\ Quiet(plan[u].key, "lateComplete")
  /\ Become(r, [Idle EXCEPT !.pc = "completeStat", !.path = plan[u].key,
                            !.up = u])
  /\ UNCHANGED stores

\* Mutant: the object that the upload replaces is not subtracted.
CompleteStatNothing(r) == At(r, "completeStat") /\ Goto(r, "completeS3") /\ UNCHANGED stores

\* When StatObject fails, old stays 0.
CompleteStat(r) ==
  /\ At(r, "completeStat")
  /\ \/ Become(r, [task[r] EXCEPT !.pc = "completeS3",
                                  !.old = bucket[task[r].path].size])
     \/ Allows("fault") /\ Goto(r, "completeS3")
  /\ UNCHANGED stores

Uploaded(u) == [size |-> plan[u].size, content |-> u, packed |-> FALSE]

\* CompleteMultipart replaces the object; its reply may be lost.
CompleteS3(r) ==
  /\ At(r, "completeS3") /\ task[r].up \in multipart
  /\ multipart' = multipart \ {task[r].up}
  /\ SetObject(task[r].path, Uploaded(task[r].up))
  /\ \/ Goto(r, "completeRestat")
     \/ Allows("lostReply") /\ Finish(r)
  /\ UNCHANGED <<accounts, jobs, plan, docs, expired, sweep>>

\* The upload is gone in MinIO, or the call fails: the answer is an error,
\* and the reservation and the document stay.
CompleteS3Error(r) ==
  /\ At(r, "completeS3")
  /\ task[r].up \notin multipart \/ Allows("fault")
  /\ Finish(r)
  /\ UNCHANGED stores

\* StatObjectFull, whose error leaves usedBytes alone.
CompleteRestat(r) ==
  /\ At(r, "completeRestat")
  /\ \/ /\ Exists(task[r].path)
        /\ Become(r, [task[r] EXCEPT !.pc = "completeUsed",
                                     !.obj = bucket[task[r].path]])
     \/ /\ ~Exists(task[r].path) \/ Allows("fault")
        /\ Goto(r, "completeRelease")
  /\ UNCHANGED stores

\* AddUsedBytes, then Enqueue when the name is recompressible: two calls in one
\* step, as a worker that sees the usage between them does what it would before.
CompleteUsed(r) ==
  /\ At(r, "completeUsed")
  /\ AddUsedBytes(task[r].obj.size - task[r].old)
  /\ queue' = IF Workers # {} /\ task[r].path[2] \in Archives
              THEN Append(queue, [key     |-> task[r].path,
                                  size    |-> task[r].obj.size,
                                  content |-> task[r].obj.content,
                                  packed  |-> task[r].obj.packed])
              ELSE queue
  /\ Goto(r, "completeRelease")
  /\ UNCHANGED <<objects, uploads, reserved, processing>>

CompleteRelease(r) ==
  /\ At(r, "completeRelease")
  /\ Release(plan[task[r].up].size)
  /\ Goto(r, "completeDelete")
  /\ UNCHANGED <<objects, uploads, jobs, usedBytes>>

\* Uploads.Delete, publishChange
CompleteDelete(r) ==
  /\ At(r, "completeDelete")
  /\ docs' = docs \ {task[r].up}
  /\ Publish
  /\ Finish(r)
  /\ UNCHANGED <<accounts, jobs, bucket, multipart, plan, expired, sweep>>

CompleteSteps(r) ==
  \/ \E u \in UploadIds : CompleteBegin(r, u)
  \/ CompleteStat(r) \/ CompleteS3(r) \/ CompleteS3Error(r)
  \/ CompleteRestat(r) \/ CompleteUsed(r) \/ CompleteRelease(r)
  \/ CompleteDelete(r)

---------------------------------------------------------------------------
(* uploadAbort                                                             *)

AbortBegin(r, u) ==
  /\ Allows("abort") /\ At(r, "idle") /\ u \in docs
  /\ OnlyFinisher(u)
  /\ Become(r, [Idle EXCEPT !.pc = "abortS3", !.up = u])
  /\ UNCHANGED stores

\* Mutant: the upload stays open in MinIO.
AbortNothing(r) == At(r, "abortS3") /\ Goto(r, "abortRelease") /\ UNCHANGED stores

\* AbortMultipart, whose error the handler ignores.
AbortS3(r) ==
  /\ At(r, "abortS3")
  /\ \/ multipart' = multipart \ {task[r].up}
     \/ Allows("fault") /\ UNCHANGED multipart
  /\ Goto(r, "abortRelease")
  /\ UNCHANGED <<accounts, objects, jobs, plan, docs, expired, sweep>>

AbortRelease(r) ==
  /\ At(r, "abortRelease")
  /\ Release(plan[task[r].up].size)
  /\ Goto(r, "abortDelete")
  /\ UNCHANGED <<objects, uploads, jobs, usedBytes>>

AbortDelete(r) ==
  /\ At(r, "abortDelete")
  /\ docs' = docs \ {task[r].up}
  /\ Finish(r)
  /\ UNCHANGED <<accounts, objects, jobs, multipart, plan, expired, sweep>>

AbortSteps(r) ==
  \/ \E u \in UploadIds : AbortBegin(r, u)
  \/ AbortS3(r) \/ AbortRelease(r) \/ AbortDelete(r)

---------------------------------------------------------------------------
(* uploads.GC, which runs at boot and then every hour.  It never touches   *)
(* the reservations.                                                       *)

NoSweep == [todo |-> {}, cur |-> None]

\* A document becomes older than UploadTTL.
Expire(u) ==
  /\ Allows("expiry") /\ u \in docs \ expired
  /\ expired' = expired \cup {u}
  /\ UNCHANGED <<accounts, objects, jobs, multipart, plan, docs, task, sweep>>

\* WalkAll; a pass that finds nothing old does nothing.
SweepBegin ==
  /\ sweep = NoSweep /\ docs \cap expired # {}
  /\ sweep' = [NoSweep EXCEPT !.todo = docs \cap expired]
  /\ UNCHANGED <<accounts, objects, jobs, multipart, plan, docs, expired, task>>

\* AbortMultipart, whose error the GC ignores.
SweepAbort(u) ==
  /\ sweep.cur = None /\ u \in sweep.todo
  /\ \/ multipart' = multipart \ {u}
     \/ Allows("fault") /\ UNCHANGED multipart
  /\ sweep' = [todo |-> sweep.todo \ {u}, cur |-> u]
  /\ UNCHANGED <<accounts, objects, jobs, plan, docs, expired, task>>

\* Mutant: the document stays.
SweepKeep ==
  /\ sweep.cur # None
  /\ sweep' = [sweep EXCEPT !.cur = None]
  /\ UNCHANGED <<accounts, objects, jobs, multipart, plan, docs, expired, task>>

SweepDelete ==
  /\ sweep.cur # None
  /\ docs' = docs \ {sweep.cur}
  /\ sweep' = [sweep EXCEPT !.cur = None]
  /\ UNCHANGED <<accounts, objects, jobs, multipart, plan, expired, task>>

SweepSteps ==
  \/ SweepBegin
  \/ \E u \in UploadIds : SweepAbort(u)
  \/ SweepDelete

=============================================================================
