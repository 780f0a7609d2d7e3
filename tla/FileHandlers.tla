--------------------------- MODULE FileHandlers ---------------------------
(***************************************************************************)
(* The handlers that change the files of a bucket: delete (a file, or all  *)
(* files under a folder), recompute, and rename (of a file or a folder),   *)
(* which answers as soon as the path is marked and goes on in a goroutine. *)
(***************************************************************************)
EXTENDS DriveState

---------------------------------------------------------------------------
(* deleteFile                                                              *)

\* A path that is being processed is refused, which changes nothing.
DeleteBegin(r, path) ==
  /\ Allows("delete") /\ At(r, "idle")
  /\ ~Blocked(path) /\ Quiet(path, "jobs")
  /\ Become(r, [Idle EXCEPT !.pc = "deleteList", !.path = path])
  /\ UNCHANGED stores

\* StatObject of a file, ListObjects of a folder; a file that is not there
\* is an error, a folder is just empty.
DeleteList(r) ==
  /\ At(r, "deleteList")
  /\ LET found == FilesAt(task[r].path) IN
       \/ /\ found # {} \/ task[r].path \in Folders
          /\ Become(r, [task[r] EXCEPT !.pc = "deleteRemove", !.todo = found,
                                       !.n = BytesIn(found)])
       \/ /\ (found = {} /\ task[r].path \in Keys) \/ Allows("fault")
          /\ Finish(r)
  /\ UNCHANGED stores

\* RemoveObject, RemoveObjects: the keys go one by one, and those that fail
\* are reported at the end.
DeleteRemove(r, k) ==
  /\ At(r, "deleteRemove") /\ k \in task[r].todo
  /\ \/ /\ SetObject(k, NoObject)
        /\ \/ Become(r, [task[r] EXCEPT !.todo = @ \ {k}])
           \/ /\ Allows("lostReply")
              /\ Become(r, [task[r] EXCEPT !.todo = @ \ {k}, !.failed = TRUE])
     \/ /\ Allows("fault")
        /\ Become(r, [task[r] EXCEPT !.todo = @ \ {k}, !.failed = TRUE])
        /\ UNCHANGED objects
  /\ UNCHANGED <<accounts, uploads, jobs>>

\* An error ends the handler here.
DeleteError(r) ==
  /\ At(r, "deleteRemove") /\ task[r].todo = {} /\ task[r].failed
  /\ Finish(r)
  /\ UNCHANGED stores

\* Mutant: no event.
DeleteUsedSilently(r) ==
  /\ At(r, "deleteRemove") /\ task[r].todo = {} /\ ~task[r].failed
  /\ AddUsedBytes(-task[r].n)
  /\ Finish(r)
  /\ UNCHANGED <<uploads, jobs, objects, reserved>>

\* AddUsedBytes(-freed), publishChange
DeleteUsed(r) ==
  /\ At(r, "deleteRemove") /\ task[r].todo = {} /\ ~task[r].failed
  /\ AddUsedBytes(-task[r].n)
  /\ Publish
  /\ Finish(r)
  /\ UNCHANGED <<uploads, jobs, bucket, reserved>>

DeleteSteps(r) ==
  \/ \E path \in Paths : DeleteBegin(r, path)
  \/ DeleteList(r)
  \/ \E k \in Keys : DeleteRemove(r, k)
  \/ DeleteError(r) \/ DeleteUsed(r)

---------------------------------------------------------------------------
(* recomputeUsage                                                          *)

\* No handler is in the middle of changing the bucket, except as the run
\* allows.
AllQuiet == Allows("overlap") \/ \A q \in Procs : At(q, "idle")

RecomputeList(r) ==
  /\ Allows("recompute") /\ At(r, "idle") /\ AllQuiet
  /\ Become(r, [Idle EXCEPT !.pc = "recomputeSet", !.n = BytesIn(Keys)])
  /\ UNCHANGED stores

\* SetUsedBytes
RecomputeSet(r) ==
  /\ At(r, "recomputeSet")
  /\ usedBytes' = task[r].n
  /\ Finish(r)
  /\ UNCHANGED <<objects, uploads, jobs, reserved>>

RecomputeSteps(r) == RecomputeList(r) \/ RecomputeSet(r)

---------------------------------------------------------------------------
(* renameFile                                                              *)

\* The new path has the same parent: a file moves to another name of its
\* folder, a folder to another folder.
Siblings(path, to) ==
  \/ path \in Folders /\ to \in Folders /\ path # to
  \/ path \in Keys /\ to \in Keys /\ path[1] = to[1] /\ path # to

Target(t, k) == IF t.path \in Keys THEN t.to ELSE <<t.to, k[2]>>

\* StatObject or ListObjects of the source; nothing there is a 404.
RenameBegin(r, path, to) ==
  /\ Allows("rename") /\ At(r, "idle") /\ Siblings(path, to)
  /\ Quiet(path, "jobs") /\ Quiet(to, "jobs")
  /\ FilesAt(path) # {}
  /\ Become(r, [Idle EXCEPT !.pc = "renameCheck", !.path = path, !.to = to,
                            !.todo = FilesAt(path)])
  /\ UNCHANGED stores

\* Mutant: a source that is being processed is accepted.
RenameCheckNothing(r) == At(r, "renameCheck") /\ Goto(r, "renameCollide") /\ UNCHANGED stores

\* isProcessingBlocked and the disk check
RenameCheck(r) ==
  /\ At(r, "renameCheck")
  /\ \/ Blocked(task[r].path) /\ Finish(r)
     \/ Allows("diskFull") /\ Finish(r)
     \/ ~Blocked(task[r].path) /\ Goto(r, "renameCollide")
  /\ UNCHANGED stores

\* A check that fails counts as no collision.
RenameCollide(r) ==
  /\ At(r, "renameCollide")
  /\ \/ FilesAt(task[r].to) # {} /\ Finish(r)
     \/ (FilesAt(task[r].to) = {} \/ Allows("checkFails")) /\ Goto(r, "renameMark")
  /\ UNCHANGED stores

\* addProcessing, publishChange, and the request is answered
RenameMark(r) ==
  /\ At(r, "renameMark")
  /\ processing' = processing \cup {task[r].path}
  /\ Publish
  /\ Goto(r, "renameCopy")
  /\ UNCHANGED <<accounts, uploads, bucket, queue>>

\* Mutant: a failed copy counts as done.
RenameCopyAnyway(r, k) ==
  /\ At(r, "renameCopy") /\ k \in task[r].todo
  /\ Become(r, [task[r] EXCEPT !.todo = @ \ {k}, !.done = @ \cup {k}])
  /\ \/ Exists(k) /\ SetObject(Target(task[r], k), bucket[k])
     \/ (~Exists(k) \/ Allows("fault")) /\ UNCHANGED objects
  /\ UNCHANGED <<accounts, uploads, jobs>>

\* CopyObject: the copies of a folder run in any order, and the keys that
\* were copied are kept for the removal.  A source that is gone is an error.
RenameCopy(r, k) ==
  /\ At(r, "renameCopy") /\ k \in task[r].todo
  /\ \/ /\ Exists(k)
        /\ SetObject(Target(task[r], k), bucket[k])
        /\ \/ Become(r, [task[r] EXCEPT !.todo = @ \ {k}, !.done = @ \cup {k}])
           \/ /\ Allows("lostReply")
              /\ Become(r, [task[r] EXCEPT !.todo = @ \ {k}, !.failed = TRUE])
     \/ /\ ~Exists(k) \/ Allows("fault")
        /\ Become(r, [task[r] EXCEPT !.todo = @ \ {k}, !.failed = TRUE])
        /\ UNCHANGED objects
  /\ UNCHANGED <<accounts, uploads, jobs>>

\* Only when every copy succeeded are the originals removed.
RenameCopied(r) ==
  /\ At(r, "renameCopy") /\ task[r].todo = {}
  /\ Goto(r, IF task[r].failed THEN "renamePublish" ELSE "renameRemove")
  /\ UNCHANGED stores

\* Mutant: only the originals of a folder are removed.
RenameRemoveFolders(r, k) ==
  /\ At(r, "renameRemove") /\ k \in task[r].done
  /\ Become(r, [task[r] EXCEPT !.done = @ \ {k}])
  /\ \/ task[r].path \in Folders /\ SetObject(k, NoObject)
     \/ task[r].path \in Keys /\ UNCHANGED objects
  /\ UNCHANGED <<accounts, uploads, jobs>>

\* RemoveObject, RemoveObjects
RenameRemove(r, k) ==
  /\ At(r, "renameRemove") /\ k \in task[r].done
  /\ Become(r, [task[r] EXCEPT !.done = @ \ {k}])
  /\ \/ SetObject(k, NoObject)
     \/ Allows("fault") /\ UNCHANGED objects
  /\ UNCHANGED <<accounts, uploads, jobs>>

\* publishChange, or the RenameError event
RenamePublish(r) ==
  /\ \/ At(r, "renamePublish")
     \/ At(r, "renameRemove") /\ task[r].done = {}
  /\ Publish
  /\ Goto(r, "renameUnmark")
  /\ UNCHANGED <<accounts, uploads, jobs, bucket>>

\* Mutant: the mark is never removed.
RenameKeepMark(r) == At(r, "renameUnmark") /\ Finish(r) /\ UNCHANGED stores

\* The deferred removeProcessing
RenameUnmark(r) ==
  /\ At(r, "renameUnmark")
  /\ processing' = processing \ {task[r].path}
  /\ Finish(r)
  /\ UNCHANGED <<accounts, objects, uploads, queue>>

RenameSteps(r) ==
  \/ \E path, to \in Paths : RenameBegin(r, path, to)
  \/ RenameCheck(r) \/ RenameCollide(r) \/ RenameMark(r)
  \/ \E k \in Keys : RenameCopy(r, k) \/ RenameRemove(r, k)
  \/ RenameCopied(r) \/ RenamePublish(r) \/ RenameUnmark(r)

=============================================================================
