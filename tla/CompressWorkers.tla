-------------------------- MODULE CompressWorkers -------------------------
(***************************************************************************)
(* The workers that recompress archives after their upload.  An item is    *)
(* taken off the queue before it is processed.  Decompression, packing and *)
(* verification change nothing but files of the worker: they are one step  *)
(* that yields the size of the result, or nothing.                         *)
(***************************************************************************)
EXTENDS DriveState

CONSTANT Requeued  \* the archives (zip) that go back on the queue when the
                   \* disk is full; the others (jpeg) are dropped

ASSUME RequeuedAssumption == Requeued \subseteq Archives

\* Queue.Dequeue; the task keeps the item.  A worker looks at no mark and waits
\* for nobody: Quiet is a restriction of the model, void with "overlap".
Dequeue(w) ==
  /\ At(w, "idle") /\ queue # <<>>
  /\ Quiet(Head(queue).key, "jobs")
  /\ queue' = Tail(queue)
  /\ LET item == Head(queue) IN
       Become(w, [Idle EXCEPT !.pc = "packCheck", !.path = item.key,
                    !.n = item.size,
                    !.obj = [size    |-> item.size,
                             content |-> item.content,
                             packed  |-> item.packed]])
  /\ UNCHANGED <<accounts, objects, uploads, processing>>

\* HasSourceMeta: an object that was recompressed before is skipped, unless
\* the call fails.
PackCheck(w) ==
  /\ At(w, "packCheck")
  /\ \/ bucket[task[w].path].packed /\ Finish(w)
     \/ (~bucket[task[w].path].packed \/ Allows("fault")) /\ Goto(w, "packDisk")
  /\ UNCHANGED stores

ItemOf(t) == [key |-> t.path, size |-> t.n, content |-> t.obj.content,
              packed |-> t.obj.packed]
Requeue(t) == queue' = IF t.path[2] \in Requeued
                       THEN Append(queue, ItemOf(t)) ELSE queue

PackDiskFull(w) ==
  /\ At(w, "packDisk") /\ Allows("diskFull")
  /\ Requeue(task[w])
  /\ Finish(w)
  /\ UNCHANGED <<accounts, objects, uploads, processing>>

\* startTracking
PackMark(w) ==
  /\ At(w, "packDisk")
  /\ processing' = processing \cup {task[w].path}
  /\ Publish
  /\ Goto(w, "packLoad")
  /\ UNCHANGED <<accounts, uploads, bucket, queue>>

\* downloadObject: up records whose content was read.
PackLoad(w) ==
  /\ At(w, "packLoad")
  /\ IF Exists(task[w].path)
     THEN Become(w, [task[w] EXCEPT !.pc = "pack",
                                    !.up = bucket[task[w].path].content])
     ELSE Goto(w, "packUnmark")
  /\ UNCHANGED stores

\* The result saves at least minSavingPct of the size of the item.
Saves(size, result) == (size - result) * 100 >= size * 5

Pack(w, m) ==
  /\ At(w, "pack") /\ Saves(task[w].n, m)
  /\ Become(w, [task[w] EXCEPT !.pc = "packStat", !.old = m])
  /\ UNCHANGED stores

\* Nothing to replace: an error, a failed verification, a result that saves
\* too little; or a call to MinIO fails before or after.
PackNothing(w) ==
  /\ At(w, "pack") \/ (Allows("fault") /\ task[w].pc \in {"packLoad", "packStat"})
  /\ Goto(w, "packUnmark")
  /\ UNCHANGED stores

\* The extracted archive does not leave enough disk to pack it again.
PackRequeue(w) ==
  /\ At(w, "pack") /\ Allows("diskFull") /\ task[w].path[2] \in Requeued
  /\ Requeue(task[w])
  /\ Goto(w, "packUnmark")
  /\ UNCHANGED <<accounts, objects, uploads, processing>>

\* Mutant: the ETag is not compared.
PackStatAny(w) ==
  /\ At(w, "packStat")
  /\ Goto(w, IF Exists(task[w].path) THEN "packPut" ELSE "packUnmark")
  /\ UNCHANGED stores

\* replaceObject: the object must still be the one that was enqueued.
PackStat(w) ==
  /\ At(w, "packStat")
  /\ IF /\ Exists(task[w].path)
        /\ ETag(bucket[task[w].path]) = ETag(task[w].obj)
     THEN Goto(w, "packPut") ELSE Goto(w, "packUnmark")
  /\ UNCHANGED stores

\* Mutant: without the mist-source-size metadata.
PackedPlainly(t) == [size |-> t.old, content |-> t.up, packed |-> FALSE]

Packed(t) == [size |-> t.old, content |-> t.up, packed |-> TRUE]

PackPut(w) ==
  /\ At(w, "packPut")
  /\ \/ /\ SetObject(task[w].path, Packed(task[w]))
        /\ \/ Goto(w, "packUsed")
           \/ Allows("lostReply") /\ Goto(w, "packUnmark")
     \/ Allows("fault") /\ Goto(w, "packUnmark") /\ UNCHANGED objects
  /\ UNCHANGED <<accounts, uploads, jobs>>

\* AddUsedBytes(-saved) and the event
PackUsed(w) ==
  /\ At(w, "packUsed")
  /\ AddUsedBytes(task[w].old - task[w].n)
  /\ Publish
  /\ Goto(w, "packUnmark")
  /\ UNCHANGED <<uploads, jobs, bucket, reserved>>

\* Mutant: the mark is never removed.
PackKeepMark(w) == At(w, "packUnmark") /\ Publish /\ Finish(w)
                   /\ UNCHANGED <<accounts, uploads, jobs, bucket>>

\* The teardown of startTracking
PackUnmark(w) ==
  /\ At(w, "packUnmark")
  /\ processing' = processing \ {task[w].path}
  /\ Publish
  /\ Finish(w)
  /\ UNCHANGED <<accounts, uploads, bucket, queue>>

PackSteps(w) ==
  \/ Dequeue(w) \/ PackCheck(w) \/ PackDiskFull(w) \/ PackMark(w)
  \/ PackLoad(w) \/ (\E m \in Sizes : Pack(w, m)) \/ PackNothing(w)
  \/ PackRequeue(w) \/ PackStat(w) \/ PackPut(w) \/ PackUsed(w)
  \/ PackUnmark(w)

=============================================================================
