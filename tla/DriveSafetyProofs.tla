------------------------- MODULE DriveSafetyProofs -------------------------
(***************************************************************************)
(* Safety of Drive, first what holds whatever is Allowed: reservations     *)
(* stay within the quota, and marks have their jobs.  Then, each under the *)
(* disturbances that the code does not stand, named where they come up:    *)
(* jobs stay apart, uploads stay tracked, and changes get published.       *)
(***************************************************************************)
EXTENDS DriveProofs

---------------------------------------------------------------------------
(* Reservations never exceed the quota.  Only TryReserve adds to them, and *)
(* it compares with a usage that is not negative.                          *)

LEMMA ReservedInit == Init => ReservedWithinQuota
BY DriveAssumption DEF Init, ReservedWithinQuota

LEMMA InitReserveWithin ==
  ASSUME TypeInv, NEW r \in Requests, InitReserve(r), ReservedWithinQuota
  PROVE  ReservedWithinQuota'
<1>1. task[r].old \in Nat /\ task[r].n \in Nat /\ reserved \in Nat
  BY TaskTyped DEF Procs, Task, TypeInv, TypeOK, StoresOK
<1> QED
  BY <1>1, DriveAssumption DEF InitReserve, Fits, ReservedWithinQuota

\* Any other step releases reservations, or leaves them alone.
LEMMA ReleaseWithin ==
  ASSUME reserved \in Nat, NEW n \in Nat, Release(n)
  PROVE  reserved' <= reserved
BY DEF Release, Floor0

LEMMA RequestsWithin ==
  ASSUME TypeInv, NEW r \in Requests, RequestSteps(r), ReservedWithinQuota
  PROVE  ReservedWithinQuota'
<1> USE DEF accounts, stores
<1>0. /\ reserved \in Nat /\ Quota \in Nat /\ task[r].n \in Nat
      /\ task[r].pc \in UploadSteps => plan[task[r].up].size \in Nat
  BY TaskTyped, DriveAssumption
     DEF Procs, Task, TypeInv, TypeOK, StoresOK, Fitted, Planned, Plan
<1>1. CASE InitReserve(r)
  BY <1>1, InitReserveWithin
<1>2. CASE InitRefuse(r) \/ InitRelease(r)
  BY <1>0, <1>2, ReleaseWithin DEF InitRefuse, InitRelease, Release, Floor0, ReservedWithinQuota
<1>3. CASE CompleteRelease(r) \/ AbortRelease(r)
  BY <1>0, <1>3 DEF CompleteRelease, AbortRelease, At, UploadSteps, Release, Floor0,
     ReservedWithinQuota
<1>4. CASE InitSteps(r) /\ ~InitReserve(r) /\ ~InitRefuse(r) /\ ~InitRelease(r)
  BY <1>4 DEF InitSteps, InitBegin, InitCheck, InitStat, InitMultipart, InitSave,
     ReservedWithinQuota
<1>5. CASE CompleteSteps(r) /\ ~CompleteRelease(r)
  BY <1>5 DEF CompleteSteps, CompleteBegin, CompleteStat, CompleteS3, CompleteS3Error,
     CompleteRestat, CompleteUsed, CompleteDelete, ReservedWithinQuota
<1>6. CASE AbortSteps(r) /\ ~AbortRelease(r)
  BY <1>6 DEF AbortSteps, AbortBegin, AbortS3, AbortDelete, ReservedWithinQuota
<1>7. CASE DeleteSteps(r)
  BY <1>7 DEF DeleteSteps, DeleteBegin, DeleteList, DeleteRemove, DeleteError, DeleteUsed,
     ReservedWithinQuota
<1>8. CASE RecomputeSteps(r)
  BY <1>8 DEF RecomputeSteps, RecomputeList, RecomputeSet, ReservedWithinQuota
<1>9. CASE RenameSteps(r)
  BY <1>9 DEF RenameSteps, RenameBegin, RenameCheck, RenameCollide, RenameMark, RenameCopy,
     RenameCopied, RenameRemove, RenamePublish, RenameUnmark, ReservedWithinQuota
<1> QED
  BY <1>1, <1>2, <1>3, <1>4, <1>5, <1>6, <1>7, <1>8, <1>9
     DEF RequestSteps

LEMMA OthersWithin ==
  ASSUME ReservedWithinQuota,
         \/ \E w \in Workers : PackSteps(w)
         \/ SweepSteps \/ (\E u \in UploadIds : Expire(u)) \/ Restart
         \/ UNCHANGED vars
  PROVE  ReservedWithinQuota'
<1> USE DEF accounts, stores
<1>1. ASSUME NEW w \in Workers, PackSteps(w) PROVE ReservedWithinQuota'
  BY <1>1 DEF PackSteps, Dequeue, PackCheck, PackDiskFull, PackMark, PackLoad, Pack,
     PackNothing, PackRequeue, PackStat, PackPut, PackUsed, PackUnmark, ReservedWithinQuota
<1>2. CASE SweepSteps \/ \E u \in UploadIds : Expire(u)
  BY <1>2 DEF SweepSteps, SweepBegin, SweepAbort, SweepDelete, Expire, ReservedWithinQuota
<1>3. CASE Restart
  BY <1>3, DriveAssumption DEF Restart, ReservedWithinQuota
<1>4. CASE UNCHANGED vars
  BY <1>4 DEF vars, ReservedWithinQuota
<1> QED
  BY <1>1, <1>2, <1>3, <1>4

\* TryReserve keeps the reservations of a user within the quota, and no other
\* step of the system adds to them: with any number of requests in any order,
\* through faults, GC passes and restarts.
THEOREM ReservationsBounded == Spec => []ReservedWithinQuota
<1>1. TypeInv /\ ReservedWithinQuota /\ [Next]_vars => ReservedWithinQuota'
  BY RequestsWithin, OthersWithin DEF Next
<1> QED
  BY <1>1, InitType, NextType, ReservedInit, PTL DEF Spec

---------------------------------------------------------------------------
(* Marks.  A path is marked by the step with which a task becomes a job,   *)
(* and unmarked by the step with which the job ends: in between the job    *)
(* keeps its path.  Two jobs may share a mark, and then the first to end   *)
(* takes it away from the other; so that the converse, that a job has its  *)
(* mark, is not invariant.                                                 *)

\* p goes on to t without orphaning the mark it had.
KeepsMarksOwned(p, t) ==
  \A path \in processing' :
     \/ t.pc \in JobSteps /\ t.path = path
     \/ path \in processing /\ (task[p].pc \in JobSteps => task[p].path # path)

LEMMA MarksStep ==
  ASSUME TypeOK, MarksOwned, NEW p \in Procs, NEW t, Become(p, t), KeepsMarksOwned(p, t)
  PROVE  MarksOwned'
<1>1. task'[p] = t /\ \A q \in Procs \ {p} : task'[q] = task[q]
  BY DEF TypeOK, Become
<1> SUFFICES ASSUME NEW path \in processing'
             PROVE  \E q \in Procs : task'[q].pc \in JobSteps /\ task'[q].path = path
  BY DEF MarksOwned
<1>2. CASE t.pc \in JobSteps /\ t.path = path
  BY <1>1, <1>2
<1>3. CASE path \in processing /\ (task[p].pc \in JobSteps => task[p].path # path)
  <2>1. PICK q \in Procs : task[q].pc \in JobSteps /\ task[q].path = path
    BY <1>3 DEF MarksOwned
  <2> QED BY <1>1, <1>3, <2>1
<1> QED BY <1>2, <1>3 DEF KeepsMarksOwned

\* A step outside any job, that marks nothing.
LEMMA MarksIdleStep ==
  ASSUME TypeOK, MarksOwned, NEW p \in Procs, NEW t, Become(p, t),
         task[p].pc \notin JobSteps, UNCHANGED processing
  PROVE  MarksOwned'
BY MarksStep DEF KeepsMarksOwned

\* A step inside a job.
LEMMA MarksJobStep ==
  ASSUME TypeOK, MarksOwned, NEW p \in Procs, NEW t, Become(p, t),
         t.pc \in JobSteps, t.path = task[p].path, UNCHANGED processing
  PROVE  MarksOwned'
BY MarksStep DEF KeepsMarksOwned

LEMMA MarksGotoStep ==
  ASSUME TypeInv, MarksOwned, NEW p \in Procs, NEW pc \in JobSteps, Goto(p, pc),
         UNCHANGED processing
  PROVE  MarksOwned'
<1> DEFINE t == [task[p] EXCEPT !.pc = pc]
<1>1. TypeOK /\ t.pc \in JobSteps /\ t.path = task[p].path /\ Become(p, t)
  BY TaskTyped DEF TypeInv, Task, Goto
<1> HIDE DEF t
<1> QED BY <1>1, MarksJobStep

LEMMA UploadsOwned ==
  ASSUME TypeInv, MarksOwned, NEW r \in Requests,
         InitSteps(r) \/ CompleteSteps(r) \/ AbortSteps(r)
  PROVE  MarksOwned'
<1>1. r \in Procs /\ TypeOK
  BY DEF Procs, TypeInv
<1> DEFINE Stepped == task[r].pc \notin JobSteps /\ UNCHANGED processing /\ \E t : Become(r, t)
<1>2. CASE InitSteps(r)
  <2> Stepped
    BY <1>2 DEF InitSteps, InitBegin, InitCheck, InitStat, InitReserve, InitRefuse,
       InitMultipart, InitRelease, InitSave, At, JobSteps, Goto, Finish, stores, jobs
  <2> QED BY <1>1, MarksIdleStep
<1>3. CASE CompleteSteps(r)
  <2> Stepped
    BY <1>3 DEF CompleteSteps, CompleteBegin, CompleteStat, CompleteS3, CompleteS3Error,
       CompleteRestat, CompleteUsed, CompleteRelease, CompleteDelete,
       At, JobSteps, Goto, Finish, stores, jobs
  <2> QED BY <1>1, MarksIdleStep
<1>4. CASE AbortSteps(r)
  <2> Stepped
    BY <1>4 DEF AbortSteps, AbortBegin, AbortS3, AbortRelease, AbortDelete,
       At, JobSteps, Goto, Finish, stores, jobs
  <2> QED BY <1>1, MarksIdleStep
<1> QED BY <1>2, <1>3, <1>4

LEMMA FilesOwned ==
  ASSUME TypeInv, MarksOwned, NEW r \in Requests,
         DeleteSteps(r) \/ RecomputeSteps(r) \/ RenameSteps(r)
  PROVE  MarksOwned'
<1>1. r \in Procs /\ TypeOK /\ task[r] \in Task
  BY TaskTyped DEF Procs, TypeInv
<1> DEFINE Stepped == task[r].pc \notin JobSteps /\ UNCHANGED processing /\ \E t : Become(r, t)
<1>2. CASE DeleteSteps(r) \/ RecomputeSteps(r)
  <2> Stepped
    BY <1>2 DEF DeleteSteps, DeleteBegin, DeleteList, DeleteRemove, DeleteError, DeleteUsed,
       RecomputeSteps, RecomputeList, RecomputeSet, At, JobSteps, Finish, stores, jobs
  <2> QED BY <1>1, MarksIdleStep
<1>3. ASSUME NEW path \in Paths, NEW to \in Paths, RenameBegin(r, path, to) PROVE MarksOwned'
  BY <1>1, <1>3, MarksIdleStep DEF RenameBegin, At, JobSteps, stores, jobs
<1>4. CASE RenameCheck(r) \/ RenameCollide(r)
  <2> Stepped
    BY <1>4 DEF RenameCheck, RenameCollide, At, JobSteps, Goto, Finish, stores, jobs
  <2> QED BY <1>1, MarksIdleStep
<1>5. CASE RenameMark(r)
  <2> DEFINE t == [task[r] EXCEPT !.pc = "renameCopy"]
  <2>1. t.pc \in JobSteps /\ t.path = task[r].path /\ task[r].pc \notin JobSteps
    BY <1>1, <1>5 DEF RenameMark, At, JobSteps, Task
  <2>2. Become(r, t) /\ processing' = processing \cup {task[r].path}
    BY <1>5 DEF RenameMark, Goto
  <2> HIDE DEF t
  <2> QED BY <1>1, <2>1, <2>2, MarksStep DEF KeepsMarksOwned
<1>6. ASSUME NEW k \in Keys, RenameCopy(r, k) \/ RenameRemove(r, k) PROVE MarksOwned'
  <2> DEFINE copied  == [task[r] EXCEPT !.todo = @ \ {k}, !.done = @ \cup {k}]
             not     == [task[r] EXCEPT !.todo = @ \ {k}, !.failed = TRUE]
             removed == [task[r] EXCEPT !.done = @ \ {k}]
  <2>1. task[r].pc \in JobSteps
    BY <1>6 DEF RenameCopy, RenameRemove, At, JobSteps
  <2>2. \A t \in {copied, not, removed} : t.pc \in JobSteps /\ t.path = task[r].path
    BY <1>1, <2>1 DEF Task
  <2>3. UNCHANGED processing /\ (Become(r, copied) \/ Become(r, not) \/ Become(r, removed))
    BY <1>6 DEF RenameCopy, RenameRemove, jobs
  <2> HIDE DEF copied, not, removed
  <2> QED BY <1>1, <2>2, <2>3, MarksJobStep
<1>7. CASE RenameCopied(r) \/ RenamePublish(r)
  <2>1. {"renamePublish", "renameRemove", "renameUnmark"} \subseteq JobSteps
    BY DEF JobSteps
  <2>2. UNCHANGED processing
    BY <1>7 DEF RenameCopied, RenamePublish, stores, jobs
  <2>3. Goto(r, "renamePublish") \/ Goto(r, "renameRemove") \/ Goto(r, "renameUnmark")
    BY <1>7 DEF RenameCopied, RenamePublish
  <2> QED BY <1>1, <2>1, <2>2, <2>3, MarksGotoStep
<1>8. CASE RenameUnmark(r)
  BY <1>1, <1>8, MarksStep DEF RenameUnmark, Finish, KeepsMarksOwned
<1> QED BY <1>2, <1>3, <1>4, <1>5, <1>6, <1>7, <1>8 DEF RenameSteps

LEMMA PacksOwned ==
  ASSUME TypeInv, MarksOwned, NEW w \in Workers, PackSteps(w)
  PROVE  MarksOwned'
<1>1. w \in Procs /\ TypeOK /\ task[w] \in Task
  BY TaskTyped DEF Procs, TypeInv
<1> DEFINE Stepped == task[w].pc \notin JobSteps /\ UNCHANGED processing /\ \E t : Become(w, t)
<1>2. CASE Dequeue(w) \/ PackCheck(w) \/ PackDiskFull(w)
  <2> Stepped
    BY <1>2 DEF Dequeue, PackCheck, PackDiskFull, At, JobSteps, Goto, Finish, stores, jobs
  <2> QED BY <1>1, MarksIdleStep
<1>3. CASE PackMark(w)
  <2> DEFINE t == [task[w] EXCEPT !.pc = "packLoad"]
  <2>1. t.pc \in JobSteps /\ t.path = task[w].path /\ task[w].pc \notin JobSteps
    BY <1>1, <1>3 DEF PackMark, At, JobSteps, Task
  <2>2. Become(w, t) /\ processing' = processing \cup {task[w].path}
    BY <1>3 DEF PackMark, Goto
  <2> HIDE DEF t
  <2> QED BY <1>1, <2>1, <2>2, MarksStep DEF KeepsMarksOwned
<1>4. ASSUME NEW m \in Sizes, Pack(w, m) PROVE MarksOwned'
  <2> DEFINE t == [task[w] EXCEPT !.pc = "packStat", !.old = m]
  <2>1. t.pc \in JobSteps /\ t.path = task[w].path
    BY <1>1 DEF JobSteps, Task
  <2>2. Become(w, t) /\ UNCHANGED processing
    BY <1>4 DEF Pack, stores, jobs
  <2> HIDE DEF t
  <2> QED BY <1>1, <2>1, <2>2, MarksJobStep
<1>5. CASE PackLoad(w) /\ Exists(task[w].path)
  <2> DEFINE t == [task[w] EXCEPT !.pc = "pack", !.up = bucket[task[w].path].content]
  <2>1. t.pc \in JobSteps /\ t.path = task[w].path
    BY <1>1 DEF JobSteps, Task
  <2>2. Become(w, t) /\ UNCHANGED processing
    BY <1>5 DEF PackLoad, stores, jobs
  <2> HIDE DEF t
  <2> QED BY <1>1, <2>1, <2>2, MarksJobStep
<1>6. CASE \/ PackLoad(w) /\ ~Exists(task[w].path)
           \/ PackNothing(w) \/ PackRequeue(w) \/ PackStat(w) \/ PackPut(w) \/ PackUsed(w)
  <2>1. {"packPut", "packUsed", "packUnmark"} \subseteq JobSteps
    BY DEF JobSteps
  <2>2. UNCHANGED processing
    BY <1>6 DEF PackLoad, PackNothing, PackRequeue, PackStat, PackPut, PackUsed, stores, jobs
  <2>3. Goto(w, "packPut") \/ Goto(w, "packUsed") \/ Goto(w, "packUnmark")
    BY <1>6 DEF PackLoad, PackNothing, PackRequeue, PackStat, PackPut, PackUsed
  <2> QED BY <1>1, <2>1, <2>2, <2>3, MarksGotoStep
<1>7. CASE PackUnmark(w)
  BY <1>1, <1>7, MarksStep DEF PackUnmark, Finish, KeepsMarksOwned
<1> QED BY <1>2, <1>3, <1>4, <1>5, <1>6, <1>7 DEF PackSteps

LEMMA OthersOwned ==
  ASSUME MarksOwned,
         SweepSteps \/ (\E u \in UploadIds : Expire(u)) \/ Restart \/ UNCHANGED vars
  PROVE  MarksOwned'
<1>1. CASE Restart
  BY <1>1 DEF Restart, MarksOwned
<1>2. CASE SweepSteps \/ (\E u \in UploadIds : Expire(u)) \/ UNCHANGED vars
  <2> UNCHANGED <<processing, task>>
    BY <1>2 DEF SweepSteps, SweepBegin, SweepAbort, SweepDelete, Expire, jobs, vars
  <2> QED BY DEF MarksOwned
<1> QED BY <1>1, <1>2

\* No mark outlives its job: whatever requests interleave, and whatever calls
\* fail, a path that is refused belongs to a job that has not ended.
THEOREM MarksAlwaysOwned == Spec => []MarksOwned
<1>1. Init => MarksOwned
  BY DEF Init, MarksOwned
<1>2. TypeInv /\ MarksOwned /\ [Next]_vars => MarksOwned'
  BY UploadsOwned, FilesOwned, PacksOwned, OthersOwned DEF Next, RequestSteps
<1> QED
  BY <1>1, <1>2, InitType, NextType, PTL DEF Spec

---------------------------------------------------------------------------
(* The steps that the handlers lead their tasks through.                   *)

InitNames == {"initCheck", "initStat", "initReserve", "initMultipart", "initRelease",
              "initSave", "idle"}
CompleteNames == {"completeStat", "completeS3", "completeRestat", "completeUsed",
                  "completeRelease", "completeDelete", "idle"}
AbortNames     == {"abortS3", "abortRelease", "abortDelete", "idle"}
DeleteNames    == {"deleteList", "deleteRemove", "idle"}
RecomputeNames == {"recomputeSet", "idle"}
RenameNames    == RenamingSteps \cup {"idle"}
PackNames      == {"packCheck", "packDisk", "packLoad", "pack", "packStat", "packPut",
                   "packUsed", "packUnmark", "idle"}

Moved(p, names) == (\E t : Become(p, t)) /\ task'[p].pc \in names

LEMMA BecomeNext ==
  ASSUME TypeInv, NEW p \in Procs
  PROVE  /\ \A t : Become(p, t) => task'[p] = t
         /\ \A pc : Goto(p, pc) => task'[p].pc = pc /\ \E t : Become(p, t)
         /\ Finish(p) => task'[p] = Idle /\ task'[p].pc = "idle" /\ \E t : Become(p, t)
<1>1. task[p] \in Task /\ TypeOK /\ Idle.pc = "idle"
  BY TaskTyped DEF TypeInv, Idle
<1>2. \A t : Become(p, t) => task'[p] = t
  BY <1>1 DEF TypeOK, Become
<1>3. \A pc : [task[p] EXCEPT !.pc = pc].pc = pc
  BY <1>1 DEF Task
<1> QED
  BY <1>1, <1>2, <1>3 DEF Goto, Finish

LEMMA OthersKept ==
  ASSUME TypeInv, NEW p \in Procs, \E t : Become(p, t)
  PROVE  \A q \in Procs \ {p} : task'[q] = task[q]
BY DEF TypeInv, TypeOK, Become

LEMMA InitMoves ==
  ASSUME TypeInv, NEW r \in Requests, InitSteps(r)
  PROVE  Moved(r, InitNames)
<1> USE DEF Moved, InitNames
<1>0. r \in Procs /\ task[r] \in Task
  BY TaskTyped DEF Procs
<1>1. ASSUME NEW k \in Keys, NEW n \in Sizes, InitBegin(r, k, n) PROVE Moved(r, InitNames)
  <2> DEFINE t == [Idle EXCEPT !.pc = "initCheck", !.path = k, !.n = n, !.old = usedBytes]
  <2>1. Become(r, t) /\ t.pc = "initCheck"
    BY <1>1 DEF InitBegin, Idle
  <2> HIDE DEF t
  <2> QED BY <1>0, BecomeNext, <2>1
<1>2. ASSUME InitStat(r) PROVE Moved(r, InitNames)
  <2> DEFINE t == [task[r] EXCEPT !.pc = "initReserve", !.old = Floor0(@ - bucket[task[r].path].size)]
  <2>1. (Become(r, t) \/ Goto(r, "initReserve")) /\ t.pc = "initReserve"
    BY <1>0, <1>2 DEF InitStat, Task
  <2> HIDE DEF t
  <2> QED BY <1>0, BecomeNext, <2>1
<1>3. ASSUME NEW u \in UploadIds, InitMultipart(r, u) PROVE Moved(r, InitNames)
  <2> DEFINE t == [task[r] EXCEPT !.pc = "initSave", !.up = u]
  <2>1. (Become(r, t) \/ Goto(r, "initRelease")) /\ t.pc = "initSave"
    BY <1>0, <1>3 DEF InitMultipart, Task
  <2> HIDE DEF t
  <2> QED BY <1>0, BecomeNext, <2>1
<1>4. ASSUME InitCheck(r) \/ InitReserve(r) \/ InitRefuse(r) \/ InitRelease(r) \/ InitSave(r)
      PROVE  Moved(r, InitNames)
  BY <1>0, BecomeNext, <1>4 DEF InitCheck, InitReserve, InitRefuse, InitRelease, InitSave
<1> QED
  BY <1>1, <1>2, <1>3, <1>4 DEF InitSteps

LEMMA CompleteMoves ==
  ASSUME TypeInv, NEW r \in Requests, CompleteSteps(r)
  PROVE  Moved(r, CompleteNames)
<1> USE DEF Moved, CompleteNames
<1>0. r \in Procs /\ task[r] \in Task
  BY TaskTyped DEF Procs
<1>1. ASSUME NEW u \in UploadIds, CompleteBegin(r, u) PROVE Moved(r, CompleteNames)
  <2> DEFINE t == [Idle EXCEPT !.pc = "completeStat", !.path = plan[u].key, !.up = u]
  <2>1. Become(r, t) /\ t.pc = "completeStat"
    BY <1>1 DEF CompleteBegin, Idle
  <2> HIDE DEF t
  <2> QED BY <1>0, BecomeNext, <2>1
<1>2. ASSUME CompleteStat(r) PROVE Moved(r, CompleteNames)
  <2> DEFINE t == [task[r] EXCEPT !.pc = "completeS3", !.old = bucket[task[r].path].size]
  <2>1. (Become(r, t) \/ Goto(r, "completeS3")) /\ t.pc = "completeS3"
    BY <1>0, <1>2 DEF CompleteStat, Task
  <2> HIDE DEF t
  <2> QED BY <1>0, BecomeNext, <2>1
<1>3. ASSUME CompleteRestat(r) PROVE Moved(r, CompleteNames)
  <2> DEFINE t == [task[r] EXCEPT !.pc = "completeUsed", !.obj = bucket[task[r].path]]
  <2>1. (Become(r, t) \/ Goto(r, "completeRelease")) /\ t.pc = "completeUsed"
    BY <1>0, <1>3 DEF CompleteRestat, Task
  <2> HIDE DEF t
  <2> QED BY <1>0, BecomeNext, <2>1
<1>4. ASSUME \/ CompleteS3(r) \/ CompleteS3Error(r) \/ CompleteUsed(r)
             \/ CompleteRelease(r) \/ CompleteDelete(r)
      PROVE  Moved(r, CompleteNames)
  BY <1>0, BecomeNext, <1>4 DEF CompleteS3, CompleteS3Error, CompleteUsed, CompleteRelease, CompleteDelete
<1> QED
  BY <1>1, <1>2, <1>3, <1>4 DEF CompleteSteps

LEMMA AbortMoves ==
  ASSUME TypeInv, NEW r \in Requests, AbortSteps(r)
  PROVE  Moved(r, AbortNames)
<1> USE DEF Moved, AbortNames
<1>0. r \in Procs /\ task[r] \in Task
  BY TaskTyped DEF Procs
<1>1. ASSUME NEW u \in UploadIds, AbortBegin(r, u) PROVE Moved(r, AbortNames)
  <2> DEFINE t == [Idle EXCEPT !.pc = "abortS3", !.up = u]
  <2>1. Become(r, t) /\ t.pc = "abortS3"
    BY <1>1 DEF AbortBegin, Idle
  <2> HIDE DEF t
  <2> QED BY <1>0, BecomeNext, <2>1
<1>2. ASSUME AbortS3(r) \/ AbortRelease(r) \/ AbortDelete(r) PROVE Moved(r, AbortNames)
  BY <1>0, BecomeNext, <1>2 DEF AbortS3, AbortRelease, AbortDelete
<1> QED
  BY <1>1, <1>2 DEF AbortSteps

LEMMA DeleteMoves ==
  ASSUME TypeInv, NEW r \in Requests, DeleteSteps(r)
  PROVE  Moved(r, DeleteNames)
<1> USE DEF Moved, DeleteNames
<1>0. r \in Procs /\ task[r] \in Task
  BY TaskTyped DEF Procs
<1>1. ASSUME NEW path \in Paths, DeleteBegin(r, path) PROVE Moved(r, DeleteNames)
  <2> DEFINE t == [Idle EXCEPT !.pc = "deleteList", !.path = path]
  <2>1. Become(r, t) /\ t.pc = "deleteList"
    BY <1>1 DEF DeleteBegin, Idle
  <2> HIDE DEF t
  <2> QED BY <1>0, BecomeNext, <2>1
<1>2. ASSUME DeleteList(r) PROVE Moved(r, DeleteNames)
  <2> DEFINE found == FilesAt(task[r].path)
             t == [task[r] EXCEPT !.pc = "deleteRemove", !.todo = found, !.n = BytesIn(found)]
  <2>1. Become(r, t) \/ Finish(r)
    BY <1>2 DEF DeleteList
  <2>2. t.pc = "deleteRemove"
    BY <1>0 DEF Task
  <2> HIDE DEF t
  <2> QED BY <1>0, BecomeNext, <2>1, <2>2
<1>3. ASSUME NEW k \in Keys, DeleteRemove(r, k) PROVE Moved(r, DeleteNames)
  <2> DEFINE done == [task[r] EXCEPT !.todo = @ \ {k}]
             not  == [task[r] EXCEPT !.todo = @ \ {k}, !.failed = TRUE]
  <2>1. Become(r, done) \/ Become(r, not)
    BY <1>3 DEF DeleteRemove
  <2>2. done.pc = "deleteRemove" /\ not.pc = "deleteRemove"
    BY <1>0, <1>3 DEF DeleteRemove, At, Task
  <2> HIDE DEF done, not
  <2> QED BY <1>0, BecomeNext, <2>1, <2>2
<1>4. ASSUME DeleteError(r) \/ DeleteUsed(r) PROVE Moved(r, DeleteNames)
  BY <1>0, BecomeNext, <1>4 DEF DeleteError, DeleteUsed
<1> QED
  BY <1>1, <1>2, <1>3, <1>4 DEF DeleteSteps

LEMMA RecomputeMoves ==
  ASSUME TypeInv, NEW r \in Requests, RecomputeSteps(r)
  PROVE  Moved(r, RecomputeNames)
<1> USE DEF Moved, RecomputeNames
<1>0. r \in Procs /\ task[r] \in Task
  BY TaskTyped DEF Procs
<1> DEFINE t == [Idle EXCEPT !.pc = "recomputeSet", !.n = BytesIn(Keys)]
<1>1. (Become(r, t) \/ Finish(r)) /\ t.pc = "recomputeSet"
  BY DEF RecomputeSteps, RecomputeList, RecomputeSet, Idle
<1> HIDE DEF t
<1> QED
  BY <1>0, BecomeNext, <1>1

LEMMA RenameMoves ==
  ASSUME TypeInv, NEW r \in Requests, RenameSteps(r)
  PROVE  Moved(r, RenameNames)
<1> USE DEF Moved
<1>0. r \in Procs /\ task[r] \in Task
  BY TaskTyped DEF Procs
<1>1. RenamingSteps \subseteq RenameNames /\ "idle" \in RenameNames
  BY DEF RenameNames
<1>2. ASSUME NEW path \in Paths, NEW to \in Paths, RenameBegin(r, path, to) PROVE Moved(r, RenameNames)
  <2> DEFINE t == [Idle EXCEPT !.pc = "renameCheck", !.path = path, !.to = to, !.todo = FilesAt(path)]
  <2>1. Become(r, t) /\ t.pc \in RenamingSteps
    BY <1>2 DEF RenameBegin, Idle, RenamingSteps
  <2> HIDE DEF t
  <2> QED BY <1>0, <1>1, <2>1, BecomeNext
<1>3. ASSUME NEW k \in Keys, RenameCopy(r, k) \/ RenameRemove(r, k) PROVE Moved(r, RenameNames)
  <2> DEFINE copied  == [task[r] EXCEPT !.todo = @ \ {k}, !.done = @ \cup {k}]
             not     == [task[r] EXCEPT !.todo = @ \ {k}, !.failed = TRUE]
             removed == [task[r] EXCEPT !.done = @ \ {k}]
  <2>1. task[r].pc \in RenamingSteps
    BY <1>3 DEF RenameCopy, RenameRemove, At, RenamingSteps
  <2>2. \A t \in {copied, not, removed} : t.pc \in RenamingSteps
    BY <1>0, <2>1 DEF Task
  <2>3. Become(r, copied) \/ Become(r, not) \/ Become(r, removed)
    BY <1>3 DEF RenameCopy, RenameRemove
  <2> HIDE DEF copied, not, removed
  <2> QED BY <1>0, <1>1, <2>2, <2>3, BecomeNext
<1>4. ASSUME \/ RenameCheck(r) \/ RenameCollide(r) \/ RenameMark(r)
             \/ RenameCopied(r) \/ RenamePublish(r) \/ RenameUnmark(r)
      PROVE  Moved(r, RenameNames)
  <2>1. Finish(r) \/ \E pc \in RenamingSteps : Goto(r, pc)
    BY <1>4 DEF RenameCheck, RenameCollide, RenameMark, RenameCopied, RenamePublish, RenameUnmark,
       RenamingSteps
  <2> QED BY <1>0, <1>1, <2>1, BecomeNext
<1> QED
  BY <1>2, <1>3, <1>4 DEF RenameSteps

LEMMA PackMoves ==
  ASSUME TypeInv, NEW w \in Workers, PackSteps(w)
  PROVE  Moved(w, PackNames)
<1> USE DEF Moved, PackNames
<1>0. w \in Procs /\ task[w] \in Task
  BY TaskTyped DEF Procs
<1>1. ASSUME Dequeue(w) PROVE Moved(w, PackNames)
  <2> DEFINE item == Head(queue)
             t == [Idle EXCEPT !.pc = "packCheck", !.path = item.key, !.n = item.size,
                     !.obj = [size |-> item.size, content |-> item.content, packed |-> item.packed]]
  <2>1. Become(w, t) /\ t.pc = "packCheck"
    BY <1>1 DEF Dequeue, Idle
  <2> HIDE DEF t
  <2> QED BY <1>0, <2>1, BecomeNext
<1>2. ASSUME NEW m \in Sizes, Pack(w, m) PROVE Moved(w, PackNames)
  <2> DEFINE t == [task[w] EXCEPT !.pc = "packStat", !.old = m]
  <2>1. Become(w, t) /\ t.pc = "packStat"
    BY <1>0, <1>2 DEF Pack, Task
  <2> HIDE DEF t
  <2> QED BY <1>0, <2>1, BecomeNext
<1>3. ASSUME PackLoad(w) PROVE Moved(w, PackNames)
  <2> DEFINE t == [task[w] EXCEPT !.pc = "pack", !.up = bucket[task[w].path].content]
  <2>1. (Become(w, t) \/ Goto(w, "packUnmark")) /\ t.pc = "pack"
    BY <1>0, <1>3 DEF PackLoad, Task
  <2> HIDE DEF t
  <2> QED BY <1>0, <2>1, BecomeNext
<1>4. ASSUME \/ PackCheck(w) \/ PackDiskFull(w) \/ PackMark(w) \/ PackNothing(w) \/ PackRequeue(w)
             \/ PackStat(w) \/ PackPut(w) \/ PackUsed(w) \/ PackUnmark(w)
      PROVE  Moved(w, PackNames)
  <2>1. Finish(w) \/ \E pc \in PackNames : Goto(w, pc)
    BY <1>4 DEF PackCheck, PackDiskFull, PackMark, PackNothing, PackRequeue, PackStat, PackPut,
       PackUsed, PackUnmark
  <2> QED BY <1>0, <2>1, BecomeNext
<1> QED
  BY <1>1, <1>2, <1>3, <1>4 DEF PackSteps

---------------------------------------------------------------------------
(* Jobs.  As long as no requests on related paths overlap but for those    *)
(* that arrive while a job is running, a path has one task that moves or   *)
(* replaces its files; a rename that arrives on a path of a job is still   *)
(* before its check, which the mark of the job lets it not pass.  Workers  *)
(* do not check marks: where there are any, no request may arrive on the   *)
(* path of a job.                                                          *)

Ordered == ~Allows("overlap") /\ (Workers = {} \/ ~Allows("jobs"))

MoveSteps == RenamingSteps \cup JobSteps \cup {"packCheck", "packDisk"}

\* s is a job, and t a rename that has just arrived on its path.
Arrived(s, t) == s.pc \in JobSteps /\ Covers(s.path, t.path) /\ t.pc = "renameCheck"

Apart(s, t) ==
  s.pc \in MoveSteps /\ t.pc \in MoveSteps /\ Related(s.path, t.path) => Arrived(s, t) \/ Arrived(t, s)

JobsMarked == \A p \in Procs : task[p].pc \in JobSteps => task[p].path \in processing
MovesApart == \A p, q \in Procs : p # q => Apart(task[p], task[q])
JobsInv == JobsMarked /\ MovesApart

LEMMA RelatedPaths ==
  ASSUME NEW s, NEW t
  PROVE  /\ Related(s, t) <=> Related(t, s)
         /\ s # None /\ Covers(s, t) => Related(s, t)
BY DEF Related, Covers

LEMMA ApartSymmetric == ASSUME NEW s, NEW t, Apart(s, t) PROVE Apart(t, s)
BY RelatedPaths DEF Apart

LEMMA JobNames ==
  /\ JobSteps \subseteq MoveSteps /\ RenamingSteps \subseteq MoveSteps
  /\ {"renameCheck", "renameCollide", "renameMark", "packCheck", "packDisk"} \subseteq MoveSteps \ JobSteps
  /\ "idle" \notin MoveSteps
BY DEF MoveSteps, JobSteps, RenamingSteps

\* A step of one task keeps both parts when its new state is apart from the
\* others, and when the marks of jobs stay.
LEMMA JobsStep ==
  ASSUME TypeOK, NEW p \in Procs, NEW t, Become(p, t), JobsInv,
         t.pc \in JobSteps => t.path \in processing',
         \A q \in Procs \ {p} : task[q].pc \in JobSteps => task[q].path \in processing',
         \A q \in Procs \ {p} : Apart(t, task[q])
  PROVE  JobsInv'
<1>1. task'[p] = t /\ \A q \in Procs \ {p} : task'[q] = task[q]
  BY DEF TypeOK, Become
<1>2. ASSUME NEW q \in Procs, task'[q].pc \in JobSteps PROVE task'[q].path \in processing'
  BY <1>1, <1>2
<1>3. ASSUME NEW q \in Procs, NEW s \in Procs, q # s PROVE Apart(task'[q], task'[s])
  <2>1. CASE q = p
    BY <1>1, <1>3, <2>1
  <2>2. CASE s = p
    BY <1>1, <1>3, <2>2, ApartSymmetric
  <2>3. CASE q # p /\ s # p
    BY <1>1, <1>3, <2>3 DEF JobsInv, MovesApart
  <2> QED BY <2>1, <2>2, <2>3
<1> QED
  BY <1>2, <1>3 DEF JobsInv, JobsMarked, MovesApart

\* A task that does not move anything, or has ended.
LEMMA JobsElsewhere ==
  ASSUME TypeOK, NEW p \in Procs, NEW t, Become(p, t), JobsInv,
         task'[p].pc \notin MoveSteps, UNCHANGED processing
  PROVE  JobsInv'
<1>1. task'[p] = t
  BY DEF TypeOK, Become
<1>2. \A q \in Procs \ {p} : Apart(t, task[q])
  BY <1>1 DEF Apart
<1>3. t.pc \notin JobSteps
  BY <1>1, JobNames
<1> QED
  BY <1>2, <1>3, JobsStep DEF JobsInv, JobsMarked

LEMMA FinishIdle ==
  ASSUME TypeOK, NEW p \in Procs, Finish(p)
  PROVE  task'[p].pc \notin MoveSteps
BY JobNames DEF TypeOK, Finish, Become, Idle

\* A job goes on with its path.
LEMMA JobGoesOn ==
  ASSUME TypeOK, NEW p \in Procs, NEW t, Become(p, t), JobsInv,
         task[p].pc \in JobSteps, t.pc \in JobSteps, t.path = task[p].path,
         UNCHANGED processing
  PROVE  JobsInv'
<1>1. ASSUME NEW q \in Procs \ {p} PROVE Apart(t, task[q])
  <2>1. Apart(task[p], task[q]) /\ task[p].pc # "renameCheck" /\ t.pc # "renameCheck"
    BY JobNames DEF JobsInv, MovesApart
  <2> QED
    BY <2>1, JobNames DEF Apart, Arrived
<1> QED
  BY <1>1, JobsStep DEF JobsInv, JobsMarked

LEMMA JobGoto ==
  ASSUME TypeInv, NEW p \in Procs, NEW pc \in JobSteps, Goto(p, pc), JobsInv,
         task[p].pc \in JobSteps, UNCHANGED processing
  PROVE  JobsInv'
<1> DEFINE t == [task[p] EXCEPT !.pc = pc]
<1>1. TypeOK /\ t.pc \in JobSteps /\ t.path = task[p].path /\ Become(p, t)
  BY TaskTyped DEF TypeInv, Task, Goto
<1> HIDE DEF t
<1> QED BY <1>1, JobGoesOn

\* A task that has passed its check, and is no job yet, is alone on its path.
LEMMA AloneOnPath ==
  ASSUME JobsInv, NEW p \in Procs, NEW q \in Procs \ {p},
         task[p].pc \in MoveSteps \ (JobSteps \cup {"renameCheck"}), task[q].pc \in MoveSteps
  PROVE  ~Related(task[p].path, task[q].path)
<1>1. Apart(task[p], task[q])
  BY DEF JobsInv, MovesApart
<1> QED
  BY <1>1 DEF Apart, Arrived

\* It goes on, and may become a job when it marks its path.
LEMMA JobsPrepare ==
  ASSUME TypeInv, JobsInv, NEW p \in Procs, NEW pc, Goto(p, pc),
         task[p].pc \in MoveSteps \ JobSteps,
         task[p].pc = "renameCheck" => ~Blocked(task[p].path),
         pc \in JobSteps => task[p].path \in processing',
         processing \subseteq processing'
  PROVE  JobsInv'
<1> DEFINE t == [task[p] EXCEPT !.pc = pc]
<1>1. TypeOK /\ t.pc = pc /\ t.path = task[p].path /\ Become(p, t)
  BY TaskTyped DEF TypeInv, Task, Goto
<1> HIDE DEF t
<1>2. ASSUME NEW q \in Procs \ {p}, task[q].pc \in MoveSteps
      PROVE  ~Related(task[p].path, task[q].path)
  <2>1. CASE task[p].pc # "renameCheck"
    BY <1>2, <2>1, AloneOnPath
  <2>2. CASE task[p].pc = "renameCheck"
    <3>1. task[q].pc \in JobSteps => ~Covers(task[q].path, task[p].path)
      BY <2>2 DEF Blocked, JobsInv, JobsMarked
    <3>2. Apart(task[p], task[q])
      BY DEF JobsInv, MovesApart
    <3> QED
      BY <2>2, <1>2, <3>1, <3>2 DEF Apart, Arrived
  <2> QED BY <2>1, <2>2
<1>3. \A q \in Procs \ {p} : Apart(t, task[q])
  BY <1>1, <1>2 DEF Apart
<1> QED
  BY <1>1, <1>3, JobsStep DEF JobsInv, JobsMarked

\* Arrivals: a rename on a path where a job may be running, an item of the
\* queue on a path that nobody works on.
LEMMA JobsArrive ==
  ASSUME TypeInv, JobsInv, Ordered, NEW p \in Procs, NEW t, Become(p, t),
         t.pc \in MoveSteps \ JobSteps, t.path # None, Quiet(t.path, "jobs"),
         Allows("jobs") => t.pc = "renameCheck",
         UNCHANGED processing
  PROVE  JobsInv'
<1>1. ASSUME NEW q \in Procs \ {p} PROVE Apart(t, task[q])
  <2> SUFFICES ASSUME task[q].pc \in MoveSteps, Related(t.path, task[q].path)
               PROVE  Arrived(task[q], t)
    BY DEF Apart
  <2>1. Involves(q, t.path)
    BY RelatedPaths, JobNames DEF Involves, At
  <2>2. Allows("jobs") /\ task[q].pc \in JobSteps /\ Covers(task[q].path, t.path)
    BY <2>1 DEF Quiet, Ordered
  <2> QED
    BY <2>2 DEF Arrived
<1> QED
  BY <1>1, JobsStep DEF JobsInv, JobsMarked, TypeInv

\* The end of a job: no other job has its mark.
LEMMA JobEnds ==
  ASSUME TypeInv, JobsInv, NEW p \in Procs, Finish(p), task[p].pc \in JobSteps,
         processing' = processing \ {task[p].path}
  PROVE  JobsInv'
<1>1. TypeOK /\ task[p].path # None
  <2>1. task[p].pc \in KeySteps \cup RenamingSteps
    BY DEF JobSteps, KeySteps, RenamingSteps
  <2>2. task[p].path \in Paths
    BY <2>1, TaskTyped DEF Fitted, Paths
  <2> QED BY <2>2, DriveAssumption DEF TypeInv
<1>2. ASSUME NEW q \in Procs \ {p}, task[q].pc \in JobSteps PROVE task[q].path \in processing'
  <2>1. Apart(task[p], task[q]) /\ task[q].path \in processing
    BY <1>2 DEF JobsInv, JobsMarked, MovesApart
  <2>2. ~Related(task[p].path, task[q].path)
    BY <1>2, <2>1, JobNames DEF Apart, Arrived
  <2> QED
    BY <1>1, <2>1, <2>2 DEF Related
<1>3. Idle.pc \notin MoveSteps
  BY JobNames DEF Idle
<1>4. \A q \in Procs \ {p} : Apart(Idle, task[q])
  BY <1>3 DEF Apart
<1> QED
  BY <1>1, <1>2, <1>3, <1>4, JobNames, JobsStep DEF Finish

\* Uploads, deletes and recounts are no part of a move, and touch no mark.
LEMMA UploadsApart ==
  ASSUME TypeInv, JobsInv, NEW r \in Requests,
         \/ InitSteps(r) \/ CompleteSteps(r) \/ AbortSteps(r)
         \/ DeleteSteps(r) \/ RecomputeSteps(r)
  PROVE  JobsInv'
<1> DEFINE Elsewhere == InitNames \cup CompleteNames \cup AbortNames \cup DeleteNames \cup RecomputeNames
<1>1. r \in Procs /\ TypeOK
  BY DEF Procs, TypeInv
<1>2. Moved(r, Elsewhere)
  BY InitMoves, CompleteMoves, AbortMoves, DeleteMoves, RecomputeMoves DEF Moved
<1>3. Elsewhere \cap MoveSteps = {}
  BY DEF InitNames, CompleteNames, AbortNames, DeleteNames, RecomputeNames,
     MoveSteps, JobSteps, RenamingSteps
<1>4. UNCHANGED processing
  <2>1. CASE InitSteps(r) \/ AbortSteps(r)
    BY <2>1 DEF InitSteps, InitBegin, InitCheck, InitStat, InitReserve, InitRefuse, InitMultipart,
       InitRelease, InitSave, AbortSteps, AbortBegin, AbortS3, AbortRelease, AbortDelete, stores, jobs
  <2>2. CASE CompleteSteps(r)
    BY <2>2 DEF CompleteSteps, CompleteBegin, CompleteStat, CompleteS3, CompleteS3Error,
       CompleteRestat, CompleteUsed, CompleteRelease, CompleteDelete, stores, jobs
  <2>3. CASE DeleteSteps(r) \/ RecomputeSteps(r)
    BY <2>3 DEF DeleteSteps, DeleteBegin, DeleteList, DeleteRemove, DeleteError, DeleteUsed,
       RecomputeSteps, RecomputeList, RecomputeSet, stores, jobs
  <2> QED BY <2>1, <2>2, <2>3
<1> HIDE DEF Elsewhere
<1> QED BY <1>1, <1>2, <1>3, <1>4, JobsElsewhere DEF Moved

LEMMA RenamesApart ==
  ASSUME TypeInv, JobsInv, Ordered, NEW r \in Requests, RenameSteps(r)
  PROVE  JobsInv'
<1>0. r \in Procs /\ TypeOK /\ task[r] \in Task
  BY TaskTyped DEF Procs, TypeInv
<1>1. Idle.pc \notin MoveSteps
  BY JobNames DEF Idle
<1>2. ASSUME NEW path \in Paths, NEW to \in Paths, RenameBegin(r, path, to) PROVE JobsInv'
  <2> DEFINE t == [Idle EXCEPT !.pc = "renameCheck", !.path = path, !.to = to, !.todo = FilesAt(path)]
  <2>1. t.pc = "renameCheck" /\ t.path = path /\ path # None
    BY DriveAssumption DEF Idle
  <2>2. Become(r, t) /\ Quiet(path, "jobs") /\ UNCHANGED processing
    BY <1>2 DEF RenameBegin, stores, jobs
  <2> HIDE DEF t
  <2> QED BY <1>0, <2>1, <2>2, JobNames, JobsArrive
<1>3. CASE RenameCheck(r) \/ RenameCollide(r)
  <2>1. UNCHANGED processing /\ task[r].pc \in {"renameCheck", "renameCollide"}
    BY <1>3 DEF RenameCheck, RenameCollide, At, stores, jobs
  <2>2. CASE Finish(r)
    BY <1>0, <1>1, <2>1, <2>2, JobsElsewhere, FinishIdle DEF Finish
  <2>3. CASE ~Finish(r)
    <3>1. \/ task[r].pc = "renameCheck" /\ ~Blocked(task[r].path) /\ Goto(r, "renameCollide")
          \/ task[r].pc = "renameCollide" /\ Goto(r, "renameMark")
      BY <1>3, <2>3 DEF RenameCheck, RenameCollide, At
    <3> QED BY <1>0, <2>1, <3>1, JobNames, JobsPrepare
  <2> QED BY <2>2, <2>3
<1>4. CASE RenameMark(r)
  <2>1. /\ task[r].pc = "renameMark" /\ Goto(r, "renameCopy")
        /\ processing' = processing \cup {task[r].path}
    BY <1>4 DEF RenameMark, At
  <2> QED BY <1>0, <2>1, JobNames, JobsPrepare
<1>5. ASSUME NEW k \in Keys, RenameCopy(r, k) \/ RenameRemove(r, k) PROVE JobsInv'
  <2> DEFINE copied  == [task[r] EXCEPT !.todo = @ \ {k}, !.done = @ \cup {k}]
             not     == [task[r] EXCEPT !.todo = @ \ {k}, !.failed = TRUE]
             removed == [task[r] EXCEPT !.done = @ \ {k}]
  <2>1. task[r].pc \in JobSteps
    BY <1>5 DEF RenameCopy, RenameRemove, At, JobSteps
  <2>2. \A t \in {copied, not, removed} : t.pc \in JobSteps /\ t.path = task[r].path
    BY <1>0, <2>1 DEF Task
  <2>3. UNCHANGED processing /\ (Become(r, copied) \/ Become(r, not) \/ Become(r, removed))
    BY <1>5 DEF RenameCopy, RenameRemove, jobs
  <2> HIDE DEF copied, not, removed
  <2> QED BY <1>0, <2>1, <2>2, <2>3, JobGoesOn
<1>6. CASE RenameCopied(r) \/ RenamePublish(r)
  <2>1. task[r].pc \in JobSteps /\ {"renamePublish", "renameRemove", "renameUnmark"} \subseteq JobSteps
    BY <1>6 DEF RenameCopied, RenamePublish, At, JobSteps
  <2>2. UNCHANGED processing
    BY <1>6 DEF RenameCopied, RenamePublish, stores, jobs
  <2>3. Goto(r, "renamePublish") \/ Goto(r, "renameRemove") \/ Goto(r, "renameUnmark")
    BY <1>6 DEF RenameCopied, RenamePublish
  <2> QED BY <1>0, <2>1, <2>2, <2>3, JobGoto
<1>7. CASE RenameUnmark(r)
  <2>1. task[r].pc \in JobSteps
    BY <1>7 DEF RenameUnmark, At, JobSteps
  <2> QED BY <1>0, <1>7, <2>1, JobEnds DEF RenameUnmark
<1> QED BY <1>2, <1>3, <1>4, <1>5, <1>6, <1>7 DEF RenameSteps

LEMMA PacksApart ==
  ASSUME TypeInv, JobsInv, Ordered, NEW w \in Workers, PackSteps(w)
  PROVE  JobsInv'
<1>0. w \in Procs /\ TypeOK /\ task[w] \in Task /\ ~Allows("jobs")
  BY TaskTyped DEF Procs, TypeInv, Ordered
<1>1. Idle.pc \notin MoveSteps
  BY JobNames DEF Idle
<1>2. CASE Dequeue(w)
  <2> DEFINE item == Head(queue)
             t == [Idle EXCEPT !.pc = "packCheck", !.path = item.key, !.n = item.size,
                     !.obj = [size |-> item.size, content |-> item.content, packed |-> item.packed]]
  <2>1. item \in Item
    BY <1>2, HeadTailProperties DEF Dequeue, TypeInv, TypeOK, StoresOK
  <2>2. item.key # None
    BY <2>1, DriveAssumption DEF Item, Paths
  <2>3. t.pc = "packCheck" /\ t.path = item.key
    BY DEF Idle
  <2>4. Become(w, t) /\ Quiet(item.key, "jobs") /\ UNCHANGED processing
    BY <1>2 DEF Dequeue
  <2> HIDE DEF item, t
  <2> QED BY <1>0, <2>2, <2>3, <2>4, JobNames, JobsArrive
<1>3. CASE PackCheck(w)
  <2>1. UNCHANGED processing /\ task[w].pc = "packCheck"
    BY <1>3 DEF PackCheck, At, stores, jobs
  <2>2. CASE Finish(w)
    BY <1>0, <1>1, <2>1, <2>2, JobsElsewhere, FinishIdle DEF Finish
  <2>3. CASE Goto(w, "packDisk")
    BY <1>0, <2>1, <2>3, JobNames, JobsPrepare
  <2> QED BY <1>3, <2>2, <2>3 DEF PackCheck
<1>4. CASE PackDiskFull(w)
  BY <1>0, <1>1, <1>4, JobsElsewhere, FinishIdle DEF PackDiskFull, Finish
<1>5. CASE PackMark(w)
  <2>1. /\ task[w].pc = "packDisk" /\ Goto(w, "packLoad")
        /\ processing' = processing \cup {task[w].path}
    BY <1>5 DEF PackMark, At
  <2> QED BY <1>0, <2>1, JobNames, JobsPrepare
<1>6. ASSUME NEW m \in Sizes, Pack(w, m) PROVE JobsInv'
  <2> DEFINE t == [task[w] EXCEPT !.pc = "packStat", !.old = m]
  <2>1. task[w].pc \in JobSteps /\ t.pc \in JobSteps /\ t.path = task[w].path
    BY <1>0, <1>6 DEF Pack, At, JobSteps, Task
  <2>2. Become(w, t) /\ UNCHANGED processing
    BY <1>6 DEF Pack, stores, jobs
  <2> HIDE DEF t
  <2> QED BY <1>0, <2>1, <2>2, JobGoesOn
<1>7. CASE PackLoad(w) /\ Exists(task[w].path)
  <2> DEFINE t == [task[w] EXCEPT !.pc = "pack", !.up = bucket[task[w].path].content]
  <2>1. task[w].pc \in JobSteps /\ t.pc \in JobSteps /\ t.path = task[w].path
    BY <1>0, <1>7 DEF PackLoad, At, JobSteps, Task
  <2>2. Become(w, t) /\ UNCHANGED processing
    BY <1>7 DEF PackLoad, stores, jobs
  <2> HIDE DEF t
  <2> QED BY <1>0, <2>1, <2>2, JobGoesOn
<1>8. CASE \/ PackLoad(w) /\ ~Exists(task[w].path)
           \/ PackNothing(w) \/ PackRequeue(w) \/ PackStat(w) \/ PackPut(w) \/ PackUsed(w)
  <2>1. /\ {"packPut", "packUsed", "packUnmark"} \subseteq JobSteps
        /\ task[w].pc \in JobSteps
    BY <1>8 DEF PackLoad, PackNothing, PackRequeue, PackStat, PackPut, PackUsed, At, JobSteps
  <2>2. UNCHANGED processing
    BY <1>8 DEF PackLoad, PackNothing, PackRequeue, PackStat, PackPut, PackUsed, stores, jobs
  <2>3. Goto(w, "packPut") \/ Goto(w, "packUsed") \/ Goto(w, "packUnmark")
    BY <1>8 DEF PackLoad, PackNothing, PackRequeue, PackStat, PackPut, PackUsed
  <2> QED BY <1>0, <2>1, <2>2, <2>3, JobGoto
<1>9. CASE PackUnmark(w)
  <2>1. task[w].pc \in JobSteps
    BY <1>9 DEF PackUnmark, At, JobSteps
  <2> QED BY <1>0, <1>9, <2>1, JobEnds DEF PackUnmark
<1> QED BY <1>2, <1>3, <1>4, <1>5, <1>6, <1>7, <1>8, <1>9 DEF PackSteps

LEMMA OthersApart ==
  ASSUME JobsInv, SweepSteps \/ (\E u \in UploadIds : Expire(u)) \/ Restart \/ UNCHANGED vars
  PROVE  JobsInv'
<1>1. CASE Restart
  <2>1. \A p \in Procs : task'[p].pc \notin MoveSteps
    BY <1>1, JobNames DEF Restart, Idle
  <2> QED BY <2>1, JobNames DEF JobsInv, JobsMarked, MovesApart, Apart
<1>2. CASE SweepSteps \/ (\E u \in UploadIds : Expire(u)) \/ UNCHANGED vars
  <2> UNCHANGED <<processing, task>>
    BY <1>2 DEF SweepSteps, SweepBegin, SweepAbort, SweepDelete, Expire, jobs, vars
  <2> QED BY DEF JobsInv, JobsMarked, MovesApart
<1> QED BY <1>1, <1>2

LEMMA JobsInit == Init => JobsInv
<1> SUFFICES ASSUME Init PROVE JobsInv
  OBVIOUS
<1>1. \A p \in Procs : task[p].pc \notin MoveSteps
  BY JobNames DEF Init, Idle
<1> QED
  BY <1>1, JobNames DEF JobsInv, JobsMarked, MovesApart, Apart

LEMMA JobsNext == ASSUME Ordered PROVE TypeInv /\ JobsInv /\ [Next]_vars => JobsInv'
BY UploadsApart, RenamesApart, PacksApart, OthersApart DEF Next, RequestSteps

\* No two jobs work on one path, nor one inside the folder that another moves,
\* through any number of requests, faults and restarts: the mark is checked
\* and then set in two steps, and what keeps jobs apart is that whoever
\* arrives in between finds either a task that it must wait for or a mark.
THEOREM JobsStayApart == Ordered => (Spec => []JobsApart)
<1> SUFFICES ASSUME Ordered PROVE Spec => []JobsApart
  OBVIOUS
<1>1. TypeInv /\ JobsInv => JobsApart
  <2> SUFFICES ASSUME TypeInv, JobsInv, NEW p \in Procs, NEW q \in Procs, p # q,
                      task[p].pc \in JobSteps, task[q].pc \in JobSteps,
                      Covers(task[p].path, task[q].path)
               PROVE  FALSE
    BY DEF JobsApart
  <2>1. task[p].pc \in KeySteps \cup RenamingSteps
    BY DEF JobSteps, KeySteps, RenamingSteps
  <2>2. task[p].path # None
    BY <2>1, TaskTyped, DriveAssumption DEF Fitted, Paths
  <2>3. Related(task[p].path, task[q].path)
    BY <2>2, RelatedPaths
  <2>4. Apart(task[p], task[q])
    BY DEF JobsInv, MovesApart
  <2> QED BY <2>3, <2>4, JobNames DEF Apart, Arrived
<1> QED
  BY <1>1, JobsInit, JobsNext, InitType, NextType, PTL DEF Spec

---------------------------------------------------------------------------
(* Uploads.  That one which is open has a document, or is about to get it, *)
(* needs that nothing fails on the way, but holds with uploads that expire *)
(* and with requests that finish one upload at the same time: whoever      *)
(* takes a document away has seen the upload gone, and an upload that is   *)
(* gone never comes back.                                                  *)

Reliable == \A what \in {"fault", "lostReply", "saveFails", "restart"} : ~Allows(what)

\* Steps after which a request has completed or aborted the upload.
ClosingSteps == {"completeRestat", "completeUsed", "completeRelease", "completeDelete",
                 "abortRelease", "abortDelete"}

ClosedByRequest == \A r \in Requests : task[r].pc \in ClosingSteps => task[r].up \notin multipart
OpenPlanned     == \A u \in multipart : Planned(u, plan)
SweepGone       == /\ sweep.cur \notin multipart
                   /\ \A u \in sweep.todo \cup {sweep.cur} : u # None => Planned(u, plan)

TrackInv == UploadsTracked /\ ClosedByRequest /\ OpenPlanned /\ SweepGone

\* Steps of one request that open no upload.
LEMMA TrackStep ==
  ASSUME TypeInv, TrackInv, NEW p \in Procs, \E t : Become(p, t),
         multipart' \subseteq multipart,
         \A u \in multipart' : u \in docs => u \in docs',
         p \in Requests /\ task[p].pc = "initSave" => task[p].up \in docs',
         p \in Requests /\ task'[p].pc \in ClosingSteps => task'[p].up \notin multipart',
         UNCHANGED <<plan, sweep>>
  PROVE  TrackInv'
<1>1. \A q \in Procs \ {p} : task'[q] = task[q]
  BY OthersKept
<1>2. Requests \subseteq Procs
  BY DEF Procs
<1>3. UploadsTracked'
  <2> SUFFICES ASSUME NEW u \in multipart', u \notin docs'
               PROVE  \E r \in Requests : task'[r].pc = "initSave" /\ task'[r].up = u
    BY DEF UploadsTracked, At
  <2>1. PICK r \in Requests : task[r].pc = "initSave" /\ task[r].up = u
    BY DEF TrackInv, UploadsTracked, At
  <2>2. r # p
    BY <2>1
  <2> QED BY <1>1, <1>2, <2>1, <2>2
<1>4. ClosedByRequest'
  BY <1>1, <1>2 DEF TrackInv, ClosedByRequest
<1>5. OpenPlanned' /\ SweepGone'
  BY DEF TrackInv, OpenPlanned, SweepGone
<1> QED
  BY <1>3, <1>4, <1>5 DEF TrackInv

LEMMA TrackElsewhere ==
  ASSUME TypeInv, TrackInv, NEW p \in Procs, NEW names, Moved(p, names), names \cap ClosingSteps = {},
         p \in Requests => task[p].pc # "initSave", UNCHANGED uploads
  PROVE  TrackInv'
BY TrackStep DEF Moved, uploads

LEMMA InitsTracked ==
  ASSUME TypeInv, TrackInv, Reliable, NEW r \in Requests, InitSteps(r)
  PROVE  TrackInv'
<1>0. r \in Procs /\ task[r] \in Task /\ Fitted(task[r], plan) /\ Requests \subseteq Procs
      /\ plan \in [UploadIds -> Plan]
  BY TaskTyped DEF Procs, TypeInv, TypeOK, StoresOK
<1>1. Moved(r, InitNames) /\ InitNames \cap ClosingSteps = {}
  BY InitMoves DEF InitNames, ClosingSteps
<1>2. ASSUME NEW u \in UploadIds, InitMultipart(r, u) PROVE TrackInv'
  <2> DEFINE t == [task[r] EXCEPT !.pc = "initSave", !.up = u]
  <2>1. /\ plan[u] = NoPlan /\ multipart' = multipart \cup {u}
        /\ plan' = [plan EXCEPT ![u] = [key |-> task[r].path, size |-> task[r].n]]
        /\ Become(r, t) /\ UNCHANGED <<docs, sweep>> /\ task[r].pc = "initMultipart"
    BY <1>2 DEF InitMultipart, Reliable, At
  <2>2. t.pc = "initSave" /\ t.up = u
    BY <1>0 DEF Task
  <2> HIDE DEF t
  <2>3. task'[r] = t /\ \A q \in Procs \ {r} : task'[q] = task[q]
    BY <1>0, <2>1, BecomeNext, OthersKept
  <2>4. plan'[u].key = task[r].path /\ task[r].path \in Keys
        /\ \A v \in UploadIds \ {u} : plan'[v] = plan[v]
    BY <1>0, <2>1 DEF Fitted, KeySteps
  <2>5. \A v : Planned(v, plan) => v # u /\ Planned(v, plan')
    BY <2>1, <2>4, DriveAssumption DEF Planned, NoPlan, Paths
  <2>6. Planned(u, plan')
    BY <2>4 DEF Planned
  <2>7. UploadsTracked'
    <3> SUFFICES ASSUME NEW v \in multipart', v \notin docs'
                 PROVE  \E q \in Requests : task'[q].pc = "initSave" /\ task'[q].up = v
      BY DEF UploadsTracked, At
    <3>1. CASE v = u
      BY <2>2, <2>3, <3>1
    <3>2. CASE v # u
      <4>1. PICK q \in Requests : task[q].pc = "initSave" /\ task[q].up = v
        BY <2>1, <3>2 DEF TrackInv, UploadsTracked, At
      <4> QED BY <1>0, <2>1, <2>3, <4>1
    <3> QED BY <3>1, <3>2
  <2>8. ClosedByRequest'
    <3> SUFFICES ASSUME NEW q \in Requests, task'[q].pc \in ClosingSteps
                 PROVE  task'[q].up \notin multipart'
      BY DEF ClosedByRequest
    <3>1. q # r /\ task'[q] = task[q]
      BY <1>0, <2>2, <2>3 DEF ClosingSteps
    <3>2. Fitted(task[q], plan)
      BY <1>0, TaskTyped
    <3>3. Planned(task[q].up, plan)
      BY <3>1, <3>2 DEF Fitted, ClosingSteps, UploadSteps
    <3>4. task[q].up \notin multipart
      BY <3>1 DEF TrackInv, ClosedByRequest
    <3> QED BY <2>1, <2>5, <3>1, <3>3, <3>4
  <2>9. OpenPlanned'
    BY <2>1, <2>5, <2>6 DEF TrackInv, OpenPlanned
  <2>10. SweepGone'
    BY <2>1, <2>5, DriveAssumption DEF TrackInv, SweepGone
  <2> QED BY <2>7, <2>8, <2>9, <2>10 DEF TrackInv
<1>3. CASE InitSave(r)
  BY <1>0, <1>1, <1>3, TrackStep DEF InitSave, Reliable, Moved
<1>4. CASE \/ (\E k \in Keys, n \in Sizes : InitBegin(r, k, n)) \/ InitCheck(r) \/ InitStat(r)
           \/ InitReserve(r) \/ InitRefuse(r) \/ InitRelease(r)
  <2>1. UNCHANGED uploads /\ task[r].pc # "initSave"
    BY <1>4 DEF InitBegin, InitCheck, InitStat, InitReserve, InitRefuse, InitRelease, At, stores
  <2> QED BY <1>0, <1>1, <2>1, TrackElsewhere
<1> QED BY <1>2, <1>3, <1>4 DEF InitSteps

LEMMA CompletesTracked ==
  ASSUME TypeInv, TrackInv, Reliable, NEW r \in Requests, CompleteSteps(r)
  PROVE  TrackInv'
<1>0. r \in Procs /\ task[r] \in Task
  BY TaskTyped DEF Procs
<1>1. Moved(r, CompleteNames) /\ task[r].pc # "initSave"
  BY CompleteMoves DEF CompleteSteps, CompleteBegin, CompleteStat, CompleteS3, CompleteS3Error,
     CompleteRestat, CompleteUsed, CompleteRelease, CompleteDelete, At
<1>2. \A pc : Goto(r, pc) => task'[r].up = task[r].up
  BY <1>0, BecomeNext DEF Goto, Task
<1>3. CASE CompleteS3(r)
  <2>1. multipart' = multipart \ {task[r].up} /\ UNCHANGED <<plan, docs, sweep>> /\ Goto(r, "completeRestat")
    BY <1>3 DEF CompleteS3, Reliable
  <2> QED BY <1>0, <1>1, <1>2, <2>1, TrackStep DEF Moved
<1>4. CASE CompleteRestat(r) \/ CompleteUsed(r) \/ CompleteRelease(r)
  <2> DEFINE t == [task[r] EXCEPT !.pc = "completeUsed", !.obj = bucket[task[r].path]]
  <2>1. task[r].pc \in ClosingSteps /\ UNCHANGED uploads
    BY <1>4 DEF CompleteRestat, CompleteUsed, CompleteRelease, At, ClosingSteps, stores
  <2>2. Become(r, t) \/ \E pc : Goto(r, pc)
    BY <1>4 DEF CompleteRestat, CompleteUsed, CompleteRelease
  <2>3. t.up = task[r].up
    BY <1>0 DEF Task
  <2> HIDE DEF t
  <2>4. task'[r].up = task[r].up /\ task[r].up \notin multipart
    BY <1>0, <1>2, <2>1, <2>2, <2>3, BecomeNext DEF TrackInv, ClosedByRequest
  <2> QED BY <1>0, <1>1, <2>1, <2>4, TrackStep DEF Moved, uploads
<1>5. CASE CompleteDelete(r)
  <2>1. /\ docs' = docs \ {task[r].up} /\ UNCHANGED <<multipart, plan, sweep>> /\ Finish(r)
        /\ task[r].pc \in ClosingSteps
    BY <1>5 DEF CompleteDelete, At, ClosingSteps
  <2>2. task[r].up \notin multipart
    BY <2>1 DEF TrackInv, ClosedByRequest
  <2>3. task'[r].pc \notin ClosingSteps
    BY <1>0, <2>1, BecomeNext DEF ClosingSteps
  <2> QED BY <1>0, <1>1, <2>1, <2>2, <2>3, TrackStep DEF Moved
<1>6. CASE (\E u \in UploadIds : CompleteBegin(r, u)) \/ CompleteStat(r) \/ CompleteS3Error(r)
  <2> DEFINE t == [task[r] EXCEPT !.pc = "completeS3", !.old = bucket[task[r].path].size]
             first(u) == [Idle EXCEPT !.pc = "completeStat", !.path = plan[u].key, !.up = u]
  <2>1. UNCHANGED uploads
    BY <1>6 DEF CompleteBegin, CompleteStat, CompleteS3Error, stores
  <2>2. \/ Become(r, t) \/ Goto(r, "completeS3") \/ Finish(r)
        \/ \E u \in UploadIds : Become(r, first(u))
    BY <1>6 DEF CompleteBegin, CompleteStat, CompleteS3Error
  <2>3. t.pc = "completeS3" /\ \A u : first(u).pc = "completeStat"
    BY <1>0 DEF Task, Idle
  <2> HIDE DEF t, first
  <2>4. task'[r].pc \notin ClosingSteps
    BY <1>0, <2>2, <2>3, BecomeNext DEF ClosingSteps
  <2> QED BY <1>0, <1>1, <2>1, <2>4, TrackStep DEF Moved, uploads
<1> QED BY <1>3, <1>4, <1>5, <1>6 DEF CompleteSteps

LEMMA AbortsTracked ==
  ASSUME TypeInv, TrackInv, Reliable, NEW r \in Requests, AbortSteps(r)
  PROVE  TrackInv'
<1>0. r \in Procs /\ task[r] \in Task
  BY TaskTyped DEF Procs
<1>1. Moved(r, AbortNames) /\ task[r].pc # "initSave"
  BY AbortMoves DEF AbortSteps, AbortBegin, AbortS3, AbortRelease, AbortDelete, At
<1>2. \A pc : Goto(r, pc) => task'[r].up = task[r].up
  BY <1>0, BecomeNext DEF Goto, Task
<1>3. ASSUME NEW u \in UploadIds, AbortBegin(r, u) PROVE TrackInv'
  <2> DEFINE t == [Idle EXCEPT !.pc = "abortS3", !.up = u]
  <2>1. Become(r, t) /\ t.pc = "abortS3" /\ UNCHANGED uploads
    BY <1>3 DEF AbortBegin, Idle, stores
  <2> HIDE DEF t
  <2>2. task'[r].pc \notin ClosingSteps
    BY <1>0, <2>1, BecomeNext DEF ClosingSteps
  <2> QED BY <1>0, <1>1, <2>1, <2>2, TrackStep DEF Moved, uploads
<1>4. CASE AbortS3(r)
  <2>1. multipart' = multipart \ {task[r].up} /\ UNCHANGED <<plan, docs, sweep>> /\ Goto(r, "abortRelease")
    BY <1>4 DEF AbortS3, Reliable
  <2> QED BY <1>0, <1>1, <1>2, <2>1, TrackStep DEF Moved
<1>5. CASE AbortRelease(r)
  <2>1. task[r].pc \in ClosingSteps /\ UNCHANGED uploads /\ Goto(r, "abortDelete")
    BY <1>5 DEF AbortRelease, At, ClosingSteps
  <2>2. task[r].up \notin multipart
    BY <2>1 DEF TrackInv, ClosedByRequest
  <2> QED BY <1>0, <1>1, <1>2, <2>1, <2>2, TrackStep DEF Moved, uploads
<1>6. CASE AbortDelete(r)
  <2>1. /\ docs' = docs \ {task[r].up} /\ UNCHANGED <<multipart, plan, sweep>> /\ Finish(r)
        /\ task[r].pc \in ClosingSteps
    BY <1>6 DEF AbortDelete, At, ClosingSteps
  <2>2. task[r].up \notin multipart
    BY <2>1 DEF TrackInv, ClosedByRequest
  <2>3. task'[r].pc \notin ClosingSteps
    BY <1>0, <2>1, BecomeNext DEF ClosingSteps
  <2> QED BY <1>0, <1>1, <2>1, <2>2, <2>3, TrackStep DEF Moved
<1> QED BY <1>3, <1>4, <1>5, <1>6 DEF AbortSteps

LEMMA FilesTracked ==
  ASSUME TypeInv, TrackInv, NEW p \in Procs,
         \/ p \in Requests /\ (DeleteSteps(p) \/ RecomputeSteps(p) \/ RenameSteps(p))
         \/ p \in Workers /\ PackSteps(p)
  PROVE  TrackInv'
<1> DEFINE names == DeleteNames \cup RecomputeNames \cup RenameNames \cup PackNames
<1>1. Moved(p, names)
  BY DeleteMoves, RecomputeMoves, RenameMoves, PackMoves DEF Moved
<1>2. names \cap ClosingSteps = {}
  BY DEF DeleteNames, RecomputeNames, RenameNames, RenamingSteps, PackNames, ClosingSteps
<1>3. UNCHANGED uploads /\ (p \in Requests => task[p].pc # "initSave")
  <2>1. CASE p \in Requests /\ (DeleteSteps(p) \/ RecomputeSteps(p))
    BY <2>1 DEF DeleteSteps, DeleteBegin, DeleteList, DeleteRemove, DeleteError, DeleteUsed,
       RecomputeSteps, RecomputeList, RecomputeSet, At, stores
  <2>2. CASE p \in Requests /\ RenameSteps(p)
    BY <2>2 DEF RenameSteps, RenameBegin, RenameCheck, RenameCollide, RenameMark, RenameCopy,
       RenameCopied, RenameRemove, RenamePublish, RenameUnmark, At, stores
  <2>3. CASE p \in Workers /\ PackSteps(p)
    BY <2>3, DriveAssumption DEF PackSteps, Dequeue, PackCheck, PackDiskFull, PackMark, PackLoad,
       Pack, PackNothing, PackRequeue, PackStat, PackPut, PackUsed, PackUnmark, stores
  <2> QED BY <2>1, <2>2, <2>3
<1> HIDE DEF names
<1> QED BY <1>1, <1>2, <1>3, TrackElsewhere

LEMMA OthersTracked ==
  ASSUME TypeInv, TrackInv, Reliable,
         SweepSteps \/ (\E u \in UploadIds : Expire(u)) \/ Restart \/ UNCHANGED vars
  PROVE  TrackInv'
<1>1. CASE SweepBegin
  <2>1. /\ sweep' = [todo |-> docs \cap expired, cur |-> None]
        /\ UNCHANGED <<multipart, plan, docs, task>>
    BY <1>1 DEF SweepBegin, NoSweep
  <2>2. \A u \in docs : Planned(u, plan)
    BY DEF TypeInv
  <2>3. None \notin multipart
    BY DriveAssumption DEF TypeInv, TypeOK, StoresOK
  <2> QED
    BY <2>1, <2>2, <2>3 DEF TrackInv, UploadsTracked, ClosedByRequest, OpenPlanned, SweepGone, At
<1>2. ASSUME NEW u \in UploadIds, SweepAbort(u) PROVE TrackInv'
  <2>1. /\ u \in sweep.todo /\ multipart' = multipart \ {u}
        /\ sweep' = [todo |-> sweep.todo \ {u}, cur |-> u]
        /\ UNCHANGED <<plan, docs, task>>
    BY <1>2 DEF SweepAbort, Reliable
  <2> QED
    BY <2>1 DEF TrackInv, UploadsTracked, ClosedByRequest, OpenPlanned, SweepGone, At
<1>3. CASE SweepDelete
  <2>1. /\ docs' = docs \ {sweep.cur} /\ sweep' = [sweep EXCEPT !.cur = None]
        /\ UNCHANGED <<multipart, plan, task>>
    BY <1>3 DEF SweepDelete
  <2>2. None \notin multipart /\ sweep'.cur = None /\ sweep'.todo = sweep.todo
    BY <2>1, DriveAssumption DEF TypeInv, TypeOK, StoresOK
  <2> QED
    BY <2>1, <2>2 DEF TrackInv, UploadsTracked, ClosedByRequest, OpenPlanned, SweepGone, At
<1>4. CASE (\E u \in UploadIds : Expire(u)) \/ UNCHANGED vars
  <2>1. UNCHANGED <<multipart, plan, docs, sweep, task>>
    BY <1>4 DEF Expire, vars
  <2> QED
    BY <2>1 DEF TrackInv, UploadsTracked, ClosedByRequest, OpenPlanned, SweepGone, At
<1>5. ~Restart
  BY DEF Restart, Reliable
<1> QED BY <1>1, <1>2, <1>3, <1>4, <1>5 DEF SweepSteps

\* As long as nothing fails and the process stays up, an upload that is open
\* in MinIO has a document by which it can be finished or reclaimed, or will
\* get it in the next step of its handler, whatever requests overlap, even
\* those that finish one upload at once, and whatever the GC does meanwhile.
THEOREM UploadsStayTracked == Reliable => (Spec => []UploadsTracked)
<1> SUFFICES ASSUME Reliable PROVE Spec => []UploadsTracked
  OBVIOUS
<1>1. Init => TrackInv
  <2> SUFFICES ASSUME Init PROVE TrackInv
    OBVIOUS
  <2>1. \A r \in Requests : task[r].pc = "idle"
    BY DEF Init, Idle, Procs
  <2> QED
    BY <2>1 DEF Init, NoSweep, TrackInv, UploadsTracked, ClosedByRequest, OpenPlanned, SweepGone,
       ClosingSteps
<1>2. TypeInv /\ TrackInv /\ [Next]_vars => TrackInv'
  BY InitsTracked, CompletesTracked, AbortsTracked, FilesTracked, OthersTracked
     DEF Next, RequestSteps, Procs
<1>3. TrackInv => UploadsTracked
  BY DEF TrackInv
<1> QED
  BY <1>1, <1>2, <1>3, InitType, NextType, PTL DEF Spec

---------------------------------------------------------------------------
(* Events.  Whoever changes the bucket owes an event until it publishes;   *)
(* as long as no call to MinIO fails or loses its reply, every handler     *)
(* gets there, while one that fails half-way ends without (deleteFile).    *)

FaultFree == ~Allows("fault") /\ ~Allows("lostReply")

Owing == {"completeRestat", "completeUsed", "completeRelease", "completeDelete", "deleteRemove",
          "renameCopy", "renameRemove", "renamePublish", "packUsed"}
Deleting == {"deleteList", "deleteRemove"}

PublishInv ==
  /\ \A p \in Procs : task[p].pc \in Deleting => ~task[p].failed
  /\ unpublished => \E p \in Procs : task[p].pc \in Owing

LEMMA PublishStep ==
  ASSUME TypeInv, PublishInv, NEW p \in Procs, \E t : Become(p, t),
         task'[p].pc \in Deleting => ~task'[p].failed,
         unpublished' => task'[p].pc \in Owing \/ (unpublished /\ task[p].pc \notin Owing)
  PROVE  PublishInv'
<1>1. \A q \in Procs \ {p} : task'[q] = task[q]
  BY OthersKept
<1>2. \A q \in Procs : task'[q].pc \in Deleting => ~task'[q].failed
  BY <1>1 DEF PublishInv
<1>3. ASSUME unpublished' PROVE \E q \in Procs : task'[q].pc \in Owing
  <2>1. CASE task'[p].pc \in Owing
    BY <2>1
  <2>2. CASE unpublished /\ task[p].pc \notin Owing
    <3>1. PICK q \in Procs : task[q].pc \in Owing
      BY <2>2 DEF PublishInv
    <3> QED BY <1>1, <2>2, <3>1
  <2> QED BY <1>3, <2>1, <2>2
<1> QED
  BY <1>2, <1>3 DEF PublishInv

\* A handler or worker that does not delete, and goes on owing, or publishes,
\* or owed nothing and changes nothing.
LEMMA PublishElsewhere ==
  ASSUME TypeInv, PublishInv, NEW p \in Procs, NEW names, Moved(p, names), names \cap Deleting = {},
         \/ task'[p].pc \in Owing
         \/ unpublished' = FALSE
         \/ UNCHANGED unpublished /\ task[p].pc \notin Owing
  PROVE  PublishInv'
BY PublishStep DEF Moved

LEMMA UploadsPublished ==
  ASSUME TypeInv, PublishInv, FaultFree, NEW r \in Requests,
         InitSteps(r) \/ CompleteSteps(r) \/ AbortSteps(r) \/ RecomputeSteps(r)
  PROVE  PublishInv'
<1> DEFINE names == InitNames \cup CompleteNames \cup AbortNames \cup RecomputeNames
<1>0. r \in Procs
  BY DEF Procs
<1>1. Moved(r, names)
  BY InitMoves, CompleteMoves, AbortMoves, RecomputeMoves DEF Moved
<1>2. names \cap Deleting = {}
  BY DEF InitNames, CompleteNames, AbortNames, RecomputeNames, Deleting
<1> HIDE DEF names
<1>3. CASE InitSteps(r) \/ AbortSteps(r) \/ RecomputeSteps(r)
  <2>1. UNCHANGED unpublished /\ task[r].pc \notin Owing
    BY <1>3 DEF InitSteps, InitBegin, InitCheck, InitStat, InitReserve, InitRefuse, InitMultipart,
       InitRelease, InitSave, AbortSteps, AbortBegin, AbortS3, AbortRelease, AbortDelete,
       RecomputeSteps, RecomputeList, RecomputeSet, At, Owing, stores, objects
  <2> QED BY <1>0, <1>1, <1>2, <2>1, PublishElsewhere
<1>4. CASE (\E u \in UploadIds : CompleteBegin(r, u)) \/ CompleteStat(r) \/ CompleteS3Error(r)
  <2>1. UNCHANGED unpublished /\ task[r].pc \notin Owing
    BY <1>4 DEF CompleteBegin, CompleteStat, CompleteS3Error, At, Owing, stores, objects
  <2> QED BY <1>0, <1>1, <1>2, <2>1, PublishElsewhere
<1>5. CASE CompleteS3(r) \/ CompleteUsed(r) \/ CompleteRelease(r)
  <2>1. \E pc \in Owing : Goto(r, pc)
    BY <1>5 DEF CompleteS3, CompleteUsed, CompleteRelease, Owing, FaultFree
  <2>2. task'[r].pc \in Owing
    BY <1>0, <2>1, BecomeNext
  <2> QED BY <1>0, <1>1, <1>2, <2>2, PublishElsewhere
<1>6. CASE CompleteRestat(r)
  <2> DEFINE t == [task[r] EXCEPT !.pc = "completeUsed", !.obj = bucket[task[r].path]]
  <2>1. Become(r, t) \/ Goto(r, "completeRelease")
    BY <1>6 DEF CompleteRestat
  <2>2. t.pc = "completeUsed"
    BY <1>0, TaskTyped DEF Task
  <2> HIDE DEF t
  <2>3. task'[r].pc \in Owing
    BY <1>0, <2>1, <2>2, BecomeNext DEF Owing
  <2> QED BY <1>0, <1>1, <1>2, <2>3, PublishElsewhere
<1>7. CASE CompleteDelete(r)
  <2>1. unpublished' = FALSE
    BY <1>7 DEF CompleteDelete, Publish
  <2> QED BY <1>0, <1>1, <1>2, <2>1, PublishElsewhere
<1> QED BY <1>3, <1>4, <1>5, <1>6, <1>7 DEF CompleteSteps

LEMMA DeletesPublished ==
  ASSUME TypeInv, PublishInv, FaultFree, NEW r \in Requests, DeleteSteps(r)
  PROVE  PublishInv'
<1>0. r \in Procs /\ task[r] \in Task
  BY TaskTyped DEF Procs
<1>1. \E t : Become(r, t)
  BY DeleteMoves DEF Moved
<1>2. ASSUME NEW path \in Paths, DeleteBegin(r, path) PROVE PublishInv'
  <2> DEFINE t == [Idle EXCEPT !.pc = "deleteList", !.path = path]
  <2>1. Become(r, t) /\ UNCHANGED unpublished /\ task[r].pc \notin Owing
    BY <1>2 DEF DeleteBegin, At, Owing, stores, objects
  <2>2. t.failed = FALSE
    BY DEF Idle
  <2> HIDE DEF t
  <2> QED BY <1>0, <2>1, <2>2, BecomeNext, PublishStep
<1>3. CASE DeleteList(r)
  <2> DEFINE found == FilesAt(task[r].path)
             t == [task[r] EXCEPT !.pc = "deleteRemove", !.todo = found, !.n = BytesIn(found)]
  <2>1. (Become(r, t) \/ Finish(r)) /\ UNCHANGED unpublished /\ task[r].pc = "deleteList"
    BY <1>3 DEF DeleteList, At, stores, objects
  <2>2. t.failed = task[r].failed
    BY <1>0 DEF Task
  <2>3. ~task[r].failed
    BY <1>0, <2>1 DEF PublishInv, Deleting
  <2> HIDE DEF t
  <2>4. task'[r].pc \in Deleting => ~task'[r].failed
    BY <1>0, <2>1, <2>2, <2>3, BecomeNext DEF Deleting
  <2> QED BY <1>0, <1>1, <2>1, <2>4, PublishStep DEF Owing
<1>4. ASSUME NEW k \in Keys, DeleteRemove(r, k) PROVE PublishInv'
  <2> DEFINE t == [task[r] EXCEPT !.todo = @ \ {k}]
  <2>1. Become(r, t) /\ task[r].pc = "deleteRemove"
    BY <1>4 DEF DeleteRemove, FaultFree, At
  <2>2. t.failed = task[r].failed /\ t.pc = "deleteRemove"
    BY <1>0, <2>1 DEF Task
  <2>3. ~task[r].failed
    BY <1>0, <2>1 DEF PublishInv, Deleting
  <2> HIDE DEF t
  <2> QED BY <1>0, <2>1, <2>2, <2>3, BecomeNext, PublishStep DEF Owing
<1>5. ~DeleteError(r)
  BY <1>0 DEF DeleteError, At, PublishInv, Deleting
<1>6. CASE DeleteUsed(r)
  <2>1. unpublished' = FALSE /\ Finish(r)
    BY <1>6 DEF DeleteUsed, Publish
  <2>2. task'[r].pc \notin Deleting
    BY <1>0, <2>1, BecomeNext DEF Deleting
  <2> QED BY <1>0, <1>1, <2>1, <2>2, PublishStep
<1> QED BY <1>2, <1>3, <1>4, <1>5, <1>6 DEF DeleteSteps

LEMMA RenamesPublished ==
  ASSUME TypeInv, PublishInv, NEW r \in Requests, RenameSteps(r)
  PROVE  PublishInv'
<1>0. r \in Procs /\ task[r] \in Task
  BY TaskTyped DEF Procs
<1>1. Moved(r, RenameNames) /\ RenameNames \cap Deleting = {}
  BY RenameMoves DEF RenameNames, RenamingSteps, Deleting
<1>2. CASE \/ (\E path, to \in Paths : RenameBegin(r, path, to)) \/ RenameCheck(r)
           \/ RenameCollide(r) \/ RenameUnmark(r)
  <2>1. UNCHANGED unpublished /\ task[r].pc \notin Owing
    BY <1>2 DEF RenameBegin, RenameCheck, RenameCollide, RenameUnmark, At, Owing, stores, objects
  <2> QED BY <1>0, <1>1, <2>1, PublishElsewhere
<1>3. CASE RenameMark(r) \/ RenamePublish(r)
  <2>1. unpublished' = FALSE
    BY <1>3 DEF RenameMark, RenamePublish, Publish
  <2> QED BY <1>0, <1>1, <2>1, PublishElsewhere
<1>4. ASSUME NEW k \in Keys, RenameCopy(r, k) \/ RenameRemove(r, k) PROVE PublishInv'
  <2> DEFINE copied  == [task[r] EXCEPT !.todo = @ \ {k}, !.done = @ \cup {k}]
             not     == [task[r] EXCEPT !.todo = @ \ {k}, !.failed = TRUE]
             removed == [task[r] EXCEPT !.done = @ \ {k}]
  <2>1. task[r].pc \in Owing
    BY <1>4 DEF RenameCopy, RenameRemove, At, Owing
  <2>2. \A t \in {copied, not, removed} : t.pc = task[r].pc
    BY <1>0 DEF Task
  <2>3. Become(r, copied) \/ Become(r, not) \/ Become(r, removed)
    BY <1>4 DEF RenameCopy, RenameRemove
  <2> HIDE DEF copied, not, removed
  <2>4. task'[r].pc \in Owing
    BY <1>0, <2>1, <2>2, <2>3, BecomeNext
  <2> QED BY <1>0, <1>1, <2>4, PublishElsewhere
<1>5. CASE RenameCopied(r)
  <2>1. Goto(r, "renamePublish") \/ Goto(r, "renameRemove")
    BY <1>5 DEF RenameCopied
  <2>2. task'[r].pc \in Owing
    BY <1>0, <2>1, BecomeNext DEF Owing
  <2> QED BY <1>0, <1>1, <2>2, PublishElsewhere
<1> QED BY <1>2, <1>3, <1>4, <1>5 DEF RenameSteps

LEMMA PacksPublished ==
  ASSUME TypeInv, PublishInv, FaultFree, NEW w \in Workers, PackSteps(w)
  PROVE  PublishInv'
<1>0. w \in Procs
  BY DEF Procs
<1>1. Moved(w, PackNames) /\ PackNames \cap Deleting = {}
  BY PackMoves DEF PackNames, Deleting
<1>2. CASE PackMark(w) \/ PackUsed(w) \/ PackUnmark(w)
  <2>1. unpublished' = FALSE
    BY <1>2 DEF PackMark, PackUsed, PackUnmark, Publish
  <2> QED BY <1>0, <1>1, <2>1, PublishElsewhere
<1>3. CASE PackPut(w)
  <2>1. Goto(w, "packUsed")
    BY <1>3 DEF PackPut, FaultFree
  <2>2. task'[w].pc \in Owing
    BY <1>0, <2>1, BecomeNext DEF Owing
  <2> QED BY <1>0, <1>1, <2>2, PublishElsewhere
<1>4. CASE \/ Dequeue(w) \/ PackCheck(w) \/ PackDiskFull(w) \/ PackLoad(w)
           \/ (\E m \in Sizes : Pack(w, m)) \/ PackNothing(w) \/ PackRequeue(w) \/ PackStat(w)
  <2>1. UNCHANGED unpublished /\ task[w].pc \notin Owing
    BY <1>4 DEF Dequeue, PackCheck, PackDiskFull, PackLoad, Pack, PackNothing, PackRequeue,
       PackStat, At, Owing, stores, objects
  <2> QED BY <1>0, <1>1, <2>1, PublishElsewhere
<1> QED BY <1>2, <1>3, <1>4 DEF PackSteps

LEMMA OthersPublished ==
  ASSUME PublishInv, SweepSteps \/ (\E u \in UploadIds : Expire(u)) \/ Restart \/ UNCHANGED vars
  PROVE  PublishInv'
<1>1. CASE Restart
  <2>1. unpublished' = FALSE /\ \A p \in Procs : task'[p].pc \notin Deleting
    BY <1>1 DEF Restart, Idle, Deleting
  <2> QED BY <2>1 DEF PublishInv
<1>2. CASE SweepSteps \/ (\E u \in UploadIds : Expire(u)) \/ UNCHANGED vars
  <2> UNCHANGED <<unpublished, task>>
    BY <1>2 DEF SweepSteps, SweepBegin, SweepAbort, SweepDelete, Expire, objects, vars
  <2> QED BY DEF PublishInv
<1> QED BY <1>1, <1>2

\* When nobody is at work, no change of the bucket is left unpublished: not by
\* uploads, deletes, renames and recompressions that overlap in any way, on
\* one path too, through refusals, full disks and restarts.
THEOREM ChangesGetPublished == FaultFree => (Spec => []ChangesPublished)
<1> SUFFICES ASSUME FaultFree PROVE Spec => []ChangesPublished
  OBVIOUS
<1>1. Init => PublishInv
  BY DEF Init, Idle, PublishInv, Deleting
<1>2. TypeInv /\ PublishInv /\ [Next]_vars => PublishInv'
  BY UploadsPublished, DeletesPublished, RenamesPublished, PacksPublished, OthersPublished
     DEF Next, RequestSteps
<1>3. PublishInv => ChangesPublished
  BY DEF PublishInv, ChangesPublished, At, Owing
<1> QED
  BY <1>1, <1>2, <1>3, InitType, NextType, PTL DEF Spec

=============================================================================
