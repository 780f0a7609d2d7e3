---------------------------- MODULE DriveProofs ----------------------------
(***************************************************************************)
(* Theorems about Drive, for every value of its constants.                 *)
(***************************************************************************)
EXTENDS Drive, FiniteSetTheorems, SequenceTheorems, TLAPS

---------------------------------------------------------------------------
(* Sums of byte counts: a sum over a finite set is a natural number, and   *)
(* it splits off any of its terms.  What the invariants need - a term that *)
(* is added, removed or changed - follows from these two.                  *)

\* One x contributes exactly n byte tokens.
LEMMA TokensOfCount ==
  ASSUME NEW x, NEW n \in Nat
  PROVE  IsFiniteSet(TokensOf(x, n)) /\ Cardinality(TokensOf(x, n)) = n
<1>1. IsFiniteSet({x}) /\ Cardinality({x}) = 1
  BY FS_Singleton
<1>2. IsFiniteSet(1..n) /\ Cardinality(1..n) = n
  BY FS_Interval
<1>3. /\ IsFiniteSet({x} \X (1..n))
      /\ Cardinality({x} \X (1..n)) = Cardinality({x}) * Cardinality(1..n)
  BY <1>1, <1>2, FS_Product, Zenon
<1> QED
  BY <1>1, <1>2, <1>3 DEF TokensOf

\* The tokens of finitely many terms are finitely many.
LEMMA TokensFinite ==
  ASSUME NEW S, IsFiniteSet(S), NEW f \in [S -> Nat]
  PROVE  IsFiniteSet(Tokens(f))
<1> DEFINE Parts == {TokensOf(x, f[x]) : x \in S}
           part  == [x \in S |-> TokensOf(x, f[x])]
<1>1. part \in Surjection(S, Parts)
  BY DEF Surjection
<1>2. IsFiniteSet(Parts)
  BY <1>1, FS_Surjection
<1>3. \A T \in Parts : IsFiniteSet(T)
  BY TokensOfCount
<1>4. IsFiniteSet(UNION Parts)
  BY <1>2, <1>3, FS_UNION
<1>5. DOMAIN f = S
  OBVIOUS
<1> QED
  BY <1>4, <1>5 DEF Tokens

\* A sum of natural numbers is a natural number.
LEMMA TotalBytesType ==
  ASSUME NEW S, IsFiniteSet(S), NEW f \in [S -> Nat]
  PROVE  TotalBytes(f) \in Nat
BY TokensFinite, FS_CardinalityType DEF TotalBytes

\* A sum is one of its terms plus the sum of the others.
LEMMA TotalBytesSplit ==
  ASSUME NEW S, IsFiniteSet(S), NEW f \in [S -> Nat], NEW x \in S
  PROVE  TotalBytes(f) = f[x] + TotalBytes([y \in S \ {x} |-> f[y]])
<1> DEFINE rest == [y \in S \ {x} |-> f[y]]
<1>1. IsFiniteSet(S \ {x}) /\ rest \in [S \ {x} -> Nat]
  BY FS_RemoveElement
<1>2. IsFiniteSet(Tokens(rest))
  BY <1>1, TokensFinite
<1>3. IsFiniteSet(TokensOf(x, f[x])) /\ Cardinality(TokensOf(x, f[x])) = f[x]
  BY TokensOfCount
<1>4. Tokens(f) = TokensOf(x, f[x]) \cup Tokens(rest)
  <2>1. DOMAIN f = S /\ DOMAIN rest = S \ {x} /\ \A y \in S \ {x} : rest[y] = f[y]
    OBVIOUS
  <2> HIDE DEF rest
  <2> QED
    BY <2>1 DEF Tokens
<1>5. TokensOf(x, f[x]) \cap Tokens(rest) = {}
  BY DEF TokensOf, Tokens
<1> HIDE DEF rest
<1>6. Cardinality(Tokens(f))
        = f[x] + Cardinality(Tokens(rest)) - Cardinality({})
  BY <1>2, <1>3, <1>4, <1>5, FS_Union
<1>7. Cardinality(Tokens(rest)) \in Nat
  BY <1>2, FS_CardinalityType
<1> QED
  BY <1>6, <1>7, FS_EmptySet DEF TotalBytes, rest

---------------------------------------------------------------------------
(* Type correctness.  TypeOK is not inductive by itself: that a handler    *)
(* finds an object under its path, and the plan of its upload, depends on  *)
(* what kind of path and upload a task has at each of its steps.           *)

KeySteps == {"initCheck", "initStat", "initReserve", "initMultipart",
             "completeStat", "completeS3", "completeRestat", "completeUsed",
             "packCheck", "packDisk", "packLoad", "pack", "packStat",
             "packPut", "packUsed", "packUnmark"}
RenamingSteps == {"renameCheck", "renameCollide", "renameMark", "renameCopy",
                  "renameRemove", "renamePublish", "renameUnmark"}
UploadSteps == {"initSave", "completeStat", "completeS3", "completeRestat",
                "completeUsed", "completeRelease", "completeDelete",
                "abortS3", "abortRelease", "abortDelete"}

Planned(u, pl) == u \in UploadIds /\ pl[u].key \in Keys
Fitted(t, pl) == /\ t.pc \in KeySteps => t.path \in Keys
                 /\ t.pc \in UploadSteps => Planned(t.up, pl)
                 /\ t.pc \in RenamingSteps => t.path \in Paths

TypeInv == /\ TypeOK
           /\ \A p \in Procs : Fitted(task[p], plan)
           /\ \A u \in docs : Planned(u, plan)

LEMMA StepNames == \A s \in KeySteps \cup UploadSteps \cup JobSteps \cup
                       {"idle", "initRelease", "deleteList", "deleteRemove", "recomputeSet",
                        "renameCheck", "renameCollide", "renameMark"} : s \in Steps
BY DEF KeySteps, UploadSteps, JobSteps, Steps

LEMMA NothingTyped == NoObject \in Object /\ NoPlan \in Plan
BY DEF NoObject, Object, NoPlan, Plan

LEMMA IdleTyped == Idle \in Task /\ \A pl : Fitted(Idle, pl)
BY DriveAssumption, StepNames, NothingTyped DEF Idle, Task, Fitted, KeySteps, UploadSteps, RenamingSteps

LEMMA InitType == Init => TypeInv
<1> SUFFICES ASSUME Init PROVE TypeInv
  OBVIOUS
<1>1. StoresOK
  <2>1. bucket \in [Keys -> Object] /\ plan \in [UploadIds -> Plan]
    BY NothingTyped DEF Init
  <2>2. queue \in Seq(Item)
    BY EmptySeq DEF Init
  <2> QED BY <2>1, <2>2 DEF Init, StoresOK, NoSweep
<1>2. \A p \in Procs : task[p] = Idle
  BY DEF Init
<1> QED
  BY <1>1, <1>2, IdleTyped DEF Init, TypeInv, TypeOK

\* What TypeInv says of one task.
LEMMA TaskTyped ==
  ASSUME TypeInv, NEW p \in Procs
  PROVE  task[p] \in Task /\ Fitted(task[p], plan)
BY DEF TypeInv, TypeOK

\* A step of one task keeps TypeInv when its new state and the stores fit.
LEMMA TaskStep ==
  ASSUME TypeInv, NEW p \in Procs, NEW t \in Task, Become(p, t), Fitted(t, plan'),
         StoresOK', \A u \in UploadIds : plan[u].key \in Keys => plan'[u].key \in Keys,
         \A u \in docs' : Planned(u, plan')
  PROVE  TypeInv'
<1>1. task' \in [Procs -> Task] /\ task'[p] = t /\ \A q \in Procs \ {p} : task'[q] = task[q]
  BY DEF TypeInv, TypeOK, Become
<1>2. \A q \in Procs : Fitted(task'[q], plan')
  BY <1>1 DEF TypeInv, Fitted, Planned
<1> QED
  BY <1>1, <1>2 DEF TypeInv, TypeOK

\* So it does when the plans and the documents stay as they are.
LEMMA PlainStep ==
  ASSUME TypeInv, NEW p \in Procs, NEW t \in Task, Become(p, t), Fitted(t, plan),
         StoresOK', UNCHANGED <<plan, docs>>
  PROVE  TypeInv'
BY TaskStep DEF TypeInv

LEMMA QuietStep ==
  ASSUME TypeInv, NEW p \in Procs, NEW t \in Task, Become(p, t), Fitted(t, plan),
         UNCHANGED stores
  PROVE  TypeInv'
BY PlainStep DEF TypeInv, TypeOK, StoresOK, stores, accounts, objects, uploads, jobs

LEMMA InitStepsType ==
  ASSUME TypeInv, NEW r \in Requests, InitSteps(r)
  PROVE  TypeInv'
<1> USE StepNames, IdleTyped
        DEF Fitted, Planned, KeySteps, UploadSteps, RenamingSteps, Goto, Finish, At
<1>0. r \in Procs /\ task[r] \in Task /\ Fitted(task[r], plan) /\ StoresOK
  BY TaskTyped DEF Procs, TypeInv, TypeOK
<1>1. ASSUME NEW k \in Keys, NEW n \in Sizes, InitBegin(r, k, n) PROVE TypeInv'
  <2> DEFINE t == [Idle EXCEPT !.pc = "initCheck", !.path = k, !.n = n, !.old = usedBytes]
  <2>1. k \in Paths /\ n \in Nat /\ usedBytes \in Nat
    BY <1>0, DriveAssumption DEF Paths, StoresOK
  <2>2. t \in Task
    BY <2>1 DEF Task
  <2>3. Fitted(t, plan)
    OBVIOUS
  <2> QED BY <1>0, <1>1, <2>2, <2>3, QuietStep DEF InitBegin
<1>2. CASE InitCheck(r)
  <2>1. [task[r] EXCEPT !.pc = "initStat"] \in Task
    BY <1>0 DEF Task
  <2> QED BY <1>0, <1>2, <2>1, QuietStep DEF InitCheck, Task
<1>3. CASE InitStat(r)
  <2> DEFINE t == [task[r] EXCEPT !.pc = "initReserve",
                     !.old = Floor0(@ - bucket[task[r].path].size)]
             e == [task[r] EXCEPT !.pc = "initReserve"]
  <2>1. bucket[task[r].path].size \in Nat
    BY <1>0, <1>3 DEF InitStat, StoresOK, Object
  <2>2. Floor0(task[r].old - bucket[task[r].path].size) \in Nat
    BY <1>0, <2>1 DEF Floor0, Task
  <2>3. t \in Task /\ Fitted(t, plan) /\ e \in Task /\ Fitted(e, plan)
    BY <1>0, <1>3, <2>2 DEF Task, InitStat
  <2>4. Become(r, t) \/ Become(r, e)
    BY <1>3 DEF InitStat
  <2> QED BY <1>0, <1>3, <2>3, <2>4, QuietStep DEF InitStat
<1>4. CASE InitReserve(r)
  <2>1. [task[r] EXCEPT !.pc = "initMultipart"] \in Task
    BY <1>0 DEF Task
  <2>2. StoresOK'
    BY <1>0, <1>4 DEF InitReserve, StoresOK, Task, objects, uploads, jobs
  <2> QED BY <1>0, <1>4, <2>1, <2>2, PlainStep DEF InitReserve, Task, uploads
<1>5. CASE InitRefuse(r)
  <2>1. StoresOK'
    BY <1>0, <1>5 DEF InitRefuse, Release, Floor0, StoresOK, Task, objects, uploads, jobs
  <2> QED BY <1>0, <1>5, <2>1, PlainStep DEF InitRefuse, uploads
<1>6. ASSUME NEW u \in UploadIds, InitMultipart(r, u) PROVE TypeInv'
  <2> DEFINE t == [task[r] EXCEPT !.pc = "initSave", !.up = u]
             e == [task[r] EXCEPT !.pc = "initRelease"]
  <2>1. t \in Task /\ e \in Task
    BY <1>0 DEF Task
  <2>2. /\ task[r].path \in Keys /\ task[r].n \in Nat
        /\ plan' = [plan EXCEPT ![u] = [key |-> task[r].path, size |-> task[r].n]]
    BY <1>0, <1>6 DEF InitMultipart, Task
  <2>3. plan' \in [UploadIds -> Plan] /\ plan'[u].key \in Keys
        /\ \A v \in UploadIds : plan[v].key \in Keys => plan'[v].key \in Keys
    BY <1>0, <2>2 DEF StoresOK, Plan
  <2>4. StoresOK'
    BY <1>0, <1>6, <2>3 DEF InitMultipart, StoresOK, accounts, objects, jobs
  <2>5. Fitted(t, plan') /\ Fitted(e, plan')
    BY <2>1, <2>3 DEF Task
  <2>6. \A v \in docs' : Planned(v, plan')
    BY <1>6, <2>3 DEF InitMultipart, TypeInv
  <2> QED BY <1>0, <1>6, <2>1, <2>3, <2>4, <2>5, <2>6, TaskStep DEF InitMultipart
<1>7. CASE InitRelease(r)
  <2>1. StoresOK'
    BY <1>0, <1>7 DEF InitRelease, Release, Floor0, StoresOK, Task, objects, uploads, jobs
  <2> QED BY <1>0, <1>7, <2>1, PlainStep DEF InitRelease, uploads
<1>8. CASE InitSave(r)
  <2>1. StoresOK'
    BY <1>0, <1>8 DEF InitSave, StoresOK, accounts, objects, jobs
  <2>2. \A u \in docs' : Planned(u, plan')
    BY <1>0, <1>8 DEF InitSave, TypeInv
  <2> QED BY <1>0, <1>8, <2>1, <2>2, TaskStep DEF InitSave
<1> QED BY <1>1, <1>2, <1>3, <1>4, <1>5, <1>6, <1>7, <1>8 DEF InitSteps

LEMMA ObjectTyped ==
  ASSUME TypeInv, NEW k \in Keys
  PROVE  bucket[k] \in Object /\ bucket[k].size \in Nat
BY DEF TypeInv, TypeOK, StoresOK, Object

LEMMA CompleteStepsType ==
  ASSUME TypeInv, NEW r \in Requests, CompleteSteps(r)
  PROVE  TypeInv'
<1> USE StepNames, IdleTyped
        DEF Fitted, Planned, KeySteps, UploadSteps, RenamingSteps, Goto, Finish, At
<1>0. r \in Procs /\ task[r] \in Task /\ Fitted(task[r], plan) /\ StoresOK
  BY TaskTyped DEF Procs, TypeInv, TypeOK
<1>1. ASSUME NEW u \in UploadIds, CompleteBegin(r, u) PROVE TypeInv'
  <2> DEFINE t == [Idle EXCEPT !.pc = "completeStat", !.path = plan[u].key, !.up = u]
  <2>1. Planned(u, plan)
    BY <1>1 DEF CompleteBegin, TypeInv
  <2>2. t \in Task /\ Fitted(t, plan)
    BY <2>1 DEF Task, Paths
  <2> QED BY <1>0, <1>1, <2>2, QuietStep DEF CompleteBegin
<1>2. CASE CompleteStat(r)
  <2> DEFINE t == [task[r] EXCEPT !.pc = "completeS3", !.old = bucket[task[r].path].size]
             e == [task[r] EXCEPT !.pc = "completeS3"]
  <2>1. bucket[task[r].path].size \in Nat
    BY <1>0, <1>2, ObjectTyped DEF CompleteStat
  <2>2. t \in Task /\ Fitted(t, plan) /\ e \in Task /\ Fitted(e, plan)
    BY <1>0, <1>2, <2>1 DEF Task, CompleteStat
  <2>3. Become(r, t) \/ Become(r, e)
    BY <1>2 DEF CompleteStat
  <2> QED BY <1>0, <1>2, <2>2, <2>3, QuietStep DEF CompleteStat
<1>3. CASE CompleteS3(r)
  <2>1. [task[r] EXCEPT !.pc = "completeRestat"] \in Task
    BY <1>0 DEF Task
  <2>2. task[r].path \in Keys /\ Planned(task[r].up, plan)
    BY <1>0, <1>3 DEF CompleteS3
  <2>3. Uploaded(task[r].up) \in Object
    BY <1>0, <2>2 DEF Uploaded, Object, StoresOK, Plan
  <2>4. StoresOK'
    BY <1>0, <1>3, <2>2, <2>3 DEF CompleteS3, SetObject, StoresOK, accounts, jobs
  <2> QED BY <1>0, <1>3, <2>1, <2>4, PlainStep DEF CompleteS3, Task
<1>4. CASE CompleteS3Error(r)
  BY <1>0, <1>4, QuietStep DEF CompleteS3Error
<1>5. CASE CompleteRestat(r)
  <2> DEFINE t == [task[r] EXCEPT !.pc = "completeUsed", !.obj = bucket[task[r].path]]
             e == [task[r] EXCEPT !.pc = "completeRelease"]
  <2>1. bucket[task[r].path] \in Object
    BY <1>0, <1>5, ObjectTyped DEF CompleteRestat
  <2>2. t \in Task /\ e \in Task /\ Fitted(t, plan) /\ Fitted(e, plan)
    BY <1>0, <1>5, <2>1 DEF Task, CompleteRestat
  <2> QED BY <1>0, <1>5, <2>2, QuietStep DEF CompleteRestat
<1>6. CASE CompleteUsed(r)
  <2> DEFINE item == [key     |-> task[r].path, size |-> task[r].obj.size,
                      content |-> task[r].obj.content, packed |-> task[r].obj.packed]
  <2>1. [task[r] EXCEPT !.pc = "completeRelease"] \in Task
    BY <1>0 DEF Task
  <2>2. item \in Item
    BY <1>0, <1>6 DEF CompleteUsed, Item, Task, Object
  <2>3. queue' \in Seq(Item)
    BY <1>0, <1>6, <2>2, AppendProperties DEF CompleteUsed, StoresOK
  <2>4. usedBytes' \in Nat
    <3>1. usedBytes \in Nat /\ task[r].obj.size \in Nat /\ task[r].old \in Nat
      BY <1>0 DEF StoresOK, Task, Object
    <3>2. usedBytes' = Floor0(usedBytes + (task[r].obj.size - task[r].old))
      BY <1>6 DEF CompleteUsed, AddUsedBytes
    <3> QED BY <3>1, <3>2 DEF Floor0
  <2>5. StoresOK'
    BY <1>0, <1>6, <2>3, <2>4 DEF CompleteUsed, StoresOK, objects, uploads
  <2> QED BY <1>0, <1>6, <2>1, <2>5, PlainStep DEF CompleteUsed, uploads, Task
<1>7. CASE CompleteRelease(r)
  <2>1. [task[r] EXCEPT !.pc = "completeDelete"] \in Task
    BY <1>0 DEF Task
  <2>2. plan[task[r].up].size \in Nat
    BY <1>0, <1>7 DEF CompleteRelease, StoresOK, Plan
  <2>3. StoresOK'
    BY <1>0, <1>7, <2>2 DEF CompleteRelease, Release, Floor0, StoresOK, objects, uploads, jobs
  <2> QED BY <1>0, <1>7, <2>1, <2>3, PlainStep DEF CompleteRelease, uploads, Task
<1>8. CASE CompleteDelete(r)
  <2>1. StoresOK'
    BY <1>0, <1>8 DEF CompleteDelete, Publish, StoresOK, accounts, jobs
  <2>2. \A u \in docs' : Planned(u, plan')
    BY <1>8 DEF CompleteDelete, TypeInv
  <2> QED BY <1>0, <1>8, <2>1, <2>2, TaskStep DEF CompleteDelete
<1> QED BY <1>1, <1>2, <1>3, <1>4, <1>5, <1>6, <1>7, <1>8 DEF CompleteSteps

LEMMA AbortStepsType ==
  ASSUME TypeInv, NEW r \in Requests, AbortSteps(r)
  PROVE  TypeInv'
<1> USE StepNames, IdleTyped
        DEF Fitted, Planned, KeySteps, UploadSteps, RenamingSteps, Goto, Finish, At
<1>0. r \in Procs /\ task[r] \in Task /\ Fitted(task[r], plan) /\ StoresOK
  BY TaskTyped DEF Procs, TypeInv, TypeOK
<1>1. ASSUME NEW u \in UploadIds, AbortBegin(r, u) PROVE TypeInv'
  <2> DEFINE t == [Idle EXCEPT !.pc = "abortS3", !.up = u]
  <2>1. t \in Task /\ Fitted(t, plan)
    BY <1>1 DEF Task, AbortBegin, TypeInv
  <2> QED BY <1>0, <1>1, <2>1, QuietStep DEF AbortBegin
<1>2. CASE AbortS3(r)
  <2>1. [task[r] EXCEPT !.pc = "abortRelease"] \in Task
    BY <1>0 DEF Task
  <2>2. StoresOK'
    BY <1>0, <1>2 DEF AbortS3, StoresOK, accounts, objects, jobs
  <2> QED BY <1>0, <1>2, <2>1, <2>2, PlainStep DEF AbortS3, Task
<1>3. CASE AbortRelease(r)
  <2>1. [task[r] EXCEPT !.pc = "abortDelete"] \in Task
    BY <1>0 DEF Task
  <2>2. plan[task[r].up].size \in Nat
    BY <1>0, <1>3 DEF AbortRelease, StoresOK, Plan
  <2>3. StoresOK'
    BY <1>0, <1>3, <2>2 DEF AbortRelease, Release, Floor0, StoresOK, objects, uploads, jobs
  <2> QED BY <1>0, <1>3, <2>1, <2>3, PlainStep DEF AbortRelease, uploads, Task
<1>4. CASE AbortDelete(r)
  <2>1. StoresOK'
    BY <1>0, <1>4 DEF AbortDelete, StoresOK, accounts, objects, jobs
  <2>2. \A u \in docs' : Planned(u, plan')
    BY <1>4 DEF AbortDelete, TypeInv
  <2> QED BY <1>0, <1>4, <2>1, <2>2, TaskStep DEF AbortDelete
<1> QED BY <1>1, <1>2, <1>3, <1>4 DEF AbortSteps

\* A step of the GC, or of the clock, leaves the tasks and the plans alone.
LEMMA StoreStep ==
  ASSUME TypeInv, StoresOK', UNCHANGED <<task, plan>>, docs' \subseteq docs
  PROVE  TypeInv'
BY DEF TypeInv, TypeOK

LEMMA SweepStepsType ==
  ASSUME TypeInv, SweepSteps \/ (\E u \in UploadIds : Expire(u))
  PROVE  TypeInv'
<1>0. StoresOK
  BY DEF TypeInv, TypeOK
<1>1. ASSUME NEW u \in UploadIds, Expire(u) PROVE TypeInv'
  BY <1>0, <1>1, StoreStep DEF Expire, StoresOK, accounts, objects, jobs
<1>2. CASE SweepBegin
  BY <1>0, <1>2, StoreStep DEF SweepBegin, NoSweep, StoresOK, accounts, objects, jobs
<1>3. ASSUME NEW u \in UploadIds, SweepAbort(u) PROVE TypeInv'
  BY <1>0, <1>3, StoreStep DEF SweepAbort, StoresOK, accounts, objects, jobs
<1>4. CASE SweepDelete
  BY <1>0, <1>4, StoreStep DEF SweepDelete, StoresOK, accounts, objects, jobs
<1> QED BY <1>1, <1>2, <1>3, <1>4 DEF SweepSteps

\* The size of a listing is a natural number.
LEMMA BytesInTyped ==
  ASSUME TypeInv, NEW S \in SUBSET Keys
  PROVE  BytesIn(S) \in Nat
<1>1. IsFiniteSet(Keys)
  BY DriveAssumption, FS_Product DEF Keys
<1>2. IsFiniteSet(S)
  BY <1>1, FS_Subset
<1>3. [k \in S |-> bucket[k].size] \in [S -> Nat]
  BY ObjectTyped
<1> QED
  BY <1>2, <1>3, TotalBytesType DEF BytesIn

\* A step that sets one object, or none, keeps the stores typed.
LEMMA SetObjectTyped ==
  ASSUME TypeInv, NEW k, NEW x \in Object, SetObject(k, x) \/ UNCHANGED objects,
         UNCHANGED <<accounts, uploads, jobs>>
  PROVE  StoresOK'
BY DEF TypeInv, TypeOK, StoresOK, SetObject, accounts, objects, uploads, jobs

LEMMA DeleteStepsType ==
  ASSUME TypeInv, NEW r \in Requests, DeleteSteps(r)
  PROVE  TypeInv'
<1> USE StepNames, IdleTyped
        DEF Fitted, Planned, KeySteps, UploadSteps, RenamingSteps, Goto, Finish, At
<1>0. r \in Procs /\ task[r] \in Task /\ Fitted(task[r], plan) /\ StoresOK
  BY TaskTyped DEF Procs, TypeInv, TypeOK
<1>1. ASSUME NEW path \in Paths, DeleteBegin(r, path) PROVE TypeInv'
  <2>1. [Idle EXCEPT !.pc = "deleteList", !.path = path] \in Task
    BY DEF Task
  <2> QED BY <1>0, <1>1, <2>1, QuietStep DEF DeleteBegin, Task
<1>2. CASE DeleteList(r)
  <2> DEFINE found == FilesAt(task[r].path)
             t == [task[r] EXCEPT !.pc = "deleteRemove", !.todo = found, !.n = BytesIn(found)]
  <2>1. found \in SUBSET Keys /\ BytesIn(found) \in Nat
    BY BytesInTyped DEF FilesAt
  <2> HIDE DEF found
  <2>2. t \in Task /\ Fitted(t, plan)
    BY <1>0, <2>1 DEF Task
  <2>3. Become(r, Idle) \/ Become(r, t)
    BY <1>2 DEF DeleteList, found
  <2> QED BY <1>0, <1>2, <2>2, <2>3, QuietStep DEF DeleteList
<1>3. ASSUME NEW k \in Keys, DeleteRemove(r, k) PROVE TypeInv'
  <2> DEFINE t == [task[r] EXCEPT !.todo = @ \ {k}]
             e == [task[r] EXCEPT !.todo = @ \ {k}, !.failed = TRUE]
  <2>1. t \in Task /\ e \in Task /\ Fitted(t, plan) /\ Fitted(e, plan)
    BY <1>0 DEF Task
  <2>2. StoresOK'
    BY <1>3, SetObjectTyped, NothingTyped DEF DeleteRemove
  <2>3. Become(r, t) \/ Become(r, e)
    BY <1>3 DEF DeleteRemove
  <2> QED BY <1>0, <1>3, <2>1, <2>2, <2>3, PlainStep DEF DeleteRemove, uploads
<1>4. CASE DeleteError(r)
  BY <1>0, <1>4, QuietStep DEF DeleteError
<1>5. CASE DeleteUsed(r)
  <2>1. usedBytes \in Nat /\ task[r].n \in Nat
    BY <1>0 DEF StoresOK, Task
  <2>2. usedBytes' = Floor0(usedBytes + (-task[r].n))
    BY <1>5 DEF DeleteUsed, AddUsedBytes
  <2>3. usedBytes' \in Nat
    BY <2>1, <2>2 DEF Floor0
  <2>4. StoresOK'
    BY <1>0, <1>5, <2>3 DEF DeleteUsed, Publish, StoresOK, uploads, jobs
  <2> QED BY <1>0, <1>5, <2>4, PlainStep DEF DeleteUsed, uploads
<1> QED BY <1>1, <1>2, <1>3, <1>4, <1>5 DEF DeleteSteps

LEMMA RecomputeStepsType ==
  ASSUME TypeInv, NEW r \in Requests, RecomputeSteps(r)
  PROVE  TypeInv'
<1> USE StepNames, IdleTyped DEF Fitted, Planned, KeySteps, UploadSteps, RenamingSteps, Finish, At
<1>0. r \in Procs /\ task[r] \in Task /\ Fitted(task[r], plan) /\ StoresOK
  BY TaskTyped DEF Procs, TypeInv, TypeOK
<1>1. CASE RecomputeList(r)
  <2>1. [Idle EXCEPT !.pc = "recomputeSet", !.n = BytesIn(Keys)] \in Task
    BY BytesInTyped DEF Task
  <2> QED BY <1>0, <1>1, <2>1, QuietStep DEF RecomputeList, Task
<1>2. CASE RecomputeSet(r)
  <2>1. StoresOK'
    BY <1>0, <1>2 DEF RecomputeSet, StoresOK, Task, objects, uploads, jobs
  <2> QED BY <1>0, <1>2, <2>1, PlainStep DEF RecomputeSet, uploads
<1> QED BY <1>1, <1>2 DEF RecomputeSteps

LEMMA RenameStepsType ==
  ASSUME TypeInv, NEW r \in Requests, RenameSteps(r)
  PROVE  TypeInv'
<1> USE StepNames, IdleTyped
        DEF Fitted, Planned, KeySteps, UploadSteps, RenamingSteps, JobSteps, Goto, Finish, At
<1>0. r \in Procs /\ task[r] \in Task /\ Fitted(task[r], plan) /\ StoresOK
  BY TaskTyped DEF Procs, TypeInv, TypeOK
<1>1. ASSUME NEW path \in Paths, NEW to \in Paths, RenameBegin(r, path, to) PROVE TypeInv'
  <2> DEFINE found == FilesAt(path)
             t == [Idle EXCEPT !.pc = "renameCheck", !.path = path, !.to = to, !.todo = found]
  <2>1. found \in SUBSET Keys
    BY DEF FilesAt
  <2> HIDE DEF found
  <2>2. t \in Task /\ Fitted(t, plan)
    BY <2>1 DEF Task
  <2> QED BY <1>0, <1>1, <2>2, QuietStep DEF RenameBegin, found
<1>2. CASE RenameCheck(r)
  <2>1. [task[r] EXCEPT !.pc = "renameCollide"] \in Task
    BY <1>0 DEF Task
  <2> QED BY <1>0, <1>2, <2>1, QuietStep DEF RenameCheck, Task
<1>3. CASE RenameCollide(r)
  <2>1. [task[r] EXCEPT !.pc = "renameMark"] \in Task
    BY <1>0 DEF Task
  <2> QED BY <1>0, <1>3, <2>1, QuietStep DEF RenameCollide, Task
<1>4. CASE RenameMark(r)
  <2>1. [task[r] EXCEPT !.pc = "renameCopy"] \in Task
    BY <1>0 DEF Task
  <2>2. task[r].path \in Paths
    BY <1>0, <1>4 DEF RenameMark
  <2>3. StoresOK'
    BY <1>0, <1>4, <2>2 DEF RenameMark, Publish, StoresOK, accounts, uploads
  <2> QED BY <1>0, <1>4, <2>1, <2>3, PlainStep DEF RenameMark, Task, uploads
<1>5. ASSUME NEW k \in Keys, RenameCopy(r, k) PROVE TypeInv'
  <2> DEFINE t == [task[r] EXCEPT !.todo = @ \ {k}, !.done = @ \cup {k}]
             e == [task[r] EXCEPT !.todo = @ \ {k}, !.failed = TRUE]
  <2>1. t \in Task /\ e \in Task /\ Fitted(t, plan) /\ Fitted(e, plan)
    BY <1>0 DEF Task
  <2>2. StoresOK'
    BY <1>5, SetObjectTyped, ObjectTyped DEF RenameCopy
  <2>3. Become(r, t) \/ Become(r, e)
    BY <1>5 DEF RenameCopy
  <2> QED BY <1>0, <1>5, <2>1, <2>2, <2>3, PlainStep DEF RenameCopy, uploads
<1>6. CASE RenameCopied(r)
  <2> DEFINE next == IF task[r].failed THEN "renamePublish" ELSE "renameRemove"
  <2>1. [task[r] EXCEPT !.pc = next] \in Task
    BY <1>0 DEF Task
  <2> QED BY <1>0, <1>6, <2>1, QuietStep DEF RenameCopied, Task
<1>7. ASSUME NEW k \in Keys, RenameRemove(r, k) PROVE TypeInv'
  <2>1. [task[r] EXCEPT !.done = @ \ {k}] \in Task
    BY <1>0 DEF Task
  <2>2. StoresOK'
    BY <1>7, SetObjectTyped, NothingTyped DEF RenameRemove
  <2> QED BY <1>0, <1>7, <2>1, <2>2, PlainStep DEF RenameRemove, Task, uploads
<1>8. CASE RenamePublish(r)
  <2>1. [task[r] EXCEPT !.pc = "renameUnmark"] \in Task
    BY <1>0 DEF Task
  <2>2. StoresOK'
    BY <1>0, <1>8 DEF RenamePublish, Publish, StoresOK, accounts, uploads, jobs
  <2> QED BY <1>0, <1>8, <2>1, <2>2, PlainStep DEF RenamePublish, Task, uploads
<1>9. CASE RenameUnmark(r)
  <2>1. StoresOK'
    BY <1>0, <1>9 DEF RenameUnmark, StoresOK, accounts, objects, uploads
  <2> QED BY <1>0, <1>9, <2>1, PlainStep DEF RenameUnmark, uploads
<1> QED BY <1>1, <1>2, <1>3, <1>4, <1>5, <1>6, <1>7, <1>8, <1>9 DEF RenameSteps

LEMMA PackStepsType ==
  ASSUME TypeInv, NEW w \in Workers, PackSteps(w)
  PROVE  TypeInv'
<1> USE StepNames, IdleTyped
        DEF Fitted, Planned, KeySteps, UploadSteps, RenamingSteps, JobSteps, Goto, Finish, At
<1>0. w \in Procs /\ task[w] \in Task /\ Fitted(task[w], plan) /\ StoresOK
  BY TaskTyped DEF Procs, TypeInv, TypeOK
<1>1. CASE Dequeue(w)
  <2> DEFINE item == Head(queue)
             x == [size |-> item.size, content |-> item.content, packed |-> item.packed]
             t == [Idle EXCEPT !.pc = "packCheck", !.path = item.key, !.n = item.size, !.obj = x]
  <2>1. item \in Item /\ Tail(queue) \in Seq(Item)
    BY <1>0, <1>1, HeadTailProperties DEF Dequeue, StoresOK
  <2>2. x \in Object /\ item.key \in Keys /\ item.size \in Nat
    BY <2>1 DEF Item, Object
  <2> HIDE DEF item
  <2>3. t \in Task /\ Fitted(t, plan)
    BY <2>2 DEF Task, Paths
  <2>4. StoresOK'
    BY <1>0, <1>1, <2>1 DEF Dequeue, StoresOK, accounts, objects, uploads
  <2>5. Become(w, t)
    BY <1>1 DEF Dequeue, item
  <2> QED BY <1>0, <1>1, <2>3, <2>4, <2>5, PlainStep DEF Dequeue, uploads
<1>2. CASE PackCheck(w)
  <2>1. [task[w] EXCEPT !.pc = "packDisk"] \in Task
    BY <1>0 DEF Task
  <2> QED BY <1>0, <1>2, <2>1, QuietStep DEF PackCheck, Task
<1>3. ASSUME Requeue(task[w]), task[w].path \in Keys
      PROVE  queue' \in Seq(Item)
  <2>1. ItemOf(task[w]) \in Item
    BY <1>0, <1>3 DEF ItemOf, Item, Task, Object
  <2> QED BY <1>0, <1>3, <2>1, AppendProperties DEF Requeue, StoresOK
<1>4. CASE PackDiskFull(w)
  <2>1. StoresOK'
    BY <1>0, <1>3, <1>4 DEF PackDiskFull, StoresOK, accounts, objects, uploads
  <2> QED BY <1>0, <1>4, <2>1, PlainStep DEF PackDiskFull, uploads
<1>5. CASE PackMark(w)
  <2>1. [task[w] EXCEPT !.pc = "packLoad"] \in Task
    BY <1>0 DEF Task
  <2>2. StoresOK'
    BY <1>0, <1>5 DEF PackMark, Publish, StoresOK, Paths, accounts, uploads
  <2> QED BY <1>0, <1>5, <2>1, <2>2, PlainStep DEF PackMark, Task, uploads
<1>6. CASE PackLoad(w)
  <2> DEFINE t == [task[w] EXCEPT !.pc = "pack", !.up = bucket[task[w].path].content]
             e == [task[w] EXCEPT !.pc = "packUnmark"]
  <2>1. bucket[task[w].path].content \in UploadIds \cup {None}
    BY <1>0, <1>6, ObjectTyped DEF PackLoad, Object
  <2>2. t \in Task /\ e \in Task /\ Fitted(t, plan) /\ Fitted(e, plan)
    BY <1>0, <1>6, <2>1 DEF Task, PackLoad
  <2> QED BY <1>0, <1>6, <2>2, QuietStep DEF PackLoad
<1>7. ASSUME NEW m \in Sizes, Pack(w, m) PROVE TypeInv'
  <2>1. [task[w] EXCEPT !.pc = "packStat", !.old = m] \in Task
    BY <1>0, DriveAssumption DEF Task
  <2> QED BY <1>0, <1>7, <2>1, QuietStep DEF Pack, Task
<1>8. [task[w] EXCEPT !.pc = "packUnmark"] \in Task
  BY <1>0 DEF Task
<1>9. CASE PackNothing(w)
  BY <1>0, <1>8, <1>9, QuietStep DEF PackNothing, Task
<1>10. CASE PackRequeue(w)
  <2>1. StoresOK'
    BY <1>0, <1>3, <1>10 DEF PackRequeue, StoresOK, accounts, objects, uploads
  <2> QED BY <1>0, <1>8, <1>10, <2>1, PlainStep DEF PackRequeue, Task, uploads
<1>11. CASE PackStat(w)
  <2>1. [task[w] EXCEPT !.pc = "packPut"] \in Task
    BY <1>0 DEF Task
  <2> QED BY <1>0, <1>8, <1>11, <2>1, QuietStep DEF PackStat, Task
<1>12. CASE PackPut(w)
  <2>1. [task[w] EXCEPT !.pc = "packUsed"] \in Task
    BY <1>0 DEF Task
  <2>2. Packed(task[w]) \in Object
    BY <1>0 DEF Packed, Object, Task
  <2>3. StoresOK'
    BY <1>12, <2>2, SetObjectTyped DEF PackPut
  <2> QED BY <1>0, <1>8, <1>12, <2>1, <2>3, PlainStep DEF PackPut, Task, uploads
<1>13. CASE PackUsed(w)
  <2>1. usedBytes' \in Nat
    BY <1>0, <1>13 DEF PackUsed, AddUsedBytes, Floor0, StoresOK, Task
  <2>2. StoresOK'
    BY <1>0, <1>13, <2>1 DEF PackUsed, Publish, StoresOK, uploads, jobs
  <2> QED BY <1>0, <1>8, <1>13, <2>2, PlainStep DEF PackUsed, Task, uploads
<1>14. CASE PackUnmark(w)
  <2>1. StoresOK'
    BY <1>0, <1>14 DEF PackUnmark, Publish, StoresOK, accounts, uploads
  <2> QED BY <1>0, <1>14, <2>1, PlainStep DEF PackUnmark, uploads
<1> QED
  BY <1>1, <1>2, <1>4, <1>5, <1>6, <1>7, <1>9, <1>10, <1>11, <1>12, <1>13, <1>14 DEF PackSteps

LEMMA RestartType ==
  ASSUME TypeInv, Restart
  PROVE  TypeInv'
<1>1. StoresOK'
  BY DEF Restart, TypeInv, TypeOK, StoresOK, NoSweep
<1>2. task' \in [Procs -> Task] /\ \A p \in Procs : task'[p] = Idle
  BY IdleTyped DEF Restart
<1> QED
  BY <1>1, <1>2, IdleTyped DEF Restart, TypeInv, TypeOK

LEMMA NextType == TypeInv /\ [Next]_vars => TypeInv'
<1> SUFFICES ASSUME TypeInv, [Next]_vars PROVE TypeInv'
  OBVIOUS
<1>1. ASSUME NEW r \in Requests, RequestSteps(r) PROVE TypeInv'
  BY <1>1, InitStepsType, CompleteStepsType, AbortStepsType, DeleteStepsType,
     RecomputeStepsType, RenameStepsType DEF RequestSteps
<1>2. CASE UNCHANGED vars
  BY <1>2 DEF vars, TypeInv, TypeOK, StoresOK
<1> QED
  BY <1>1, <1>2, PackStepsType, SweepStepsType, RestartType DEF Next

\* The variables keep their types, whatever requests, faults and restarts
\* there are.
THEOREM TypeCorrect == Spec => []TypeOK
<1>1. TypeInv => TypeOK
  BY DEF TypeInv
<1> QED
  BY <1>1, InitType, NextType, PTL DEF Spec

=============================================================================
