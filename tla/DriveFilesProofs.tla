-------------------------- MODULE DriveFilesProofs --------------------------
(***************************************************************************)
(* The files of Drive: requests that wait for one another lose no content, *)
(* whichever calls fail, and implement FileStore when none does.           *)
(***************************************************************************)
EXTENDS DriveSafetyProofs

---------------------------------------------------------------------------
(* Clients wait for requests on related paths to be answered, but may send *)
(* others while a job is running; no upload completes under a job.         *)

Separate == /\ ~Allows("overlap") /\ ~Allows("lateComplete") /\ ~Allows("checkFails")
            /\ Workers = {} \/ ~Allows("jobs")

\* The keys that a path stands for.
Tree(path) == {k \in Keys : k = path \/ k[1] = path}

\* Steps of tasks that will change objects, or are counting on some.
Working == MoveSteps \cup {"completeStat", "completeS3", "completeRestat", "completeUsed",
                           "deleteList", "deleteRemove"}

Clear(s, t) == /\ ~Related(s.path, t.path) /\ ~Related(s.path, t.to)
               /\ ~Related(s.to, t.path) /\ ~Related(s.to, t.to)

\* A job that has no more files to remove.
Emptied(s) == \/ s.pc \in {"renamePublish", "renameUnmark"}
              \/ s.pc = "renameRemove" /\ s.done = {}

\* A rename t that has arrived while a job s was running: to what s is moving,
\* before its check; or to the name that s is leaving, for which it must find
\* that s is done.
RenameJobs == {"renameCopy", "renameRemove", "renamePublish", "renameUnmark"}
Late(s, t) ==
  /\ Allows("jobs") /\ s.pc \in RenameJobs /\ t.pc \in RenamingSteps
  /\ \/ t.pc = "renameCheck" /\ Covers(s.path, t.path)
     \/ /\ t.to = s.path
        /\ ~Related(s.path, t.path) /\ ~Related(s.to, t.path) /\ ~Related(s.to, t.to)
        /\ t.pc \in {"renameCheck", "renameCollide"} \/ Emptied(s)

Separated(s, t) ==
  s.pc \in Working /\ t.pc \in Working => Clear(s, t) \/ Late(s, t) \/ Late(t, s)
Exclusive == \A p, q \in Procs : p # q => Separated(task[p], task[q])

\* The two names of a rename.
Paired == \A p \in Procs : task[p].pc \in RenamingSteps => Siblings(task[p].path, task[p].to)

\* Requests do not pack, and workers do nothing else.
Packing == PackNames \ {"idle"}
Ranged  == /\ \A r \in Requests : task[r].pc \notin Packing
           /\ \A w \in Workers : task[w].pc \in PackNames

---------------------------------------------------------------------------
(* Paths and the keys under them.                                          *)

Places == Paths \cup {None}

LEMMA PlacesApart ==
  /\ None \notin Paths /\ None \notin Keys /\ None \notin Folders /\ Folders \cap Keys = {}
  /\ \A k \in Keys : k[1] \in Folders /\ k[2] \in Names /\ k = <<k[1], k[2]>>
BY DriveAssumption DEF Paths, Keys

LEMMA TreesApart ==
  ASSUME NEW s \in Places, NEW t \in Places, ~Related(s, t)
  PROVE  Tree(s) \cap Tree(t) = {}
<1> SUFFICES ASSUME NEW k \in Keys, k = s \/ k[1] = s, k = t \/ k[1] = t PROVE FALSE
  BY DEF Tree
<1> QED
  BY PlacesApart DEF Related, Places, Paths

LEMMA SiblingsApart ==
  ASSUME NEW s, NEW t, Siblings(s, t)
  PROVE  /\ ~Related(s, t) /\ s \in Paths /\ t \in Paths /\ Tree(s) \cap Tree(t) = {}
         /\ s # t
<1>1. ~Related(s, t) /\ s \in Paths /\ t \in Paths /\ s # t
  BY PlacesApart DEF Siblings, Related, Paths
<1> QED
  BY <1>1, TreesApart DEF Places

\* Where a rename puts a file, and that no two files end up in one place.
LEMMA TargetPlaces ==
  ASSUME NEW t, Siblings(t.path, t.to), NEW k \in Tree(t.path)
  PROVE  /\ Target(t, k) \in Tree(t.to) /\ Target(t, k) \in Keys
         /\ Target(t, k) \notin Tree(t.path) /\ Target(t, k) # k
         /\ \A j \in Tree(t.path) : Target(t, j) = Target(t, k) => j = k
<1>1. k \in Keys
  BY DEF Tree
<1>2. Tree(t.path) \cap Tree(t.to) = {}
  BY SiblingsApart
<1>3. CASE t.path \in Keys
  <2>1. t.to \in Keys /\ Target(t, k) = t.to
    BY <1>3, PlacesApart DEF Siblings, Target
  <2>2. \A j \in Tree(t.path) : j = t.path
    BY <1>3, PlacesApart DEF Tree
  <2> QED BY <1>2, <2>1, <2>2 DEF Tree
<1>4. CASE t.path \notin Keys
  <2>1. t.path \in Folders /\ t.to \in Folders
    BY <1>4 DEF Siblings
  <2>2. \A j \in Tree(t.path) : j[1] = t.path /\ Target(t, j) = <<t.to, j[2]>> /\ j = <<j[1], j[2]>>
    BY <1>4, PlacesApart DEF Tree, Target
  <2>3. Target(t, k) \in Keys /\ Target(t, k)[1] = t.to
    BY <1>1, <2>1, <2>2, PlacesApart DEF Keys
  <2> QED BY <1>2, <2>2, <2>3 DEF Tree
<1> QED BY <1>3, <1>4

---------------------------------------------------------------------------
(* One task at a time on a path.                                           *)

LEMMA WorkNames ==
  /\ MoveSteps \subseteq Working /\ RenamingSteps \subseteq Working /\ Packing \subseteq Working
  /\ RenameJobs \subseteq RenamingSteps \cap JobSteps
  /\ JobSteps \ RenameJobs \subseteq Packing /\ Packing \cap RenamingSteps = {}
  /\ RenamingSteps = {"renameCheck", "renameCollide", "renameMark"} \cup RenameJobs
  /\ "idle" \notin Working /\ Idle.pc = "idle" /\ Idle.to = None
BY DEF Working, MoveSteps, RenamingSteps, JobSteps, Packing, PackNames, RenameJobs, Idle

LEMMA SeparatedSymmetric ==
  ASSUME NEW s, NEW t, Separated(s, t)
  PROVE  Separated(t, s)
BY RelatedPaths DEF Separated, Clear

LEMMA ExclusiveStep ==
  ASSUME TypeOK, NEW p \in Procs, NEW t, Become(p, t), Exclusive,
         \A q \in Procs \ {p} : Separated(t, task[q])
  PROVE  Exclusive'
<1>1. task'[p] = t /\ \A q \in Procs \ {p} : task'[q] = task[q]
  BY DEF TypeOK, Become
<1>2. ASSUME NEW q \in Procs, NEW s \in Procs, q # s PROVE Separated(task'[q], task'[s])
  <2>1. CASE q = p
    BY <1>1, <1>2, <2>1
  <2>2. CASE s = p
    BY <1>1, <1>2, <2>2, SeparatedSymmetric
  <2>3. CASE q # p /\ s # p
    BY <1>1, <1>2, <2>3 DEF Exclusive
  <2> QED BY <2>1, <2>2, <2>3
<1> QED
  BY <1>2 DEF Exclusive

\* A task that has nothing to do with files, or no more.
LEMMA ExclusiveElsewhere ==
  ASSUME TypeInv, NEW p \in Procs, \E t : Become(p, t), Exclusive, task'[p].pc \notin Working
  PROVE  Exclusive'
<1>1. PICK t : Become(p, t)
  OBVIOUS
<1>2. t.pc \notin Working
  BY <1>1, BecomeNext
<1> QED
  BY <1>1, <1>2, ExclusiveStep DEF Separated, TypeInv

\* A task that goes on with its paths.
GoesOn(s, t) ==
  /\ t.path = s.path /\ t.to = s.to
  /\ s.pc \in Working \ {"renameCheck", "renameCollide"}
  /\ s.pc \in RenamingSteps => t.pc \in RenamingSteps
  /\ s.pc \in RenameJobs => t.pc \in RenameJobs
  /\ Emptied(s) => Emptied(t)

LEMMA ExclusiveGoesOn ==
  ASSUME TypeInv, NEW p \in Procs, NEW t, Become(p, t), Exclusive, GoesOn(task[p], t)
  PROVE  Exclusive'
<1>1. ASSUME NEW q \in Procs \ {p} PROVE Separated(t, task[q])
  <2>1. Separated(task[p], task[q])
    BY DEF Exclusive
  <2> QED
    BY <2>1 DEF Separated, GoesOn, Clear, Late
<1> QED
  BY <1>1, ExclusiveStep DEF TypeInv

\* Arrivals on a path where nobody is at work.
LEMMA ExclusiveBegins ==
  ASSUME TypeInv, NEW p \in Procs, NEW t, Become(p, t), Exclusive,
         t.path \in Paths, t.to = None,
         \A q \in Procs \ {p} : task[q].pc \in Working => ~Involves(q, t.path)
  PROVE  Exclusive'
<1>1. ASSUME NEW q \in Procs \ {p}, task[q].pc \in Working PROVE Clear(t, task[q])
  <2>1. task[q].path \in Places /\ task[q].to \in Places /\ task[q].pc # "idle"
    BY <1>1, TaskTyped, WorkNames DEF Task, Places
  <2>2. ~Related(task[q].path, t.path) /\ ~Related(task[q].to, t.path)
    BY <1>1, <2>1 DEF Involves, At
  <2>3. \A b \in Places : ~Related(None, b)
    BY PlacesApart DEF Related, Places, Paths
  <2> QED
    BY <2>1, <2>2, <2>3, RelatedPaths DEF Clear
<1>2. \A q \in Procs \ {p} : Separated(t, task[q])
  BY <1>1 DEF Separated
<1> QED
  BY <1>2, ExclusiveStep DEF TypeInv

\* A rename arrives, and may have to do with jobs that are running.
LEMMA ExclusiveRenameBegins ==
  ASSUME TypeInv, Separate, Exclusive, Ranged, Paired, NEW r \in Requests, NEW path \in Paths, NEW to \in Paths,
         RenameBegin(r, path, to)
  PROVE  Exclusive'
<1> DEFINE t == [Idle EXCEPT !.pc = "renameCheck", !.path = path, !.to = to, !.todo = FilesAt(path)]
<1>1. /\ Become(r, t) /\ t.pc = "renameCheck" /\ t.path = path /\ t.to = to
      /\ Siblings(path, to) /\ Quiet(path, "jobs") /\ Quiet(to, "jobs") /\ r \in Procs
  BY DEF RenameBegin, Idle, Procs
<1> HIDE DEF t
<1>2. ASSUME NEW q \in Procs \ {r}, task[q].pc \in Working PROVE Clear(t, task[q]) \/ Late(task[q], t)
  <2> DEFINE s == task[q]
  <2>1. s.path \in Places /\ s.to \in Places /\ s.pc # "idle"
    BY <1>2, TaskTyped, WorkNames DEF Task, Places
  <2>2. \A a \in {path, to} : Related(s.path, a) \/ Related(s.to, a) =>
          Allows("jobs") /\ s.pc \in JobSteps /\ Covers(s.path, a)
    BY <1>1, <2>1 DEF Involves, At, Quiet, Separate
  <2>3. CASE \A a \in {path, to} : ~Related(s.path, a) /\ ~Related(s.to, a)
    BY <1>1, <2>3, RelatedPaths DEF Clear
  <2>4. CASE \E a \in {path, to} : Related(s.path, a) \/ Related(s.to, a)
    <3>1. Allows("jobs") /\ s.pc \in RenameJobs
      BY <2>2, <2>4, WorkNames DEF Separate, Ranged, Procs
    <3>2. CASE Covers(s.path, path)
      BY <1>1, <3>1, <3>2, WorkNames DEF Late
    <3>3. CASE ~Covers(s.path, path)
      <4>1. ~Related(s.path, path) /\ ~Related(s.to, path) /\ Covers(s.path, to)
        BY <2>2, <2>4, <3>3
      <4>2. to = s.path
        BY <1>1, <3>3, <4>1, PlacesApart DEF Covers, Siblings
      <4>3. ~Related(s.to, to)
        BY <3>1, <4>2, WorkNames, SiblingsApart, RelatedPaths DEF Paired
      <4> QED BY <1>1, <3>1, <4>1, <4>2, <4>3, WorkNames DEF Late
    <3> QED BY <3>2, <3>3
  <2> QED BY <2>3, <2>4
<1>3. \A q \in Procs \ {r} : Separated(t, task[q])
  BY <1>2 DEF Separated
<1> QED
  BY <1>1, <1>3, ExclusiveStep DEF TypeInv

---------------------------------------------------------------------------
(* What a task knows of the objects on its paths.                          *)

\* Every object is that of an upload, and has its size unless it was packed.
Authentic(x) == /\ Planned(x.content, plan)
                /\ ~x.packed => x.size = plan[x.content].size
Genuine ==
  /\ \A k \in Keys : Exists(k) => Authentic(bucket[k])
  /\ \A i \in 1..Len(queue) : ~queue[i].packed /\ Authentic(queue[i])

CompleteSound(t) ==
  /\ t.pc \in {"completeRestat", "completeUsed"} => bucket[t.path] = Uploaded(t.up)
  /\ t.pc = "completeUsed" => t.obj = Uploaded(t.up)

DeleteSound(t) == t.pc = "deleteRemove" => t.todo \subseteq FilesAt(t.path)

\* What is left to copy has no copy, and what was copied does.
RenameSound(t) ==
  /\ t.pc \in {"renameCheck", "renameCollide", "renameMark"} => t.todo # {} /\ t.done = {}
  /\ t.pc = "renameCheck" => t.todo \subseteq Tree(t.path)
  /\ t.pc \in {"renameCollide", "renameMark"} => t.todo = FilesAt(t.path)
  /\ t.pc = "renameMark" => FilesAt(t.to) = {}
  /\ t.pc = "renameCopy" =>
       /\ FilesAt(t.path) # {} /\ t.todo \subseteq FilesAt(t.path)
       /\ t.todo \cap t.done = {} /\ \A k \in t.todo : ~Exists(Target(t, k))
  /\ t.pc \in {"renameCopy", "renameRemove"} =>
       t.done \subseteq FilesAt(t.path) /\ \A k \in t.done : bucket[Target(t, k)] = bucket[k]

\* The result is made of the object that it will replace.
PackSound(t) ==
  /\ t.pc \in Packing => t.obj.size = t.n /\ ~t.obj.packed /\ Authentic(t.obj)
  /\ t.pc \in {"pack", "packStat", "packPut"} => Exists(t.path) /\ bucket[t.path].content = t.up
  /\ t.pc \in {"packStat", "packPut", "packUsed"} => t.old <= t.n
  /\ t.pc = "packPut" => bucket[t.path] = t.obj
  /\ t.pc = "packUsed" => bucket[t.path] = Packed(t)

Sound(t)  == CompleteSound(t) /\ DeleteSound(t) /\ RenameSound(t) /\ PackSound(t)
AllSound == \A p \in Procs : Sound(task[p])

FilesInv == JobsInv /\ Exclusive /\ Ranged /\ Paired /\ Genuine /\ AllSound

\* The keys whose objects a task counts on, and those it may write.
Zone(t) == IF t.pc = "renameCheck" \/ Emptied(t) THEN {}
           ELSE Tree(t.path) \cup (IF t.pc = "renameCollide" THEN {} ELSE Tree(t.to))
Writing(t, k) ==
  \/ t.pc \in {"completeS3", "packPut"} /\ k = t.path
  \/ t.pc = "deleteRemove" /\ k \in t.todo
  \/ t.pc = "renameCopy" /\ k \in Tree(t.to)
  \/ t.pc = "renameRemove" /\ k \in t.done
PlanKept == \A u \in UploadIds : plan[u].key \in Keys => plan'[u] = plan[u]

LEMMA EmptyZone ==
  ASSUME NEW t, t.pc = "renameCheck" \/ Emptied(t)
  PROVE  Zone(t) = {}
BY DEF Zone

\* What one task writes, no other counts on.
LEMMA WritesElsewhere ==
  ASSUME TypeInv, Exclusive, AllSound, NEW p \in Procs, NEW q \in Procs \ {p},
         task[q].pc \in Working, NEW k \in Keys, Writing(task[p], k)
  PROVE  k \notin Zone(task[q])
<1> DEFINE s == task[p]
           t == task[q]
<1>0. s \in Task /\ t \in Task /\ s.path \in Places /\ s.to \in Places /\ t.path \in Places /\ t.to \in Places
  BY TaskTyped DEF Task, Places
<1>1. s.pc \in Working /\ ~Emptied(s) /\ s.pc \notin {"renameCheck", "renameCollide"}
  BY DEF Writing, Working, MoveSteps, JobSteps, RenamingSteps, Emptied
<1>2. k \in Tree(s.path) \cup Tree(s.to)
  <2>1. Sound(s)
    BY DEF AllSound
  <2> QED
    BY <2>1 DEF Writing, Tree, Sound, DeleteSound, RenameSound, FilesAt
<1>3. CASE Clear(s, t)
  <2>1. /\ Tree(s.path) \cap Tree(t.path) = {} /\ Tree(s.path) \cap Tree(t.to) = {}
        /\ Tree(s.to) \cap Tree(t.path) = {} /\ Tree(s.to) \cap Tree(t.to) = {}
    BY <1>0, <1>3, TreesApart DEF Clear
  <2> QED
    BY <1>2, <2>1 DEF Zone
<1>4. CASE Late(s, t)
  <2>1. CASE t.pc = "renameCheck"
    BY <2>1 DEF Zone
  <2>2. CASE t.pc # "renameCheck"
    <3>1. t.pc = "renameCollide" /\ ~Related(s.path, t.path) /\ ~Related(s.to, t.path)
      BY <1>1, <1>4, <2>2 DEF Late
    <3>2. Tree(s.path) \cap Tree(t.path) = {} /\ Tree(s.to) \cap Tree(t.path) = {}
      BY <1>0, <3>1, TreesApart
    <3> QED
      BY <1>2, <3>1, <3>2 DEF Zone, Emptied
  <2> QED BY <2>1, <2>2
<1>5. CASE Late(t, s)
  BY <1>1, <1>5, EmptyZone DEF Late
<1> QED
  BY <1>1, <1>3, <1>4, <1>5 DEF Exclusive, Separated

\* An upload keeps its plan, and what is known of objects stays true.
LEMMA PlanStays ==
  ASSUME PlanKept
  PROVE  /\ \A u \in UploadIds : plan[u].key \in Keys => Uploaded(u)' = Uploaded(u) /\ plan'[u].key \in Keys
         /\ \A x : Authentic(x) => Authentic(x)'
BY DEF PlanKept, Uploaded, Authentic, Planned

\* The files of a path whose objects stay.
LEMMA FilesKept ==
  ASSUME NEW path, \A k \in Tree(path) : bucket'[k] = bucket[k]
  PROVE  FilesAt(path)' = FilesAt(path)
BY DEF FilesAt, Exists, Tree

\* A task that does nothing, and whose objects stay.
LEMMA SoundKept ==
  ASSUME NEW t, t \in Task, Fitted(t, plan), t.pc \in RenamingSteps => Siblings(t.path, t.to),
         Sound(t), PlanKept, t.pc \in Working => \A k \in Zone(t) : bucket'[k] = bucket[k]
  PROVE  Sound(t)'
<1>1. ASSUME t.pc \in {"completeRestat", "completeUsed"} \cup Packing
      PROVE  t.path \in Keys /\ bucket'[t.path] = bucket[t.path]
  <2>1. t.path \in Keys /\ t.pc \in Working
    BY <1>1 DEF Fitted, KeySteps, Packing, PackNames, Working, MoveSteps, JobSteps
  <2>2. t.path \in Zone(t)
    BY <1>1, <2>1 DEF Zone, Tree, Emptied, Packing, PackNames
  <2> QED BY <2>1, <2>2
<1>2. CompleteSound(t)'
  <2> SUFFICES ASSUME t.pc \in {"completeRestat", "completeUsed"} PROVE CompleteSound(t)'
    BY DEF CompleteSound
  <2>1. Planned(t.up, plan)
    BY DEF Fitted, UploadSteps
  <2>2. Uploaded(t.up)' = Uploaded(t.up)
    BY <2>1, PlanStays DEF Planned
  <2> QED
    BY <1>1, <2>2 DEF CompleteSound, Sound
<1>3. DeleteSound(t)'
  <2> SUFFICES ASSUME t.pc = "deleteRemove" PROVE DeleteSound(t)'
    BY DEF DeleteSound
  <2>1. \A k \in Tree(t.path) : bucket'[k] = bucket[k]
    BY DEF Working, Zone, Emptied
  <2>2. FilesAt(t.path)' = FilesAt(t.path)
    BY <2>1, FilesKept
  <2> QED
    BY <2>2 DEF DeleteSound, Sound
<1>4. RenameSound(t)'
  <2>1. CASE t.pc \notin {"renameCheck", "renameCollide", "renameMark", "renameCopy", "renameRemove"}
    BY <2>1 DEF RenameSound
  <2>2. CASE t.pc = "renameCheck"
    BY <2>2 DEF RenameSound, Sound
  <2>3. CASE t.pc = "renameCollide"
    <3>1. \A k \in Tree(t.path) : bucket'[k] = bucket[k]
      BY <2>3 DEF Working, MoveSteps, RenamingSteps, Zone, Emptied
    <3> QED
      BY <2>3, <3>1, FilesKept DEF RenameSound, Sound
  <2>4. CASE t.pc = "renameRemove" /\ t.done = {}
    BY <2>4 DEF RenameSound
  <2>5. CASE t.pc \in {"renameMark", "renameCopy"} \/ (t.pc = "renameRemove" /\ t.done # {})
    <3>1. /\ \A k \in Tree(t.path) \cup Tree(t.to) : bucket'[k] = bucket[k]
          /\ Siblings(t.path, t.to)
      BY <2>5 DEF Working, MoveSteps, RenamingSteps, Zone, Emptied
    <3>2. FilesAt(t.path)' = FilesAt(t.path) /\ FilesAt(t.to)' = FilesAt(t.to)
      BY <3>1, FilesKept
    <3>3. \A k \in FilesAt(t.path) :
            k \in Tree(t.path) /\ bucket'[k] = bucket[k] /\ bucket'[Target(t, k)] = bucket[Target(t, k)]
      BY <3>1, TargetPlaces DEF FilesAt, Tree
    <3> QED
      BY <2>5, <3>2, <3>3 DEF RenameSound, Sound, Exists
  <2> QED BY <2>1, <2>2, <2>3, <2>4, <2>5
<1>5. PackSound(t)'
  <2>1. CASE t.pc \notin Packing
    BY <2>1 DEF PackSound, Packing, PackNames
  <2>2. CASE t.pc \in Packing
    <3>1. bucket'[t.path] = bucket[t.path] /\ (Authentic(t.obj) => Authentic(t.obj)')
      BY <1>1, <2>2, PlanStays
    <3> QED
      BY <2>2, <3>1 DEF PackSound, Sound, Exists, Packed
  <2> QED BY <2>1, <2>2
<1> QED
  BY <1>2, <1>3, <1>4, <1>5 DEF Sound
---------------------------------------------------------------------------
(* A step of one task.                                                     *)

\* What the steps of the handlers have to show, but for JobsInv.
FileParts == Exclusive /\ Ranged /\ Paired /\ Genuine /\ AllSound

Writes(p) == PlanKept /\ \A k \in Keys : bucket'[k] # bucket[k] => Writing(task[p], k)

LEMMA SoundStep ==
  ASSUME TypeInv, FilesInv, NEW p \in Procs, \E t : Become(p, t), Writes(p), Sound(task[p])'
  PROVE  AllSound'
<1>1. ASSUME NEW q \in Procs \ {p} PROVE Sound(task[q])'
  <2> DEFINE t == task[q]
  <2>1. task'[q] = t
    BY OthersKept
  <2>2. t \in Task /\ Fitted(t, plan) /\ (t.pc \in RenamingSteps => Siblings(t.path, t.to)) /\ Sound(t)
    BY TaskTyped DEF FilesInv, Paired, AllSound
  <2>3. Zone(t) \subseteq Keys
    BY DEF Zone, Tree
  <2>4. ASSUME t.pc \in Working, NEW k \in Zone(t) PROVE bucket'[k] = bucket[k]
    BY <2>3, <2>4, WritesElsewhere DEF FilesInv, Writes
  <2>5. \A s : s = t => Sound(s)'
    BY <2>2, <2>4, SoundKept DEF Writes
  <2> QED
    BY <2>1, <2>5
<1> QED
  BY <1>1 DEF AllSound

LEMMA GenuineStep ==
  ASSUME Genuine, PlanKept,
         \A k \in Keys : bucket'[k] \in {bucket[k], NoObject} \/ Authentic(bucket'[k]),
         \A i \in 1..Len(queue') : \/ \E j \in 1..Len(queue) : queue'[i] = queue[j]
                                   \/ ~queue'[i].packed /\ Authentic(queue'[i])
  PROVE  Genuine'
<1>1. \A x : Authentic(x) => Authentic(x)'
  BY PlanStays
<1> QED
  BY <1>1 DEF Genuine, Exists

LEMMA PairedStep ==
  ASSUME TypeInv, Paired, NEW p \in Procs, NEW t, Become(p, t),
         t.pc \in RenamingSteps => Siblings(t.path, t.to)
  PROVE  Paired'
<1>1. task'[p] = t /\ \A q \in Procs \ {p} : task'[q] = task[q]
  BY BecomeNext, OthersKept
<1> QED
  BY <1>1 DEF Paired

LEMMA RangedStep ==
  ASSUME TypeInv, Ranged, NEW p \in Procs, NEW names, Moved(p, names),
         p \in Requests => names \cap Packing = {}, p \in Workers => names \subseteq PackNames
  PROVE  Ranged'
<1>1. \A q \in Procs \ {p} : task'[q] = task[q]
  BY OthersKept DEF Moved
<1> QED
  BY <1>1 DEF Ranged, Moved, Procs

\* Steps after which a task counts on nothing.
Careful == {"completeRestat", "completeUsed", "deleteRemove"} \cup RenamingSteps \cup Packing

LEMMA Careless ==
  ASSUME NEW p, task'[p].pc \notin Careful
  PROVE  Sound(task[p])'
<1>1. CompleteSound(task[p])' /\ DeleteSound(task[p])'
  BY DEF Careful, CompleteSound, DeleteSound
<1>2. RenameSound(task[p])'
  BY DEF Careful, RenameSound, RenamingSteps
<1>3. PackSound(task[p])'
  BY DEF Careful, PackSound, Packing, PackNames
<1> QED
  BY <1>1, <1>2, <1>3 DEF Sound

LEMMA CarelessStep ==
  ASSUME TypeInv, FilesInv, NEW p \in Procs, \E t : Become(p, t), Writes(p), task'[p].pc \notin Careful
  PROVE  Paired' /\ AllSound'
<1>1. PICK t : Become(p, t)
  OBVIOUS
<1>2. task'[p] = t
  BY <1>1, BecomeNext
<1> QED
  BY <1>1, <1>2, Careless, SoundStep, PairedStep DEF Careful, FilesInv

\* A step that touches no object and no item of the queue.
LEMMA NothingWritten ==
  ASSUME Genuine, PlanKept, UNCHANGED <<bucket, queue>>
  PROVE  Genuine' /\ \A p : Writes(p)
BY GenuineStep DEF Writes

LEMMA PlansKept == UNCHANGED plan => PlanKept
BY DEF PlanKept

---------------------------------------------------------------------------
(* Uploads, recounts, and what ends there.                                 *)

\* A task that ends, or does not work on files, without touching any.
LEMMA Elsewhere ==
  ASSUME TypeInv, FilesInv, NEW p \in Procs, \E t : Become(p, t), UNCHANGED <<bucket, queue>>, PlanKept,
         task'[p].pc \notin Careful \cup Working, Ranged'
  PROVE  FileParts'
<1>1. Exclusive'
  BY ExclusiveElsewhere DEF FilesInv
<1>2. Genuine' /\ Writes(p)
  BY NothingWritten DEF FilesInv
<1> QED
  BY <1>1, <1>2, CarelessStep DEF FileParts

LEMMA OtherRequests ==
  ASSUME TypeInv, FilesInv, NEW r \in Requests, InitSteps(r) \/ AbortSteps(r) \/ RecomputeSteps(r)
  PROVE  FileParts'
<1> DEFINE names == InitNames \cup AbortNames \cup RecomputeNames
<1>1. r \in Procs /\ Moved(r, names)
  BY InitMoves, AbortMoves, RecomputeMoves DEF Moved, Procs
<1>2. names \cap (Careful \cup Working) = {}
  BY DEF InitNames, AbortNames, RecomputeNames, Careful, Working, MoveSteps, JobSteps, RenamingSteps,
         Packing, PackNames
<1>3. UNCHANGED <<bucket, queue>>
  <2>1. CASE InitSteps(r)
    BY <2>1 DEF InitSteps, InitBegin, InitCheck, InitStat, InitReserve, InitRefuse, InitMultipart,
       InitRelease, InitSave, stores, jobs, objects
  <2>2. CASE AbortSteps(r) \/ RecomputeSteps(r)
    BY <2>2 DEF AbortSteps, AbortBegin, AbortS3, AbortRelease, AbortDelete, RecomputeSteps,
       RecomputeList, RecomputeSet, stores, jobs, objects
  <2> QED BY <2>1, <2>2
<1>4. PlanKept
  <2>1. ASSUME NEW u \in UploadIds, InitMultipart(r, u) PROVE PlanKept
    <3>1. plan[u].key \notin Keys
      BY <2>1, PlacesApart DEF InitMultipart, NoPlan
    <3>2. \A v \in UploadIds \ {u} : plan'[v] = plan[v]
      BY <2>1 DEF InitMultipart, TypeInv, TypeOK, StoresOK
    <3> QED BY <3>1, <3>2 DEF PlanKept
  <2>2. CASE InitSteps(r) /\ \A u \in UploadIds : ~InitMultipart(r, u)
    <3>1. UNCHANGED plan
      BY <2>2 DEF InitSteps, InitBegin, InitCheck, InitStat, InitReserve, InitRefuse,
         InitRelease, InitSave, stores, uploads
    <3> QED BY <3>1, PlansKept
  <2>3. CASE AbortSteps(r) \/ RecomputeSteps(r)
    <3>1. UNCHANGED plan
      BY <2>3 DEF AbortSteps, AbortBegin, AbortS3, AbortRelease, AbortDelete, RecomputeSteps,
         RecomputeList, RecomputeSet, stores, uploads
    <3> QED BY <3>1, PlansKept
  <2> QED BY <2>1, <2>2, <2>3
<1>5. Ranged'
  <2>1. names \cap Packing = {}
    BY DEF InitNames, AbortNames, RecomputeNames, Packing, PackNames
  <2> HIDE DEF names
  <2> QED
    BY <1>1, <2>1, RangedStep, DriveAssumption DEF FilesInv
<1> HIDE DEF names
<1> QED
  BY <1>1, <1>2, <1>3, <1>4, <1>5, Elsewhere DEF Moved

\* The task of an upload keeps its key.
LEMMA UploadGoto ==
  ASSUME TypeInv, FilesInv, NEW p \in Procs, NEW t, Become(p, t), t.path = task[p].path, t.to = task[p].to,
         task[p].pc \in {"completeStat", "completeS3", "completeRestat", "completeUsed", "deleteList",
                         "deleteRemove"}
  PROVE  Exclusive'
BY ExclusiveGoesOn, WorkNames DEF FilesInv, GoesOn, Emptied, Working, RenamingSteps, RenameJobs

LEMMA CompleteRequests ==
  ASSUME TypeInv, FilesInv, Separate, NEW r \in Requests, CompleteSteps(r)
  PROVE  FileParts'
<1>0. /\ r \in Procs /\ task[r] \in Task /\ Sound(task[r]) /\ Fitted(task[r], plan)
      /\ Exclusive /\ Genuine /\ r \notin Workers
  BY TaskTyped, DriveAssumption DEF Procs, FilesInv, AllSound
<1>1. Moved(r, CompleteNames)
  BY CompleteMoves
<1>2. UNCHANGED plan /\ PlanKept
  BY PlansKept DEF CompleteSteps, CompleteBegin, CompleteStat, CompleteS3, CompleteS3Error,
     CompleteRestat, CompleteUsed, CompleteRelease, CompleteDelete, stores, uploads
<1>3. Ranged'
  <2>1. CompleteNames \cap Packing = {}
    BY DEF CompleteNames, Packing, PackNames
  <2> QED
    BY <1>0, <1>1, <2>1, RangedStep DEF FilesInv
<1>4. \A pc \in {"idle", "completeRelease", "completeDelete"} : pc \notin Careful \cup Working
  BY DEF Careful, Working, MoveSteps, JobSteps, RenamingSteps, Packing, PackNames
<1>5. {"completeStat", "completeS3"} \cap Careful = {}
  BY DEF Careful, RenamingSteps, Packing, PackNames
<1>6. ASSUME NEW u \in UploadIds, CompleteBegin(r, u) PROVE FileParts'
  <2> DEFINE t == [Idle EXCEPT !.pc = "completeStat", !.path = plan[u].key, !.up = u]
  <2>1. Become(r, t) /\ t.pc = "completeStat" /\ t.path = plan[u].key /\ t.to = None
    BY <1>6 DEF CompleteBegin, Idle
  <2>2. t.path \in Paths /\ \A q \in Procs : ~Involves(q, t.path)
    BY <1>6, <2>1 DEF CompleteBegin, TypeInv, Planned, Paths, Quiet, Separate
  <2> HIDE DEF t
  <2>3. Exclusive'
    BY <1>0, <2>1, <2>2, ExclusiveBegins
  <2>4. UNCHANGED <<bucket, queue>>
    BY <1>6 DEF CompleteBegin, stores, objects, jobs
  <2> QED
    BY <1>0, <1>2, <1>3, <1>5, <2>1, <2>3, <2>4, NothingWritten, CarelessStep, BecomeNext DEF FileParts
<1>7. CASE CompleteStat(r)
  <2> DEFINE t == [task[r] EXCEPT !.pc = "completeS3", !.old = bucket[task[r].path].size]
             e == [task[r] EXCEPT !.pc = "completeS3"]
  <2>1. \A s \in {t, e} : s.path = task[r].path /\ s.to = task[r].to /\ s.pc = "completeS3"
    BY <1>0 DEF Task
  <2>2. task[r].pc = "completeStat" /\ \E s \in {t, e} : Become(r, s)
    BY <1>7 DEF CompleteStat, At, Goto
  <2> HIDE DEF t, e
  <2>3. Exclusive' /\ task'[r].pc = "completeS3"
    BY <1>0, <2>1, <2>2, UploadGoto, BecomeNext
  <2>4. UNCHANGED <<bucket, queue>>
    BY <1>7 DEF CompleteStat, stores, objects, jobs
  <2> QED
    BY <1>0, <1>2, <1>3, <1>5, <2>2, <2>3, <2>4, NothingWritten, CarelessStep DEF FileParts
<1>8. CASE CompleteS3(r)
  <2> DEFINE t == [task[r] EXCEPT !.pc = "completeRestat"]
             x == Uploaded(task[r].up)
  <2>1. t.path = task[r].path /\ t.to = task[r].to /\ t.up = task[r].up /\ t.pc = "completeRestat"
    BY <1>0 DEF Task
  <2>2. /\ task[r].pc = "completeS3" /\ UNCHANGED queue /\ (Become(r, t) \/ Finish(r))
        /\ bucket' = [bucket EXCEPT ![task[r].path] = x]
    BY <1>8 DEF CompleteS3, At, Goto, SetObject, jobs
  <2>3. task[r].path \in Keys /\ Planned(task[r].up, plan)
    BY <1>0, <2>2 DEF Fitted, KeySteps, UploadSteps
  <2>4. bucket'[task[r].path] = x /\ \A k \in Keys : k # task[r].path => bucket'[k] = bucket[k]
    BY <2>2, <2>3 DEF TypeInv, TypeOK, StoresOK
  <2>5. Authentic(x)
    BY <2>3 DEF Authentic, Uploaded
  <2> HIDE DEF t
  <2>6. Exclusive'
    BY <1>0, <1>4, <2>1, <2>2, UploadGoto, ExclusiveElsewhere, BecomeNext
  <2>7. Genuine' /\ Writes(r)
    BY <1>0, <1>2, <2>2, <2>4, <2>5, GenuineStep DEF Writes, Writing
  <2>8. CASE Finish(r)
    BY <1>0, <1>3, <1>4, <2>6, <2>7, <2>8, CarelessStep, BecomeNext DEF FileParts
  <2>9. CASE Become(r, t)
    <3>1. task'[r] = t /\ bucket'[task'[r].path] = Uploaded(task'[r].up)
      BY <1>0, <2>1, <2>4, <2>9, BecomeNext
    <3>2. CompleteSound(task[r])'
      BY <1>2, <2>1, <3>1 DEF CompleteSound, Uploaded
    <3>3. Sound(task[r])'
      BY <2>1, <3>1, <3>2 DEF Sound, DeleteSound, RenameSound, PackSound, Packing, PackNames
    <3>4. Paired'
      BY <1>0, <2>1, <2>9, PairedStep DEF FilesInv, RenamingSteps
    <3> QED
      BY <1>0, <1>3, <2>6, <2>7, <2>9, <3>3, <3>4, SoundStep DEF FileParts
  <2> QED BY <2>2, <2>8, <2>9
<1>9. CASE CompleteRestat(r) /\ ~Goto(r, "completeRelease")
  <2> DEFINE t == [task[r] EXCEPT !.pc = "completeUsed", !.obj = bucket[task[r].path]]
  <2>1. /\ t.path = task[r].path /\ t.to = task[r].to /\ t.up = task[r].up /\ t.pc = "completeUsed"
        /\ t.obj = bucket[task[r].path]
    BY <1>0 DEF Task
  <2>2. /\ task[r].pc = "completeRestat" /\ UNCHANGED <<bucket, queue>> /\ Become(r, t)
    BY <1>9 DEF CompleteRestat, At, stores, objects, jobs
  <2>3. bucket[task[r].path] = Uploaded(task[r].up)
    BY <1>0, <2>2 DEF Sound, CompleteSound
  <2> HIDE DEF t
  <2>4. task'[r] = t
    BY <1>0, <2>2, BecomeNext
  <2>5. CompleteSound(task[r])'
    BY <1>2, <2>1, <2>2, <2>3, <2>4 DEF CompleteSound, Uploaded
  <2>6. Sound(task[r])'
    BY <2>1, <2>4, <2>5 DEF Sound, DeleteSound, RenameSound, PackSound, Packing, PackNames
  <2>7. Paired' /\ Exclusive'
    BY <1>0, <2>1, <2>2, PairedStep, UploadGoto DEF FilesInv, RenamingSteps
  <2> QED
    BY <1>0, <1>2, <1>3, <2>2, <2>6, <2>7, NothingWritten, SoundStep DEF FileParts
<1>10. CASE CompleteUsed(r)
  <2> DEFINE item == [key |-> task[r].path, size |-> task[r].obj.size,
                      content |-> task[r].obj.content, packed |-> task[r].obj.packed]
  <2>1. task[r].pc = "completeUsed" /\ UNCHANGED bucket /\ Goto(r, "completeRelease")
        /\ (queue' = queue \/ queue' = Append(queue, item))
    BY <1>10 DEF CompleteUsed, At, objects
  <2>2. task[r].obj = Uploaded(task[r].up) /\ Planned(task[r].up, plan)
    BY <1>0, <2>1 DEF Sound, CompleteSound, Fitted, UploadSteps
  <2>3. ~item.packed /\ Authentic(item)
    BY <2>2 DEF Authentic, Uploaded
  <2>4. queue \in Seq(Item)
    BY DEF TypeInv, TypeOK, StoresOK
  <2> HIDE DEF item
  <2>5. \A i \in 1..Len(queue') : \/ \E j \in 1..Len(queue) : queue'[i] = queue[j]
                                  \/ queue'[i] = item
    BY <2>1, <2>4
  <2>6. Genuine' /\ Writes(r)
    BY <1>0, <1>2, <2>1, <2>3, <2>5, GenuineStep DEF Writes
  <2> QED
    BY <1>0, <1>3, <1>4, <2>1, <2>6, CarelessStep, ExclusiveElsewhere, BecomeNext DEF FileParts
<1>11. CASE \/ CompleteS3Error(r) \/ CompleteRelease(r) \/ CompleteDelete(r)
            \/ (CompleteRestat(r) /\ Goto(r, "completeRelease"))
  <2>1. UNCHANGED <<bucket, queue>>
    BY <1>11 DEF CompleteS3Error, CompleteRelease, CompleteDelete, CompleteRestat, stores, objects, jobs
  <2>2. Finish(r) \/ Goto(r, "completeRelease") \/ Goto(r, "completeDelete")
    BY <1>11 DEF CompleteS3Error, CompleteRelease, CompleteDelete
  <2> QED
    BY <1>0, <1>2, <1>3, <1>4, <2>1, <2>2, Elsewhere, BecomeNext
<1> QED BY <1>6, <1>7, <1>8, <1>9, <1>10, <1>11 DEF CompleteSteps

---------------------------------------------------------------------------
(* Deletes.                                                                *)

LEMMA DeleteRequests ==
  ASSUME TypeInv, FilesInv, Separate, NEW r \in Requests, DeleteSteps(r)
  PROVE  FileParts'
<1>0. /\ r \in Procs /\ task[r] \in Task /\ Sound(task[r]) /\ Fitted(task[r], plan)
      /\ Exclusive /\ Genuine /\ r \notin Workers
  BY TaskTyped, DriveAssumption DEF Procs, FilesInv, AllSound
<1>1. Moved(r, DeleteNames)
  BY DeleteMoves
<1>2. UNCHANGED <<plan, queue>> /\ PlanKept
  BY PlansKept DEF DeleteSteps, DeleteBegin, DeleteList, DeleteRemove, DeleteError, DeleteUsed,
     stores, uploads, jobs
<1>3. Ranged'
  <2>1. DeleteNames \cap Packing = {}
    BY DEF DeleteNames, Packing, PackNames
  <2> QED
    BY <1>0, <1>1, <2>1, RangedStep DEF FilesInv
<1>4. "idle" \notin Careful \cup Working /\ "deleteList" \notin Careful
      /\ "deleteRemove" \notin RenamingSteps \cup Packing
  BY DEF Careful, Working, MoveSteps, JobSteps, RenamingSteps, Packing, PackNames
<1>5. ASSUME NEW path \in Paths, DeleteBegin(r, path) PROVE FileParts'
  <2> DEFINE t == [Idle EXCEPT !.pc = "deleteList", !.path = path]
  <2>1. Become(r, t) /\ t.pc = "deleteList" /\ t.path = path /\ t.to = None
    BY <1>5 DEF DeleteBegin, Idle
  <2>2. ASSUME NEW q \in Procs PROVE ~Involves(q, path)
    BY <1>5 DEF DeleteBegin, Quiet, Separate, Blocked, FilesInv, JobsInv, JobsMarked
  <2> HIDE DEF t
  <2>3. Exclusive'
    BY <1>0, <2>1, <2>2, ExclusiveBegins
  <2>4. UNCHANGED bucket
    BY <1>5 DEF DeleteBegin, stores, objects
  <2> QED
    BY <1>0, <1>2, <1>3, <1>4, <2>1, <2>3, <2>4, NothingWritten, CarelessStep, BecomeNext DEF FileParts
<1>6. CASE DeleteList(r) /\ ~Finish(r)
  <2> DEFINE found == FilesAt(task[r].path)
             t == [task[r] EXCEPT !.pc = "deleteRemove", !.todo = found, !.n = BytesIn(found)]
  <2>1. t.path = task[r].path /\ t.to = task[r].to /\ t.pc = "deleteRemove" /\ t.todo = FilesAt(t.path)
    BY <1>0 DEF Task
  <2>2. task[r].pc = "deleteList" /\ Become(r, t) /\ UNCHANGED bucket
    BY <1>6 DEF DeleteList, At, stores, objects
  <2> HIDE DEF t
  <2>3. task'[r] = t
    BY <1>0, <2>2, BecomeNext DEF FilesAt, Exists
  <2>4. DeleteSound(task[r])'
    BY <2>1, <2>2, <2>3 DEF DeleteSound, FilesAt, Exists
  <2>5. Sound(task[r])'
    BY <2>1, <2>3, <2>4 DEF Sound, CompleteSound, RenameSound, PackSound, Packing, PackNames
  <2>6. Paired' /\ Exclusive'
    BY <1>0, <1>4, <2>1, <2>2, PairedStep, UploadGoto DEF FilesInv
  <2> QED
    BY <1>0, <1>2, <1>3, <2>2, <2>5, <2>6, NothingWritten, SoundStep DEF FileParts
<1>7. ASSUME NEW k \in Keys, DeleteRemove(r, k) PROVE FileParts'
  <2> DEFINE t == [task[r] EXCEPT !.todo = @ \ {k}]
             e == [task[r] EXCEPT !.todo = @ \ {k}, !.failed = TRUE]
  <2>1. task[r].pc = "deleteRemove" /\ k \in task[r].todo
    BY <1>7 DEF DeleteRemove, At
  <2>2. \A s \in {t, e} : s.path = task[r].path /\ s.to = task[r].to /\ s.pc = "deleteRemove"
                          /\ s.todo = task[r].todo \ {k}
    BY <1>0, <2>1 DEF Task
  <2>3. PICK s \in {t, e} : Become(r, s)
    BY <1>7 DEF DeleteRemove
  <2>4. UNCHANGED bucket \/ bucket' = [bucket EXCEPT ![k] = NoObject]
    BY <1>7 DEF DeleteRemove, SetObject, objects
  <2>5. bucket'[k] \in {bucket[k], NoObject} /\ \A j \in Keys : j # k => bucket'[j] = bucket[j]
    BY <2>4 DEF TypeInv, TypeOK, StoresOK
  <2> HIDE DEF t, e
  <2>6. task'[r] = s
    BY <1>0, <2>3, BecomeNext
  <2>7. Genuine' /\ Writes(r)
    BY <1>0, <1>2, <2>1, <2>5, GenuineStep DEF Writes, Writing
  <2>8. task[r].todo \subseteq FilesAt(task[r].path)
    BY <1>0, <2>1 DEF Sound, DeleteSound
  <2>9. DeleteSound(task[r])'
    BY <2>2, <2>5, <2>6, <2>8 DEF DeleteSound, FilesAt, Exists
  <2>10. Sound(task[r])'
    BY <2>2, <2>6, <2>9 DEF Sound, CompleteSound, RenameSound, PackSound, Packing, PackNames
  <2>11. Paired' /\ Exclusive'
    BY <1>0, <1>4, <2>1, <2>2, <2>3, PairedStep, UploadGoto DEF FilesInv
  <2> QED
    BY <1>0, <1>3, <2>3, <2>7, <2>10, <2>11, SoundStep DEF FileParts
<1>8. CASE DeleteError(r) \/ DeleteUsed(r) \/ (DeleteList(r) /\ Finish(r))
  <2>1. UNCHANGED bucket /\ Finish(r)
    BY <1>8 DEF DeleteError, DeleteUsed, DeleteList, stores, objects
  <2> QED
    BY <1>0, <1>2, <1>3, <1>4, <2>1, Elsewhere, BecomeNext
<1> QED BY <1>5, <1>6, <1>7, <1>8 DEF DeleteSteps

---------------------------------------------------------------------------
(* Renames.                                                                *)

\* No job is running on the path of a rename that passes its check.
LEMMA RenamePasses ==
  ASSUME TypeInv, FilesInv, NEW p \in Procs, NEW t, Become(p, t), t.path = task[p].path, t.to = task[p].to,
         task[p].pc = "renameCheck", t.pc = "renameCollide", ~Blocked(task[p].path)
  PROVE  Exclusive'
<1>1. ASSUME NEW q \in Procs \ {p} PROVE Separated(t, task[q])
  <2>1. Separated(task[p], task[q])
    BY DEF FilesInv, Exclusive
  <2>2. task[q].pc \in RenameJobs => ~Covers(task[q].path, task[p].path)
    BY WorkNames DEF FilesInv, JobsInv, JobsMarked, Blocked
  <2>3. task[p].pc \notin RenameJobs /\ task[p].pc \in Working /\ t.pc \in RenamingSteps
    BY WorkNames DEF RenameJobs
  <2> QED
    BY <2>1, <2>2, <2>3 DEF Separated, Clear, Late
<1> QED
  BY <1>1, ExclusiveStep DEF TypeInv, FilesInv

\* Nor is one that has files to remove from its new name.
LEMMA RenameFindsRoom ==
  ASSUME TypeInv, FilesInv, NEW p \in Procs, NEW t, Become(p, t), t.path = task[p].path, t.to = task[p].to,
         task[p].pc = "renameCollide", t.pc = "renameMark", FilesAt(task[p].to) = {}
  PROVE  Exclusive'
<1>1. ASSUME NEW q \in Procs \ {p} PROVE Separated(t, task[q])
  <2>1. Separated(task[p], task[q]) /\ RenameSound(task[q])
    BY DEF FilesInv, Exclusive, AllSound, Sound
  <2>2. task[q].pc \in RenameJobs /\ task[q].path = task[p].to => Emptied(task[q])
    BY <2>1 DEF RenameJobs, RenameSound, Emptied
  <2>3. task[p].pc \notin RenameJobs /\ task[p].pc \in Working /\ t.pc \in RenamingSteps
        /\ task[p].pc # "renameCheck"
    BY WorkNames DEF RenameJobs
  <2> QED
    BY <2>1, <2>2, <2>3 DEF Separated, Clear, Late
<1> QED
  BY <1>1, ExclusiveStep DEF TypeInv, FilesInv

\* What is shown of the soundness of a rename is all there is to show.
LEMMA RenameIsSound ==
  ASSUME NEW p, task'[p].pc \in RenamingSteps, RenameSound(task[p])'
  PROVE  Sound(task[p])'
<1>1. CompleteSound(task[p])' /\ DeleteSound(task[p])'
  BY DEF CompleteSound, DeleteSound, RenamingSteps
<1>2. PackSound(task[p])'
  BY DEF PackSound, RenamingSteps, Packing, PackNames
<1> QED
  BY <1>1, <1>2 DEF Sound

\* A rename goes on, and moves no object.
LEMMA RenameGoto ==
  ASSUME TypeInv, FilesInv, NEW r \in Requests, RenameSteps(r), UNCHANGED <<bucket, queue, plan>>,
         Goto(r, task'[r].pc), task'[r].pc \in RenamingSteps, task[r].pc \in RenamingSteps,
         RenameSound([task[r] EXCEPT !.pc = task'[r].pc])
  PROVE  Paired' /\ Genuine' /\ AllSound'
<1> DEFINE t == [task[r] EXCEPT !.pc = task'[r].pc]
<1>1. Become(r, t) /\ t.path = task[r].path /\ t.to = task[r].to
  BY TaskTyped DEF Goto, Task, Procs
<1>2. task'[r] = t /\ r \in Procs
  BY <1>1, BecomeNext DEF Procs
<1>3. RenameSound(t)
  OBVIOUS
<1> HIDE DEF t
<1>4. Paired'
  BY <1>1, <1>2, PairedStep DEF FilesInv, Paired
<1>5. RenameSound(task[r])'
  BY <1>2, <1>3 DEF RenameSound, FilesAt, Exists, Target
<1> QED
  BY <1>1, <1>2, <1>4, <1>5, RenameIsSound, NothingWritten, SoundStep, PlansKept DEF FilesInv

\* Up to its mark a rename only looks at files.
LEMMA RenamePrepares ==
  ASSUME TypeInv, FilesInv, Separate, NoStaleRename, NEW r \in Requests, Ranged', PlanKept,
         \/ \E path, to \in Paths : RenameBegin(r, path, to)
         \/ RenameCheck(r) \/ RenameCollide(r) \/ RenameMark(r)
  PROVE  FileParts'
<1>0. /\ r \in Procs /\ task[r] \in Task /\ RenameSound(task[r])
      /\ Exclusive /\ Genuine /\ Ranged /\ Paired
  BY TaskTyped DEF Procs, FilesInv, AllSound, Sound
<1>1. UNCHANGED <<bucket, queue, plan>>
  BY DEF RenameBegin, RenameCheck, RenameCollide, RenameMark, stores, objects, uploads, jobs
<1>2. ASSUME NEW path \in Paths, NEW to \in Paths, RenameBegin(r, path, to) PROVE FileParts'
  <2> DEFINE t == [Idle EXCEPT !.pc = "renameCheck", !.path = path, !.to = to, !.todo = FilesAt(path)]
  <2>1. /\ Become(r, t) /\ t.pc = "renameCheck" /\ t.path = path /\ t.to = to /\ t.todo = FilesAt(path)
        /\ t.done = {} /\ Siblings(path, to) /\ FilesAt(path) # {}
    BY <1>2 DEF RenameBegin, Idle
  <2>2. Exclusive'
    BY <1>0, <1>2, ExclusiveRenameBegins
  <2> HIDE DEF t
  <2>3. task'[r] = t /\ t.pc \in RenamingSteps
    BY <1>0, <2>1, BecomeNext DEF RenamingSteps
  <2>4. RenameSound(task[r])'
    BY <2>1, <2>3 DEF RenameSound, FilesAt, Tree
  <2>5. Paired'
    BY <1>0, <2>1, PairedStep
  <2> QED
    BY <1>0, <1>1, <2>1, <2>2, <2>3, <2>4, <2>5, RenameIsSound, NothingWritten, SoundStep DEF FileParts
<1>3. ASSUME Finish(r) PROVE FileParts'
  <2>1. "idle" \notin Careful \cup Working
    BY DEF Careful, Working, MoveSteps, JobSteps, RenamingSteps, Packing, PackNames
  <2> QED
    BY <1>0, <1>1, <1>3, <2>1, Elsewhere, BecomeNext
<1>4. ASSUME NEW pc \in RenamingSteps, Goto(r, pc), task[r].pc \in RenamingSteps, Exclusive',
             RenameSound([task[r] EXCEPT !.pc = pc]), RenameSteps(r)
      PROVE  FileParts'
  <2>1. task'[r].pc = pc
    BY <1>0, <1>4, BecomeNext
  <2> QED
    BY <1>1, <1>4, <2>1, RenameGoto DEF FileParts
<1>5. {"renameCheck", "renameCollide", "renameMark", "renameCopy"} \subseteq RenamingSteps
  BY DEF RenamingSteps
<1>6. CASE RenameCheck(r) /\ ~Finish(r)
  <2> DEFINE t == [task[r] EXCEPT !.pc = "renameCollide"]
  <2>1. /\ task[r].pc = "renameCheck" /\ ~Blocked(task[r].path) /\ Goto(r, "renameCollide") /\ RenameSteps(r)
    BY <1>6 DEF RenameCheck, At, RenameSteps
  <2>2. /\ t.pc = "renameCollide" /\ t.path = task[r].path /\ t.to = task[r].to /\ t.todo = task[r].todo
        /\ t.done = task[r].done /\ Become(r, t)
    BY <1>0, <2>1 DEF Task, Goto
  <2>3. task[r].todo = FilesAt(task[r].path)
    BY <1>0, <2>1, BecomeNext DEF NoStaleRename, At
  <2>4. RenameSound(t)
    BY <1>0, <2>1, <2>2, <2>3 DEF RenameSound
  <2>5. Exclusive'
    <3> HIDE DEF t
    <3> QED BY <1>0, <2>1, <2>2, RenamePasses
  <2> QED
    BY <1>4, <1>5, <2>1, <2>4, <2>5
<1>7. CASE RenameCollide(r) /\ ~Finish(r)
  <2> DEFINE t == [task[r] EXCEPT !.pc = "renameMark"]
  <2>1. /\ task[r].pc = "renameCollide" /\ FilesAt(task[r].to) = {} /\ Goto(r, "renameMark") /\ RenameSteps(r)
    BY <1>7 DEF RenameCollide, At, RenameSteps, Separate
  <2>2. /\ t.pc = "renameMark" /\ t.path = task[r].path /\ t.to = task[r].to /\ t.todo = task[r].todo
        /\ t.done = task[r].done /\ Become(r, t)
    BY <1>0, <2>1 DEF Task, Goto
  <2>3. RenameSound(t)
    BY <1>0, <2>1, <2>2 DEF RenameSound
  <2>4. Exclusive'
    <3> HIDE DEF t
    <3> QED BY <1>0, <2>1, <2>2, RenameFindsRoom
  <2> QED
    BY <1>4, <1>5, <2>1, <2>3, <2>4
<1>8. CASE RenameMark(r)
  <2> DEFINE t == [task[r] EXCEPT !.pc = "renameCopy"]
  <2>1. task[r].pc = "renameMark" /\ Goto(r, "renameCopy") /\ RenameSteps(r)
    BY <1>8 DEF RenameMark, At, RenameSteps
  <2>2. /\ t.pc = "renameCopy" /\ t.path = task[r].path /\ t.to = task[r].to /\ t.todo = task[r].todo
        /\ t.done = task[r].done /\ Become(r, t)
    BY <1>0, <2>1 DEF Task, Goto
  <2>3. Siblings(task[r].path, task[r].to)
    BY <1>0, <1>5, <2>1 DEF Paired
  <2>4. \A k \in FilesAt(task[r].path) : Target(task[r], k) \in Tree(task[r].to)
    BY <2>3, TargetPlaces DEF FilesAt, Tree
  <2>5. \A k \in FilesAt(task[r].path) : ~Exists(Target(task[r], k))
    BY <1>0, <2>1, <2>4 DEF RenameSound, FilesAt, Tree
  <2>6. \A k : Target(t, k) = Target(task[r], k)
    BY <2>2 DEF Target
  <2>7. RenameSound(t)
    BY <1>0, <2>1, <2>2, <2>5, <2>6 DEF RenameSound
  <2>8. GoesOn(task[r], t)
    BY <1>5, <2>1, <2>2, WorkNames DEF GoesOn, Emptied, RenameJobs
  <2>9. Exclusive'
    BY <1>0, <2>2, <2>8, ExclusiveGoesOn
  <2> QED
    BY <1>4, <1>5, <2>1, <2>7, <2>9
<1> QED
  BY <1>2, <1>3, <1>6, <1>7, <1>8

\* One file is copied, or the call fails.
LEMMA RenameCopies ==
  ASSUME TypeInv, FilesInv, NEW r \in Requests, Ranged', PlanKept, NEW k \in Keys, RenameCopy(r, k)
  PROVE  FileParts'
<1> DEFINE copied == [task[r] EXCEPT !.todo = @ \ {k}, !.done = @ \cup {k}]
           not    == [task[r] EXCEPT !.todo = @ \ {k}, !.failed = TRUE]
           s      == task[r]
           x      == Target(task[r], k)
<1>0. /\ r \in Procs /\ task[r] \in Task /\ RenameSound(s) /\ Exclusive /\ Genuine /\ Paired
  BY TaskTyped DEF Procs, FilesInv, AllSound, Sound
<1>1. s.pc = "renameCopy" /\ k \in s.todo /\ UNCHANGED queue
  BY DEF RenameCopy, At, jobs
<1>2. /\ s.pc \in RenamingSteps /\ Siblings(s.path, s.to)
  BY <1>0, <1>1 DEF RenamingSteps, Paired
<1>3. /\ FilesAt(s.path) # {} /\ s.todo \subseteq FilesAt(s.path) /\ s.done \subseteq FilesAt(s.path)
      /\ s.todo \cap s.done = {} /\ \A j \in s.todo : ~Exists(Target(s, j))
      /\ \A j \in s.done : bucket[Target(s, j)] = bucket[j]
  BY <1>0, <1>1 DEF RenameSound
<1>4. \A j \in FilesAt(s.path) : j \in Keys /\ j \in Tree(s.path) /\ Exists(j)
  BY DEF FilesAt, Tree
<1>5. /\ x \in Tree(s.to) /\ x \in Keys /\ x \notin Tree(s.path)
      /\ \A j \in Tree(s.path) : Target(s, j) = x => j = k
  BY <1>1, <1>2, <1>3, <1>4, TargetPlaces
<1>6. PICK t \in {copied, not} : Become(r, t) /\ (t = copied => bucket' = [bucket EXCEPT ![x] = bucket[k]])
  <2>1. (Become(r, copied) /\ bucket' = [bucket EXCEPT ![x] = bucket[k]]) \/ Become(r, not)
    BY DEF RenameCopy, SetObject
  <2>2. copied # not
    <3>1. copied.done = s.done \cup {k} /\ not.done = s.done
      BY <1>0 DEF Task
    <3> QED BY <1>1, <1>3, <3>1
  <2> HIDE DEF copied, not
  <2> QED BY <2>1, <2>2
<1>7. /\ t.pc = "renameCopy" /\ t.path = s.path /\ t.to = s.to /\ t.todo = s.todo \ {k}
      /\ t.done \in {s.done, s.done \cup {k}}
      /\ k \in t.done => t = copied
  <2>1. /\ copied.pc = s.pc /\ copied.path = s.path /\ copied.to = s.to
        /\ copied.todo = s.todo \ {k} /\ copied.done = s.done \cup {k}
    BY <1>0 DEF Task
  <2>2. /\ not.pc = s.pc /\ not.path = s.path /\ not.to = s.to
        /\ not.todo = s.todo \ {k} /\ not.done = s.done
    BY <1>0 DEF Task
  <2> HIDE DEF copied, not
  <2> QED BY <1>1, <1>3, <2>1, <2>2
<1>8. UNCHANGED bucket \/ bucket' = [bucket EXCEPT ![x] = bucket[k]]
  BY DEF RenameCopy, SetObject, objects
<1>9. /\ bucket'[x] \in {bucket[x], bucket[k]} /\ \A j \in Keys : j # x => bucket'[j] = bucket[j]
      /\ t = copied => bucket'[x] = bucket[k]
  BY <1>5, <1>6, <1>8 DEF TypeInv, TypeOK, StoresOK
<1> HIDE DEF copied, not, s, x
<1>10. task'[r] = t
  BY <1>0, <1>6, BecomeNext
<1>11. FilesAt(t.path) = FilesAt(s.path) /\ \A j \in FilesAt(s.path) : bucket'[j] = bucket[j]
  BY <1>4, <1>5, <1>7, <1>9
<1>12. \A j \in Keys : (bucket'[j] # NoObject /\ (j = s.path \/ j[1] = s.path)) <=> j \in FilesAt(s.path)
  BY <1>5, <1>9, <1>11 DEF FilesAt, Exists, Tree
<1>13. \A j : Target(t, j) = Target(s, j)
  BY <1>7 DEF Target
<1>14. \A j \in t.todo : bucket'[Target(t, j)] = NoObject
  <2> SUFFICES ASSUME NEW j \in t.todo PROVE bucket'[Target(s, j)] = NoObject
    BY <1>13
  <2>1. j \in Tree(s.path) /\ Target(s, j) # x /\ ~Exists(Target(s, j))
    BY <1>3, <1>4, <1>5, <1>7
  <2>2. Target(s, j) \in Keys
    BY <1>2, <2>1, TargetPlaces
  <2> QED
    BY <1>9, <2>1, <2>2 DEF Exists
<1>15. \A j \in t.done : bucket'[Target(t, j)] = bucket'[j]
  <2> SUFFICES ASSUME NEW j \in t.done PROVE bucket'[Target(s, j)] = bucket'[j]
    BY <1>13
  <2>1. CASE j = k
    BY <1>1, <1>3, <1>7, <1>9, <1>11, <2>1 DEF x, s
  <2>2. CASE j # k
    <3>1. j \in s.done /\ j \in Tree(s.path) /\ Target(s, j) # x
      BY <1>3, <1>4, <1>5, <1>7, <2>2
    <3>2. Target(s, j) \in Keys
      BY <1>2, <3>1, TargetPlaces
    <3> QED
      BY <1>3, <1>9, <1>11, <3>1, <3>2
  <2> QED BY <2>1, <2>2
<1>16. t.todo \subseteq FilesAt(s.path) /\ t.done \subseteq FilesAt(s.path) /\ t.todo \cap t.done = {}
  BY <1>1, <1>3, <1>7
<1>17. RenameSound(task[r])'
  <2>1. FilesAt(t.path) \subseteq Keys
    BY <1>4, <1>11
  <2>2. FilesAt(task[r].path)' = FilesAt(s.path)
    BY <1>7, <1>10, <1>12 DEF FilesAt, Exists
  <2>3. \A j : Target(task[r], j)' = Target(t, j)
    BY <1>10 DEF Target
  <2> QED
    BY <1>3, <1>7, <1>10, <1>14, <1>15, <1>16, <2>2, <2>3 DEF RenameSound, Exists
<1>18. Sound(task[r])' /\ Paired'
  BY <1>0, <1>2, <1>6, <1>7, <1>10, <1>17, RenameIsSound, PairedStep DEF RenamingSteps
<1>19. Exclusive'
  <2>1. GoesOn(task[r], t)
    BY <1>1, <1>7, WorkNames DEF GoesOn, Emptied, RenameJobs, s
  <2> QED
    BY <1>0, <1>6, <2>1, ExclusiveGoesOn
<1>20. Genuine' /\ Writes(r)
  <2>1. Authentic(bucket[k])
    BY <1>0, <1>1, <1>3, <1>4 DEF Genuine
  <2> QED
    BY <1>0, <1>1, <1>5, <1>9, <2>1, GenuineStep DEF Writes, Writing, s
<1> QED
  BY <1>0, <1>6, <1>18, <1>19, <1>20, SoundStep DEF FileParts

\* One original is removed, or the call fails.
LEMMA RenameRemoves ==
  ASSUME TypeInv, FilesInv, NEW r \in Requests, Ranged', PlanKept, NEW k \in Keys, RenameRemove(r, k)
  PROVE  FileParts'
<1> DEFINE s == task[r]
           t == [task[r] EXCEPT !.done = @ \ {k}]
<1>0. /\ r \in Procs /\ task[r] \in Task /\ RenameSound(s) /\ Exclusive /\ Genuine /\ Paired
  BY TaskTyped DEF Procs, FilesInv, AllSound, Sound
<1>1. s.pc = "renameRemove" /\ k \in s.done /\ UNCHANGED queue /\ Become(r, t)
  BY DEF RenameRemove, At, jobs
<1>2. /\ s.pc \in RenamingSteps /\ Siblings(s.path, s.to)
  BY <1>0, <1>1 DEF RenamingSteps, Paired
<1>3. s.done \subseteq FilesAt(s.path) /\ \A j \in s.done : bucket[Target(s, j)] = bucket[j]
  BY <1>0, <1>1 DEF RenameSound
<1>4. \A j \in FilesAt(s.path) : j \in Keys /\ j \in Tree(s.path) /\ Exists(j)
  BY DEF FilesAt, Tree
<1>5. t.pc = "renameRemove" /\ t.path = s.path /\ t.to = s.to /\ t.done = s.done \ {k}
  BY <1>0, <1>1 DEF Task
<1>6. UNCHANGED bucket \/ bucket' = [bucket EXCEPT ![k] = NoObject]
  BY DEF RenameRemove, SetObject, objects
<1>7. bucket'[k] \in {bucket[k], NoObject} /\ \A j \in Keys : j # k => bucket'[j] = bucket[j]
  BY <1>6 DEF TypeInv, TypeOK, StoresOK
<1> HIDE DEF s, t
<1>8. task'[r] = t
  BY <1>0, <1>1, BecomeNext
<1>9. ASSUME NEW j \in t.done
      PROVE  /\ bucket'[j] = bucket[j] /\ bucket'[Target(s, j)] = bucket[Target(s, j)]
             /\ bucket[Target(s, j)] = bucket[j] /\ j \in FilesAt(s.path)
  <2>1. j \in s.done /\ j # k /\ j \in Tree(s.path) /\ k \in Tree(s.path)
    BY <1>1, <1>3, <1>4, <1>5
  <2>2. Target(s, j) \in Keys /\ Target(s, j) # k
    BY <1>2, <2>1, TargetPlaces
  <2> QED
    BY <1>3, <1>4, <1>7, <2>1, <2>2
<1>10. RenameSound(task[r])'
  <2>1. \A j : Target(task[r], j)' = Target(s, j)
    BY <1>5, <1>8 DEF Target
  <2>2. \A j \in t.done : j \in FilesAt(task[r].path)'
    BY <1>4, <1>5, <1>8, <1>9 DEF FilesAt, Exists
  <2> QED
    BY <1>5, <1>8, <1>9, <2>1, <2>2 DEF RenameSound
<1>11. Sound(task[r])' /\ Paired'
  BY <1>0, <1>1, <1>2, <1>5, <1>8, <1>10, RenameIsSound, PairedStep DEF RenamingSteps
<1>12. Exclusive'
  <2>1. GoesOn(task[r], t)
    BY <1>1, <1>5, WorkNames DEF GoesOn, Emptied, RenameJobs, s
  <2> QED
    BY <1>0, <1>1, <2>1, ExclusiveGoesOn
<1>13. Genuine' /\ Writes(r)
  BY <1>0, <1>1, <1>7, GenuineStep DEF Writes, Writing, s
<1> QED
  BY <1>0, <1>1, <1>11, <1>12, <1>13, SoundStep DEF FileParts

LEMMA RenameRequests ==
  ASSUME TypeInv, FilesInv, Separate, NoStaleRename, NEW r \in Requests, RenameSteps(r)
  PROVE  FileParts'
<1>0. /\ r \in Procs /\ task[r] \in Task /\ RenameSound(task[r]) /\ Exclusive /\ r \notin Workers
  BY TaskTyped, DriveAssumption DEF Procs, FilesInv, AllSound, Sound
<1>1. UNCHANGED <<queue, plan>> /\ PlanKept
  BY PlansKept DEF RenameSteps, RenameBegin, RenameCheck, RenameCollide, RenameMark, RenameCopy,
     RenameCopied, RenameRemove, RenamePublish, RenameUnmark, stores, uploads, jobs
<1>2. Ranged'
  <2>1. Moved(r, RenameNames) /\ RenameNames \cap Packing = {}
    BY RenameMoves, WorkNames DEF RenameNames, Packing
  <2> QED
    BY <1>0, <2>1, RangedStep DEF FilesInv
<1>3. CASE RenameCopied(r) \/ RenamePublish(r)
  <2>1. PICK pc \in {"renamePublish", "renameRemove", "renameUnmark"} : Goto(r, pc)
    BY <1>3 DEF RenameCopied, RenamePublish
  <2> DEFINE t == [task[r] EXCEPT !.pc = pc]
  <2>2. /\ t.pc = pc /\ t.path = task[r].path /\ t.to = task[r].to /\ t.done = task[r].done
        /\ Become(r, t)
    BY <1>0, <2>1 DEF Task, Goto
  <2>3. /\ UNCHANGED bucket /\ task[r].pc \in {"renameCopy", "renameRemove", "renamePublish"}
        /\ task[r].pc # "renameCopy" => pc = "renameUnmark"
        /\ pc = "renameRemove" => task[r].pc = "renameCopy"
    <3>1. CASE RenameCopied(r)
      BY <3>1 DEF RenameCopied, At, stores, objects
    <3>2. CASE RenamePublish(r)
      <4>1. Goto(r, "renameUnmark") /\ pc = "renameUnmark"
        BY <1>0, <2>1, <3>2, BecomeNext DEF RenamePublish
      <4> QED BY <3>2, <4>1 DEF RenamePublish, At
    <3> QED BY <1>3, <3>1, <3>2
  <2>4. \A j : Target(t, j) = Target(task[r], j)
    BY <2>2 DEF Target
  <2>5. RenameSound(t)
    BY <1>0, <2>1, <2>2, <2>3, <2>4 DEF RenameSound
  <2>6. Exclusive'
    <3>1. GoesOn(task[r], t)
      BY <2>1, <2>2, <2>3, WorkNames DEF GoesOn, Emptied, RenameJobs
    <3> QED BY <1>0, <2>2, <3>1, ExclusiveGoesOn
  <2>7. task'[r].pc = pc /\ pc \in RenamingSteps /\ task[r].pc \in RenamingSteps
    BY <1>0, <2>1, <2>3, BecomeNext DEF RenamingSteps
  <2> QED
    BY <1>1, <1>2, <2>1, <2>3, <2>5, <2>6, <2>7, RenameGoto DEF FileParts
<1>4. CASE RenameUnmark(r)
  <2>1. "idle" \notin Careful \cup Working
    BY DEF Careful, Working, MoveSteps, JobSteps, RenamingSteps, Packing, PackNames
  <2>2. Finish(r) /\ UNCHANGED bucket
    BY <1>4 DEF RenameUnmark, objects
  <2> QED
    BY <1>0, <1>1, <1>2, <2>1, <2>2, Elsewhere, BecomeNext
<1> QED
  BY <1>1, <1>2, <1>3, <1>4, RenamePrepares, RenameCopies, RenameRemoves DEF RenameSteps

---------------------------------------------------------------------------
(* Recompression.                                                          *)

LEMMA PackIsSound ==
  ASSUME NEW p, task'[p].pc \in PackNames, PackSound(task[p])'
  PROVE  Sound(task[p])'
<1>1. CompleteSound(task[p])' /\ DeleteSound(task[p])'
  BY DEF CompleteSound, DeleteSound, PackNames
<1>2. RenameSound(task[p])'
  BY DEF RenameSound, PackNames
<1> QED
  BY <1>1, <1>2 DEF Sound

\* A worker goes on with its item.
LEMMA PackGoesOn ==
  ASSUME TypeInv, FilesInv, NEW w \in Workers, PackSteps(w), NEW t, Become(w, t),
         t.path = task[w].path, t.to = task[w].to, task[w].pc \in Packing, t.pc \in Packing,
         Ranged', PackSound(task[w])', Genuine', Writes(w)
  PROVE  FileParts'
<1>1. w \in Procs /\ task'[w] = t
  BY BecomeNext DEF Procs
<1>2. GoesOn(task[w], t)
  BY WorkNames DEF GoesOn, Packing, PackNames, Emptied, RenamingSteps
<1>3. Exclusive'
  BY <1>1, <1>2, ExclusiveGoesOn DEF FilesInv
<1>4. Paired'
  BY <1>1, PairedStep, WorkNames DEF FilesInv
<1> QED
  BY <1>1, <1>3, <1>4, PackIsSound, SoundStep DEF FileParts, Packing

\* What goes back on the queue is as good as what came from it.
LEMMA RequeueGenuine ==
  ASSUME TypeInv, Genuine, NEW w \in Workers, Requeue(task[w]), PackSound(task[w]), task[w].pc \in Packing,
         UNCHANGED bucket, PlanKept
  PROVE  Genuine'
<1> DEFINE item == ItemOf(task[w])
<1>1. queue \in Seq(Item) /\ (queue' = queue \/ queue' = Append(queue, item))
  BY DEF TypeInv, TypeOK, StoresOK, Requeue
<1>2. ~item.packed /\ Authentic(item)
  BY DEF ItemOf, PackSound, Authentic
<1> HIDE DEF item
<1>3. \A i \in 1..Len(queue') : (\E j \in 1..Len(queue) : queue'[i] = queue[j]) \/ queue'[i] = item
  BY <1>1
<1> QED
  BY <1>2, <1>3, GenuineStep

LEMMA Workmen ==
  ASSUME TypeInv, FilesInv, Separate, NEW w \in Workers, PackSteps(w)
  PROVE  FileParts'
<1>0. /\ w \in Procs /\ task[w] \in Task /\ PackSound(task[w]) /\ Fitted(task[w], plan)
      /\ Exclusive /\ Genuine /\ w \notin Requests
  BY TaskTyped, DriveAssumption DEF Procs, FilesInv, AllSound, Sound
<1>1. UNCHANGED plan /\ PlanKept
  BY PlansKept DEF PackSteps, Dequeue, PackCheck, PackDiskFull, PackMark, PackLoad, Pack, PackNothing,
     PackRequeue, PackStat, PackPut, PackUsed, PackUnmark, stores, uploads
<1>2. Ranged'
  <2>1. Moved(w, PackNames)
    BY PackMoves
  <2> QED
    BY <1>0, <2>1, RangedStep DEF FilesInv
<1>3. /\ "idle" \notin Careful \cup Working
      /\ Packing = {"packCheck", "packDisk", "packLoad", "pack", "packStat", "packPut", "packUsed", "packUnmark"}
  BY DEF Careful, Working, MoveSteps, JobSteps, RenamingSteps, Packing, PackNames
<1>4. ASSUME task[w].pc \in Packing
      PROVE  /\ task[w].path \in Keys
             /\ task[w].obj.size = task[w].n /\ ~task[w].obj.packed /\ Authentic(task[w].obj)
  BY <1>0, <1>3, <1>4 DEF Fitted, KeySteps, PackSound
<1>5. CASE Dequeue(w)
  <2> DEFINE item == Head(queue)
             x == [size |-> item.size, content |-> item.content, packed |-> item.packed]
             t == [Idle EXCEPT !.pc = "packCheck", !.path = item.key, !.n = item.size, !.obj = x]
  <2>1. /\ Become(w, t) /\ t.pc = "packCheck" /\ t.path = item.key /\ t.to = None /\ t.n = item.size
        /\ t.obj = x
    BY <1>5 DEF Dequeue, Idle
  <2>2. queue \in Seq(Item) /\ queue # <<>> /\ queue' = Tail(queue) /\ UNCHANGED bucket
    BY <1>5 DEF Dequeue, TypeInv, TypeOK, StoresOK, objects
  <2>3. item \in Item /\ 1 \in 1..Len(queue) /\ item = queue[1]
    BY <2>2
  <2>4. ~x.packed /\ Authentic(x) /\ x.size = item.size
    BY <1>0, <2>3 DEF Genuine, Authentic
  <2>5. Genuine'
    <3>1. \A i \in 1..Len(queue') : \E j \in 1..Len(queue) : queue'[i] = queue[j]
      <4> SUFFICES ASSUME NEW i \in 1..Len(queue') PROVE \E j \in 1..Len(queue) : queue'[i] = queue[j]
        OBVIOUS
      <4>1. i + 1 \in 1..Len(queue) /\ queue'[i] = queue[i + 1]
        BY <2>2
      <4> QED BY <4>1
    <3> QED BY <1>0, <1>1, <2>2, <3>1, GenuineStep
  <2>6. item.key \in Paths /\ \A q \in Procs : ~Involves(q, item.key)
    BY <1>5, <2>3 DEF Dequeue, Quiet, Separate, Item, Paths
  <2> HIDE DEF item, x, t
  <2>7. Exclusive'
    BY <1>0, <2>1, <2>6, ExclusiveBegins
  <2>8. task'[w] = t
    BY <1>0, <2>1, BecomeNext
  <2>9. \A y : Authentic(y) => Authentic(y)'
    BY <1>1, PlanStays
  <2>10. PackSound(task[w])'
    BY <2>1, <2>4, <2>8, <2>9 DEF PackSound
  <2>11. Paired'
    BY <1>0, <2>1, PairedStep DEF FilesInv, RenamingSteps
  <2> QED
    BY <1>0, <1>1, <1>2, <2>1, <2>2, <2>5, <2>7, <2>8, <2>10, <2>11, PackIsSound, SoundStep
       DEF FileParts, Writes, PackNames
<1>6. ASSUME NEW pc \in Packing, Goto(w, pc), task[w].pc \in Packing, UNCHANGED bucket, Genuine',
             PackSound([task[w] EXCEPT !.pc = pc])
      PROVE  FileParts'
  <2> DEFINE t == [task[w] EXCEPT !.pc = pc]
  <2>1. Become(w, t) /\ t.pc = pc /\ t.path = task[w].path /\ t.to = task[w].to
    BY <1>0, <1>6 DEF Task, Goto
  <2>2. PackSound(t)
    BY <1>6
  <2> HIDE DEF t
  <2>3. task'[w] = t
    BY <1>0, <2>1, BecomeNext
  <2>4. \A y : Authentic(y) => Authentic(y)'
    BY <1>1, PlanStays
  <2>5. PackSound(task[w])'
    BY <1>6, <2>2, <2>3, <2>4 DEF PackSound, Exists, Packed
  <2> QED
    BY <1>1, <1>2, <1>6, <2>1, <2>5, PackGoesOn DEF Writes
<1>7. ASSUME NEW pc \in Packing, task[w].pc \in Packing, pc \in {"packDisk", "packLoad", "packUnmark"}
      PROVE  PackSound([task[w] EXCEPT !.pc = pc])
  BY <1>0, <1>3, <1>4, <1>7 DEF PackSound, Task
<1>8. ASSUME UNCHANGED <<bucket, queue>> PROVE Genuine' /\ Writes(w)
  BY <1>0, <1>1, <1>8, NothingWritten
<1>9. CASE \/ PackMark(w) \/ PackNothing(w) \/ PackUsed(w)
           \/ (PackCheck(w) /\ ~Finish(w)) \/ (PackLoad(w) /\ ~Exists(task[w].path))
           \/ (PackStat(w) /\ Goto(w, "packUnmark")) \/ (PackPut(w) /\ UNCHANGED bucket /\ Goto(w, "packUnmark"))
  <2>1. UNCHANGED <<bucket, queue>> /\ task[w].pc \in Packing
        /\ \E pc \in {"packDisk", "packLoad", "packUnmark"} : Goto(w, pc)
    BY <1>3, <1>9 DEF PackMark, PackNothing, PackUsed, PackCheck, PackLoad, PackStat, PackPut, At,
       stores, objects, jobs
  <2> QED
    BY <1>3, <1>6, <1>7, <1>8, <2>1
<1>10. CASE PackRequeue(w)
  <2>1. Goto(w, "packUnmark") /\ task[w].pc \in Packing /\ UNCHANGED bucket /\ Requeue(task[w])
    BY <1>3, <1>10 DEF PackRequeue, At, objects
  <2> QED
    BY <1>0, <1>1, <1>3, <1>6, <1>7, <2>1, RequeueGenuine
<1>11. CASE PackDiskFull(w)
  <2>1. Finish(w) /\ task[w].pc \in Packing /\ UNCHANGED bucket /\ Requeue(task[w])
    BY <1>3, <1>11 DEF PackDiskFull, At, objects
  <2>2. Genuine' /\ Writes(w)
    BY <1>0, <1>1, <2>1, RequeueGenuine DEF Writes
  <2> QED
    BY <1>0, <1>2, <1>3, <2>1, <2>2, CarelessStep, ExclusiveElsewhere, BecomeNext DEF FileParts
<1>12. CASE PackUnmark(w) \/ (PackCheck(w) /\ Finish(w))
  <2>1. Finish(w) /\ UNCHANGED <<bucket, queue>>
    BY <1>12 DEF PackUnmark, PackCheck, stores, objects, jobs
  <2> QED
    BY <1>0, <1>1, <1>2, <1>3, <2>1, Elsewhere, BecomeNext
<1>13. CASE PackLoad(w) /\ Exists(task[w].path)
  <2> DEFINE t == [task[w] EXCEPT !.pc = "pack", !.up = bucket[task[w].path].content]
  <2>1. /\ Become(w, t) /\ UNCHANGED <<bucket, queue>> /\ task[w].pc \in Packing
        /\ t.pc = "pack" /\ t.path = task[w].path /\ t.to = task[w].to /\ t.obj = task[w].obj
        /\ t.n = task[w].n /\ t.up = bucket[task[w].path].content
    BY <1>0, <1>3, <1>13 DEF PackLoad, At, Task, stores, objects, jobs
  <2> HIDE DEF t
  <2>2. task'[w] = t
    BY <1>0, <2>1, BecomeNext
  <2>3. \A y : Authentic(y) => Authentic(y)'
    BY <1>1, PlanStays
  <2>4. PackSound(task[w])'
    BY <1>4, <1>13, <2>1, <2>2, <2>3 DEF PackSound, Exists
  <2> QED
    BY <1>2, <1>3, <1>8, <2>1, <2>4, PackGoesOn
<1>14. ASSUME NEW m \in Sizes, Pack(w, m) PROVE FileParts'
  <2> DEFINE t == [task[w] EXCEPT !.pc = "packStat", !.old = m]
  <2>1. /\ Become(w, t) /\ UNCHANGED <<bucket, queue>> /\ task[w].pc = "pack"
        /\ t.pc = "packStat" /\ t.path = task[w].path /\ t.to = task[w].to /\ t.obj = task[w].obj
        /\ t.n = task[w].n /\ t.up = task[w].up /\ t.old = m
    BY <1>0, <1>14 DEF Pack, At, Task, stores, objects, jobs
  <2>2. m <= task[w].n
    BY <1>0, <1>14, DriveAssumption DEF Pack, Saves, Task
  <2> HIDE DEF t
  <2>3. task'[w] = t
    BY <1>0, <2>1, BecomeNext
  <2>4. \A y : Authentic(y) => Authentic(y)'
    BY <1>1, PlanStays
  <2>5. PackSound(task[w])'
    BY <1>0, <1>3, <1>4, <2>1, <2>2, <2>3, <2>4 DEF PackSound, Exists
  <2> QED
    BY <1>2, <1>3, <1>8, <2>1, <2>5, PackGoesOn
<1>15. CASE PackStat(w) /\ ~Goto(w, "packUnmark")
  <2> DEFINE t == [task[w] EXCEPT !.pc = "packPut"]
             y == bucket[task[w].path]
             z == task[w].obj
  <2>1. /\ Goto(w, "packPut") /\ UNCHANGED <<bucket, queue>> /\ task[w].pc = "packStat"
        /\ Exists(task[w].path) /\ ETag(y) = ETag(z)
    BY <1>15 DEF PackStat, At, stores, objects, jobs
  <2>2. task[w].path \in Keys /\ ~z.packed /\ Authentic(z)
    BY <1>3, <1>4, <2>1
  <2>3. y \in Object /\ z \in Object /\ Authentic(y)
    BY <1>0, <2>1, <2>2, ObjectTyped DEF Genuine, Task
  <2>4. y.content = z.content /\ y.packed = z.packed /\ y.size = z.size
    BY <2>1, <2>2, <2>3 DEF ETag, Authentic
  <2>5. y = z
    BY <2>3, <2>4 DEF Object
  <2>6. PackSound(t)
    BY <1>0, <1>3, <2>1, <2>5 DEF PackSound, Task
  <2> QED
    BY <1>3, <1>6, <1>8, <2>1, <2>6
<1>16. CASE PackPut(w) /\ ~(UNCHANGED bucket /\ Goto(w, "packUnmark"))
  <2> DEFINE x == Packed(task[w])
  <2>1. /\ task[w].pc = "packPut" /\ UNCHANGED queue /\ bucket' = [bucket EXCEPT ![task[w].path] = x]
        /\ \E pc \in {"packUsed", "packUnmark"} : Goto(w, pc)
    BY <1>16 DEF PackPut, At, SetObject, objects, jobs
  <2>2. PICK pc \in {"packUsed", "packUnmark"} : Goto(w, pc)
    BY <2>1
  <2> DEFINE t == [task[w] EXCEPT !.pc = pc]
  <2>3. /\ Become(w, t) /\ t.pc = pc /\ t.path = task[w].path /\ t.to = task[w].to /\ t.obj = task[w].obj
        /\ t.n = task[w].n /\ t.up = task[w].up /\ t.old = task[w].old
    BY <1>0, <2>2 DEF Task, Goto
  <2>4. /\ task[w].path \in Keys /\ bucket[task[w].path].content = task[w].up /\ Exists(task[w].path)
        /\ task[w].old <= task[w].n
    BY <1>0, <1>3, <1>4, <2>1 DEF PackSound
  <2>5. Authentic(x)
    BY <1>0, <2>4 DEF Genuine, Authentic, Packed
  <2>6. bucket'[task[w].path] = x /\ \A k \in Keys : k # task[w].path => bucket'[k] = bucket[k]
    BY <2>1, <2>4 DEF TypeInv, TypeOK, StoresOK
  <2>7. Genuine' /\ Writes(w)
    BY <1>0, <1>1, <2>1, <2>5, <2>6, GenuineStep DEF Writes, Writing
  <2> HIDE DEF t
  <2>8. task'[w] = t
    BY <1>0, <2>3, BecomeNext
  <2>9. \A y : Authentic(y) => Authentic(y)'
    BY <1>1, PlanStays
  <2>10. PackSound(task[w])'
    BY <1>3, <1>4, <2>1, <2>3, <2>4, <2>6, <2>8, <2>9 DEF PackSound, Packed
  <2> QED
    BY <1>2, <1>3, <2>1, <2>3, <2>7, <2>10, PackGoesOn
<1> QED
  BY <1>5, <1>9, <1>10, <1>11, <1>12, <1>13, <1>14, <1>15, <1>16 DEF PackSteps

---------------------------------------------------------------------------
(* The invariant.                                                          *)

LEMMA OrderedSeparate == Separate => Ordered
BY DEF Separate, Ordered

LEMMA IdleNames ==
  /\ Idle.pc = "idle" /\ "idle" \notin Working \cup RenamingSteps \cup Packing \cup Careful
  /\ "idle" \in PackNames
BY DEF Idle, Working, MoveSteps, JobSteps, RenamingSteps, Packing, PackNames, Careful

LEMMA FilesInit == Init => FilesInv
<1> SUFFICES ASSUME Init PROVE FilesInv
  OBVIOUS
<1>1. \A p \in Procs : task[p] = Idle
  BY DEF Init
<1>2. Exclusive /\ Ranged /\ Paired
  BY <1>1, IdleNames DEF Exclusive, Separated, Ranged, Paired, Procs
<1>3. Sound(Idle)
  BY IdleNames DEF Sound, CompleteSound, DeleteSound, RenameSound, PackSound, Packing, PackNames,
     Careful, RenamingSteps
<1>4. AllSound
  BY <1>1, <1>3 DEF AllSound
<1>5. Genuine
  BY DEF Init, Genuine, Exists
<1> QED
  BY <1>2, <1>4, <1>5, JobsInit DEF FilesInv

LEMMA OtherFiles ==
  ASSUME TypeInv, FilesInv, SweepSteps \/ (\E u \in UploadIds : Expire(u)) \/ Restart \/ UNCHANGED vars
  PROVE  FileParts'
<1>1. UNCHANGED <<bucket, queue, plan>> /\ PlanKept
  BY PlansKept DEF SweepSteps, SweepBegin, SweepAbort, SweepDelete, Expire, Restart, vars, objects, jobs
<1>2. Genuine'
  BY <1>1, NothingWritten DEF FilesInv
<1>3. CASE Restart
  <2>1. \A p \in Procs : task'[p] = Idle
    BY <1>3 DEF Restart
  <2>2. Exclusive' /\ Ranged' /\ Paired'
    BY <2>1, IdleNames DEF Exclusive, Separated, Ranged, Paired, Procs
  <2>3. \A p \in Procs : Sound(task[p])'
    BY <2>1, IdleNames, Careless
  <2>4. AllSound'
    BY <2>3 DEF AllSound
  <2> QED BY <1>2, <2>2, <2>4 DEF FileParts
<1>4. CASE UNCHANGED task
  <2>1. Exclusive' /\ Ranged' /\ Paired'
    BY <1>4 DEF FilesInv, Exclusive, Ranged, Paired
  <2>2. AllSound'
    BY <1>1, <1>4 DEF FilesInv, AllSound, Sound, CompleteSound, DeleteSound, RenameSound, PackSound,
       FilesAt, Exists, Target, Uploaded, Packed, Authentic, Planned
  <2> QED BY <1>2, <2>1, <2>2 DEF FileParts
<1> QED
  BY <1>3, <1>4 DEF SweepSteps, SweepBegin, SweepAbort, SweepDelete, Expire, vars

LEMMA FilesNext ==
  ASSUME Separate
  PROVE  TypeInv /\ FilesInv /\ [NoStaleRename]_vars /\ [Next]_vars => FilesInv'
<1> SUFFICES ASSUME TypeInv, FilesInv, [NoStaleRename]_vars, [Next]_vars PROVE FilesInv'
  OBVIOUS
<1>1. JobsInv'
  BY OrderedSeparate, JobsNext DEF FilesInv
<1>2. FileParts'
  BY OtherRequests, CompleteRequests, DeleteRequests, RenameRequests, Workmen, OtherFiles
     DEF Next, RequestSteps
<1> QED
  BY <1>1, <1>2 DEF FilesInv, FileParts

---------------------------------------------------------------------------
(* No content is lost.                                                     *)

\* The calls that write objects.
LEMMA Writers ==
  ASSUME [Next]_vars, bucket' # bucket
  PROVE  \/ \E r \in Requests : \/ CompleteS3(r)
                                \/ \E k \in Keys : DeleteRemove(r, k) \/ RenameCopy(r, k) \/ RenameRemove(r, k)
         \/ \E w \in Workers : PackPut(w)
<1> USE DEF stores, objects
<1>1. ASSUME NEW r \in Requests, RequestSteps(r)
      PROVE  \/ CompleteS3(r)
             \/ \E k \in Keys : DeleteRemove(r, k) \/ RenameCopy(r, k) \/ RenameRemove(r, k)
  <2>1. CASE InitSteps(r) \/ AbortSteps(r) \/ RecomputeSteps(r)
    BY <2>1 DEF InitSteps, InitBegin, InitCheck, InitStat, InitReserve, InitRefuse, InitMultipart,
       InitRelease, InitSave, AbortSteps, AbortBegin, AbortS3, AbortRelease, AbortDelete,
       RecomputeSteps, RecomputeList, RecomputeSet
  <2>2. CASE CompleteSteps(r)
    BY <2>2 DEF CompleteSteps, CompleteBegin, CompleteStat, CompleteS3Error, CompleteRestat,
       CompleteUsed, CompleteRelease, CompleteDelete
  <2>3. CASE DeleteSteps(r)
    BY <2>3 DEF DeleteSteps, DeleteBegin, DeleteList, DeleteError, DeleteUsed
  <2>4. CASE RenameSteps(r)
    BY <2>4 DEF RenameSteps, RenameBegin, RenameCheck, RenameCollide, RenameMark, RenameCopied,
       RenamePublish, RenameUnmark
  <2> QED BY <1>1, <2>1, <2>2, <2>3, <2>4 DEF RequestSteps
<1>2. ASSUME NEW w \in Workers, PackSteps(w) PROVE PackPut(w)
  BY <1>2 DEF PackSteps, Dequeue, PackCheck, PackDiskFull, PackMark, PackLoad, Pack, PackNothing,
     PackRequeue, PackStat, PackUsed, PackUnmark
<1>3. ~SweepSteps /\ (\A u \in UploadIds : ~Expire(u)) /\ ~Restart /\ ~UNCHANGED vars
  BY DEF SweepSteps, SweepBegin, SweepAbort, SweepDelete, Expire, Restart, vars
<1> QED
  BY <1>1, <1>2, <1>3 DEF Next

\* What each of them does to the bucket.
LEMMA OneObject ==
  ASSUME TypeInv, NEW k \in Keys, NEW x, SetObject(k, x)
  PROVE  bucket'[k] = x /\ \A j \in Keys \ {k} : bucket'[j] = bucket[j]
BY DEF TypeInv, TypeOK, StoresOK, SetObject

LEMMA CompleteS3Writes ==
  ASSUME TypeInv, NEW r \in Requests, CompleteS3(r)
  PROVE  /\ task[r].path \in Keys /\ task[r].up \in UploadIds /\ At(r, "completeS3")
         /\ Planned(task[r].up, plan)
         /\ bucket'[task[r].path] = Uploaded(task[r].up)
         /\ \A j \in Keys \ {task[r].path} : bucket'[j] = bucket[j]
<1>1. Fitted(task[r], plan) /\ task[r].pc = "completeS3"
  BY TaskTyped DEF CompleteS3, At, Procs
<1>2. task[r].path \in Keys /\ Planned(task[r].up, plan)
  BY <1>1 DEF Fitted, KeySteps, UploadSteps
<1> QED
  BY <1>2, OneObject DEF CompleteS3, Planned

LEMMA DeleteRemoveWrites ==
  ASSUME TypeInv, NEW r \in Requests, NEW k \in Keys, DeleteRemove(r, k)
  PROVE  /\ At(r, "deleteRemove") /\ k \in task[r].todo \ task'[r].todo
         /\ bucket'[k] \in {bucket[k], NoObject}
         /\ \A j \in Keys \ {k} : bucket'[j] = bucket[j]
<1> DEFINE t == [task[r] EXCEPT !.todo = @ \ {k}]
           e == [task[r] EXCEPT !.todo = @ \ {k}, !.failed = TRUE]
<1>1. t.todo = task[r].todo \ {k} /\ e.todo = task[r].todo \ {k} /\ r \in Procs
  BY TaskTyped DEF Procs, Task
<1>2. Become(r, t) \/ Become(r, e)
  BY DEF DeleteRemove
<1> HIDE DEF t, e
<1>3. task'[r].todo = task[r].todo \ {k}
  BY <1>1, <1>2, BecomeNext
<1> QED
  BY <1>3, OneObject DEF DeleteRemove, objects

LEMMA RenameCopyWrites ==
  ASSUME TypeInv, FilesInv, NEW r \in Requests, NEW k \in Keys, RenameCopy(r, k)
  PROVE  LET x == Target(task[r], k) IN
           /\ task[r].pc = "renameCopy" /\ Siblings(task[r].path, task[r].to)
           /\ k \in FilesAt(task[r].path) /\ x \in Keys \cap Tree(task[r].to) /\ ~Exists(x)
           /\ bucket'[x] \in {bucket[x], bucket[k]}
           /\ \A j \in Keys \ {x} : bucket'[j] = bucket[j]
<1> DEFINE x == Target(task[r], k)
<1>1. task[r].pc = "renameCopy" /\ k \in task[r].todo /\ r \in Procs /\ Sound(task[r])
  BY DEF RenameCopy, At, Procs, FilesInv, AllSound
<1>2. k \in FilesAt(task[r].path) /\ ~Exists(x) /\ Siblings(task[r].path, task[r].to)
  BY <1>1 DEF Sound, RenameSound, FilesInv, Paired, RenamingSteps
<1>3. x \in Keys /\ x \in Tree(task[r].to)
  BY <1>2, TargetPlaces DEF FilesAt, Tree
<1> HIDE DEF x
<1>4. SetObject(x, bucket[k]) \/ UNCHANGED bucket
  BY DEF RenameCopy, objects, x
<1>5. /\ bucket'[x] \in {bucket[x], bucket[k]}
      /\ \A j \in Keys \ {x} : bucket'[j] = bucket[j]
  BY <1>3, <1>4, OneObject
<1> QED
  BY <1>1, <1>2, <1>3, <1>5 DEF x

LEMMA RenameRemoveWrites ==
  ASSUME TypeInv, FilesInv, NEW r \in Requests, NEW k \in Keys, RenameRemove(r, k)
  PROVE  LET x == Target(task[r], k) IN
           /\ task[r].pc = "renameRemove" /\ Siblings(task[r].path, task[r].to)
           /\ k \in task[r].done /\ k \in FilesAt(task[r].path)
           /\ x \in Keys \cap Tree(task[r].to) /\ x # k
           /\ bucket[x] = bucket[k] /\ bucket'[k] \in {bucket[k], NoObject}
           /\ \A j \in Keys \ {k} : bucket'[j] = bucket[j]
<1>1. task[r].pc = "renameRemove" /\ k \in task[r].done /\ r \in Procs /\ Sound(task[r])
  BY DEF RenameRemove, At, Procs, FilesInv, AllSound
<1>2. /\ k \in FilesAt(task[r].path) /\ bucket[Target(task[r], k)] = bucket[k]
      /\ Siblings(task[r].path, task[r].to)
  BY <1>1 DEF Sound, RenameSound, FilesInv, Paired, RenamingSteps
<1>3. Target(task[r], k) \in Keys \cap Tree(task[r].to) /\ Target(task[r], k) # k
  BY <1>2, TargetPlaces DEF FilesAt, Tree
<1>4. bucket'[k] \in {bucket[k], NoObject} /\ \A j \in Keys \ {k} : bucket'[j] = bucket[j]
  BY OneObject DEF RenameRemove, objects
<1> QED
  BY <1>1, <1>2, <1>3, <1>4

LEMMA PackPutWrites ==
  ASSUME TypeInv, FilesInv, NEW w \in Workers, PackPut(w)
  PROVE  LET k == task[w].path
             x == Packed(task[w]) IN
           /\ task[w].pc = "packPut" /\ k \in Keys /\ Exists(k)
           /\ x.packed /\ x.content = bucket[k].content /\ x.size \in 0..bucket[k].size
           /\ bucket'[k] \in {bucket[k], x}
           /\ \A j \in Keys \ {k} : bucket'[j] = bucket[j]
<1> DEFINE k == task[w].path
           x == Packed(task[w])
<1>1. /\ task[w].pc = "packPut" /\ w \in Procs /\ Sound(task[w]) /\ task[w] \in Task
      /\ Fitted(task[w], plan)
  BY TaskTyped DEF PackPut, At, Procs, FilesInv, AllSound
<1>2. k \in Keys
  BY <1>1 DEF Fitted, KeySteps
<1>3. /\ Exists(k) /\ bucket[k].content = task[w].up /\ bucket[k] = task[w].obj
      /\ task[w].obj.size = task[w].n /\ task[w].old <= task[w].n
  BY <1>1 DEF Sound, PackSound, Packing, PackNames
<1>4. x.packed /\ x.content = bucket[k].content /\ x.size \in 0..bucket[k].size
  BY <1>1, <1>3 DEF Packed, Task
<1>5. bucket'[k] \in {bucket[k], x} /\ \A j \in Keys \ {k} : bucket'[j] = bucket[j]
  BY <1>2, OneObject DEF PackPut, objects
<1> QED
  BY <1>1, <1>2, <1>3, <1>4, <1>5

\* While clients send no requests on related paths at once but for those that
\* arrive under a job, and no upload completes under a job, the content of a
\* file leaves the bucket only by a delete of the file or an upload to its
\* path: whichever calls of a rename fail or lose their replies, and whenever
\* the process is restarted in the middle of one.
THEOREM ContentIsKept == Separate => (Spec /\ [][NoStaleRename]_vars => ContentKept)
<1> SUFFICES ASSUME Separate PROVE Spec /\ [][NoStaleRename]_vars => ContentKept
  OBVIOUS
<1> DEFINE Kept(k) == \/ bucket[k].content \in {bucket'[j].content : j \in Keys}
                      \/ \E r \in Requests : Deletes(r, k) \/ Replaces(r, k)
<1>1. ASSUME TypeInv, FilesInv, [Next]_vars, NEW k \in Keys, Exists(k) PROVE Kept(k)
  <2>1. CASE bucket'[k].content = bucket[k].content
    BY <2>1
  <2>2. CASE bucket'[k].content # bucket[k].content
    <3>1. bucket' # bucket
      BY <2>2
    <3>2. ASSUME NEW r \in Requests, CompleteS3(r) PROVE Kept(k)
      <4>1. task[r].path = k
        BY <1>1, <2>2, <3>2, CompleteS3Writes
      <4>2. Replaces(r, k)
        <5>1. Uploaded(task[r].up).content = task[r].up
          BY DEF Uploaded
        <5> QED
          BY <1>1, <3>2, <4>1, <5>1, CompleteS3Writes DEF Replaces
      <4> QED BY <4>2
    <3>3. ASSUME NEW r \in Requests, NEW j \in Keys, DeleteRemove(r, j) PROVE Kept(k)
      <4>1. j = k
        BY <1>1, <2>2, <3>3, DeleteRemoveWrites
      <4>2. Deletes(r, k)
        BY <1>1, <3>3, <4>1, DeleteRemoveWrites DEF Deletes
      <4> QED BY <4>2
    <3>4. ASSUME NEW r \in Requests, NEW j \in Keys, RenameCopy(r, j) PROVE Kept(k)
      BY <1>1, <2>2, <3>4, RenameCopyWrites
    <3>5. ASSUME NEW r \in Requests, NEW j \in Keys, RenameRemove(r, j) PROVE Kept(k)
      <4>1. j = k
        BY <1>1, <2>2, <3>5, RenameRemoveWrites
      <4>2. Target(task[r], k) \in Keys /\ bucket'[Target(task[r], k)] = bucket[k]
        BY <1>1, <3>5, <4>1, RenameRemoveWrites
      <4> QED BY <4>2
    <3>6. ASSUME NEW w \in Workers, PackPut(w) PROVE Kept(k)
      BY <1>1, <2>2, <3>6, PackPutWrites
    <3> QED BY <1>1, <3>1, <3>2, <3>3, <3>4, <3>5, <3>6, Writers
  <2> QED BY <2>1, <2>2
<1>2. TypeInv /\ FilesInv /\ [Next]_vars => [\A k \in Keys : Exists(k) => Kept(k)]_vars
  BY <1>1
<1> QED
  BY <1>2, FilesInit, FilesNext, InitType, NextType, PTL DEF Spec, ContentKept

\* In the same conditions the recompression of a file only ever replaces the
\* content it has at that moment, by a smaller object: the worker found that
\* the object was the one enqueued, and nobody wrote it since.
THEOREM PackingKeepsContent == Separate => (Spec /\ [][NoStaleRename]_vars => PackKeepsContent)
<1> SUFFICES ASSUME Separate PROVE Spec /\ [][NoStaleRename]_vars => PackKeepsContent
  OBVIOUS
<1> DEFINE Kept(k) == bucket'[k].content = bucket[k].content /\ bucket'[k].size <= bucket[k].size
           Packs(k) == bucket'[k].packed /\ ~bucket[k].packed /\ bucket'[k] \notin {bucket[j] : j \in Keys}
<1>1. ASSUME TypeInv, FilesInv, [Next]_vars, NEW k \in Keys, Packs(k) PROVE Kept(k)
  <2>1. bucket' # bucket /\ bucket'[k] # bucket[k] /\ bucket'[k] # NoObject
    BY <1>1 DEF NoObject
  <2>2. ASSUME NEW r \in Requests, CompleteS3(r) PROVE FALSE
    <3>1. ~Uploaded(task[r].up).packed
      BY DEF Uploaded
    <3>2. bucket'[task[r].path] = Uploaded(task[r].up) /\ \A j \in Keys \ {task[r].path} : bucket'[j] = bucket[j]
      BY <1>1, <2>2, CompleteS3Writes
    <3> QED
      BY <1>1, <2>1, <3>1, <3>2
  <2>3. ASSUME NEW r \in Requests, NEW j \in Keys, DeleteRemove(r, j) PROVE FALSE
    BY <1>1, <2>1, <2>3, DeleteRemoveWrites
  <2>4. ASSUME NEW r \in Requests, NEW j \in Keys, RenameCopy(r, j) PROVE FALSE
    BY <1>1, <2>1, <2>4, RenameCopyWrites
  <2>5. ASSUME NEW r \in Requests, NEW j \in Keys, RenameRemove(r, j) PROVE FALSE
    BY <1>1, <2>1, <2>5, RenameRemoveWrites
  <2>6. ASSUME NEW w \in Workers, PackPut(w) PROVE Kept(k)
    <3>1. bucket[k].size \in Nat
      BY <1>1, ObjectTyped
    <3> QED
      BY <1>1, <2>1, <2>6, <3>1, PackPutWrites
  <2> QED BY <1>1, <2>1, <2>2, <2>3, <2>4, <2>5, <2>6, Writers
<1>2. TypeInv /\ FilesInv /\ [Next]_vars => [\A k \in Keys : Packs(k) => Kept(k)]_vars
  BY <1>1
<1> QED
  BY <1>2, FilesInit, FilesNext, InitType, NextType, PTL DEF Spec, PackKeepsContent

---------------------------------------------------------------------------
(* The files that a user finds.  A copy whose original is still there is   *)
(* not yet a file of its own: it becomes one in the step that removes the  *)
(* original, which is when a rename happens.  That needs every copy to     *)
(* succeed: a job that gives up leaves its copies.                         *)

Calm == Separate /\ ~Allows("fault") /\ ~Allows("lostReply") /\ ~Allows("restart")

\* As long as no call fails, no task has seen one fail.
Hopeful  == RenamingSteps \cup {"deleteList", "deleteRemove"}
Unfailed == \A p \in Procs : task[p].pc \in Hopeful => ~task[p].failed

FilesNow == [k \in Keys |-> IF k \in Copies THEN NoObject ELSE bucket[k]]
SpentNow == {u \in UploadIds : plan[u] # NoPlan /\ u \notin multipart}

CopiesOf(t) == IF t.pc \in {"renameCopy", "renameRemove"} THEN {Target(t, k) : k \in t.done} ELSE {}

LEMMA UnfailedStep ==
  ASSUME TypeInv, Unfailed, NEW p \in Procs, NEW t, Become(p, t), t.pc \in Hopeful => ~t.failed
  PROVE  Unfailed'
<1>1. task'[p] = t /\ \A q \in Procs \ {p} : task'[q] = task[q]
  BY BecomeNext, OthersKept
<1> QED
  BY <1>1 DEF Unfailed

LEMMA UnfailedGoto ==
  ASSUME TypeInv, Unfailed, NEW p \in Procs, NEW pc, Goto(p, pc), task[p].pc \in Hopeful
  PROVE  Unfailed'
<1> DEFINE t == [task[p] EXCEPT !.pc = pc]
<1>1. Become(p, t) /\ t.failed = task[p].failed
  BY TaskTyped DEF Goto, Task
<1> HIDE DEF t
<1> QED
  BY <1>1, UnfailedStep DEF Unfailed

LEMMA UnfailedElsewhere ==
  ASSUME TypeInv, Unfailed, NEW p \in Procs, \E t : Become(p, t), task'[p].pc \notin Hopeful
  PROVE  Unfailed'
<1>1. PICK t : Become(p, t)
  OBVIOUS
<1> QED
  BY <1>1, BecomeNext, UnfailedStep

LEMMA DeletesUnfailed ==
  ASSUME TypeInv, Unfailed, Calm, NEW r \in Requests, DeleteSteps(r)
  PROVE  Unfailed'
<1>0. r \in Procs /\ task[r] \in Task /\ {"deleteList", "deleteRemove"} \subseteq Hopeful
      /\ ~Idle.failed /\ Idle.pc \notin Hopeful
  BY TaskTyped DEF Procs, Hopeful, Idle, RenamingSteps
<1>1. ASSUME NEW path \in Paths, DeleteBegin(r, path) PROVE Unfailed'
  <2> DEFINE t == [Idle EXCEPT !.pc = "deleteList", !.path = path]
  <2>1. Become(r, t) /\ ~t.failed
    BY <1>1 DEF DeleteBegin, Idle
  <2> HIDE DEF t
  <2> QED BY <1>0, <2>1, UnfailedStep
<1>2. CASE DeleteList(r)
  <2> DEFINE found == FilesAt(task[r].path)
             t == [task[r] EXCEPT !.pc = "deleteRemove", !.todo = found, !.n = BytesIn(found)]
  <2>1. ~t.failed
    BY <1>0, <1>2 DEF DeleteList, At, Unfailed, Task
  <2>2. Become(r, t) \/ Finish(r)
    BY <1>2 DEF DeleteList
  <2> HIDE DEF t
  <2> QED BY <1>0, <2>1, <2>2, UnfailedStep DEF Finish
<1>3. ASSUME NEW k \in Keys, DeleteRemove(r, k) PROVE Unfailed'
  <2> DEFINE t == [task[r] EXCEPT !.todo = @ \ {k}]
  <2>1. ~t.failed
    BY <1>0, <1>3 DEF DeleteRemove, At, Unfailed, Task
  <2>2. Become(r, t)
    BY <1>3 DEF DeleteRemove, Calm
  <2> HIDE DEF t
  <2> QED BY <1>0, <2>1, <2>2, UnfailedStep
<1>4. CASE DeleteError(r) \/ DeleteUsed(r)
  BY <1>0, <1>4, UnfailedStep DEF DeleteError, DeleteUsed, Finish
<1> QED
  BY <1>1, <1>2, <1>3, <1>4 DEF DeleteSteps

LEMMA RenamesUnfailed ==
  ASSUME TypeInv, FilesInv, Unfailed, Calm, NEW r \in Requests, RenameSteps(r)
  PROVE  Unfailed'
<1>0. r \in Procs /\ task[r] \in Task /\ RenamingSteps \subseteq Hopeful
      /\ ~Idle.failed /\ Idle.pc \notin Hopeful
  BY TaskTyped DEF Procs, Hopeful, Idle, RenamingSteps
<1>1. ASSUME NEW path \in Paths, NEW to \in Paths, RenameBegin(r, path, to) PROVE Unfailed'
  <2> DEFINE t == [Idle EXCEPT !.pc = "renameCheck", !.path = path, !.to = to, !.todo = FilesAt(path)]
  <2>1. Become(r, t) /\ ~t.failed
    BY <1>1 DEF RenameBegin, Idle
  <2> HIDE DEF t
  <2> QED BY <1>0, <2>1, UnfailedStep
<1>2. CASE Finish(r)
  BY <1>0, <1>2, UnfailedStep DEF Finish
<1>3. CASE /\ RenameCheck(r) \/ RenameCollide(r) \/ RenameMark(r) \/ RenameCopied(r) \/ RenamePublish(r)
           /\ ~Finish(r)
  <2>1. task[r].pc \in RenamingSteps /\ \E pc : Goto(r, pc)
    BY <1>3 DEF RenameCheck, RenameCollide, RenameMark, RenameCopied, RenamePublish, At, RenamingSteps
  <2> QED BY <1>0, <2>1, UnfailedGoto
<1>4. ASSUME NEW k \in Keys, RenameCopy(r, k) PROVE Unfailed'
  <2> DEFINE t == [task[r] EXCEPT !.todo = @ \ {k}, !.done = @ \cup {k}]
  <2>1. ~t.failed
    BY <1>0, <1>4 DEF RenameCopy, At, Unfailed, Task, RenamingSteps
  <2>2. Exists(k)
    BY <1>4, RenameCopyWrites DEF FilesAt
  <2>3. Become(r, t)
    BY <1>4, <2>2 DEF RenameCopy, Calm
  <2> HIDE DEF t
  <2> QED BY <1>0, <2>1, <2>3, UnfailedStep
<1>5. ASSUME NEW k \in Keys, RenameRemove(r, k) PROVE Unfailed'
  <2> DEFINE t == [task[r] EXCEPT !.done = @ \ {k}]
  <2>1. ~t.failed
    BY <1>0, <1>5 DEF RenameRemove, At, Unfailed, Task, RenamingSteps
  <2>2. Become(r, t)
    BY <1>5 DEF RenameRemove
  <2> HIDE DEF t
  <2> QED BY <1>0, <2>1, <2>2, UnfailedStep
<1> QED
  BY <1>1, <1>2, <1>3, <1>4, <1>5 DEF RenameSteps, RenameUnmark

LEMMA UnfailedNext ==
  ASSUME TypeInv, FilesInv, Unfailed, Calm, [Next]_vars
  PROVE  Unfailed'
<1>1. ASSUME NEW r \in Requests, RequestSteps(r) PROVE Unfailed'
  <2> DEFINE names == InitNames \cup CompleteNames \cup AbortNames \cup RecomputeNames
  <2>1. CASE InitSteps(r) \/ CompleteSteps(r) \/ AbortSteps(r) \/ RecomputeSteps(r)
    <3>1. Moved(r, names) /\ r \in Procs
      BY <2>1, InitMoves, CompleteMoves, AbortMoves, RecomputeMoves DEF Moved, Procs
    <3>2. names \cap Hopeful = {}
      BY DEF InitNames, CompleteNames, AbortNames, RecomputeNames, Hopeful, RenamingSteps
    <3> HIDE DEF names
    <3> QED BY <3>1, <3>2, UnfailedElsewhere DEF Moved
  <2> QED
    BY <1>1, <2>1, DeletesUnfailed, RenamesUnfailed DEF RequestSteps
<1>2. ASSUME NEW w \in Workers, PackSteps(w) PROVE Unfailed'
  <2>1. Moved(w, PackNames) /\ w \in Procs /\ PackNames \cap Hopeful = {}
    BY <1>2, PackMoves DEF Procs, PackNames, Hopeful, RenamingSteps
  <2> QED
    BY <2>1, UnfailedElsewhere DEF Moved
<1>3. CASE UNCHANGED task
  BY <1>3 DEF Unfailed
<1> QED
  BY <1>1, <1>2, <1>3 DEF Next, SweepSteps, SweepBegin, SweepAbort, SweepDelete, Expire, Restart, vars, Calm

---------------------------------------------------------------------------
(* Copies.                                                                 *)

LEMMA CopiesAre == \A k : k \in Copies <=> \E r \in Requests : k \in CopiesOf(task[r])
BY DEF Copies, CopiesOf

LEMMA CopiesPlaces ==
  ASSUME TypeInv, FilesInv, NEW p \in Procs, NEW k \in CopiesOf(task[p])
  PROVE  /\ task[p].pc \in RenameJobs /\ ~Emptied(task[p]) /\ k \in Keys
         /\ k \in Tree(task[p].to) /\ k \in Zone(task[p])
<1>1. task[p].pc \in {"renameCopy", "renameRemove"} /\ \E j \in task[p].done : k = Target(task[p], j)
  BY DEF CopiesOf
<1>2. /\ task[p].done \subseteq FilesAt(task[p].path) /\ Siblings(task[p].path, task[p].to)
  BY <1>1 DEF FilesInv, AllSound, Sound, RenameSound, Paired, RenamingSteps
<1>3. k \in Tree(task[p].to) /\ k \in Keys
  BY <1>1, <1>2, TargetPlaces DEF FilesAt, Tree
<1>4. ~Emptied(task[p]) /\ task[p].pc \in RenameJobs
  BY <1>1 DEF Emptied, RenameJobs
<1> QED
  BY <1>1, <1>3, <1>4 DEF Zone

\* What one task writes is no copy that another made.
LEMMA WritesNoCopy ==
  ASSUME TypeInv, FilesInv, NEW p \in Procs, NEW k \in Keys, Writing(task[p], k), NEW q \in Procs \ {p}
  PROVE  k \notin CopiesOf(task[q])
BY CopiesPlaces, WritesElsewhere, WorkNames DEF FilesInv

LEMMA CopiesApart ==
  ASSUME TypeInv, FilesInv, NEW p \in Procs, NEW q \in Procs \ {p}, NEW k \in CopiesOf(task[p])
  PROVE  k \notin CopiesOf(task[q])
<1> SUFFICES ASSUME k \in CopiesOf(task[q]) PROVE FALSE
  OBVIOUS
<1>1. /\ task[p].pc \in RenameJobs /\ ~Emptied(task[p]) /\ k \in Tree(task[p].to)
      /\ task[q].pc \in RenameJobs /\ ~Emptied(task[q]) /\ k \in Tree(task[q].to)
  BY CopiesPlaces
<1>2. ~Late(task[p], task[q]) /\ ~Late(task[q], task[p])
  BY <1>1 DEF Late, RenameJobs
<1>3. Clear(task[p], task[q])
  BY <1>1, <1>2, WorkNames DEF FilesInv, Exclusive, Separated
<1>4. task[p].to \in Places /\ task[q].to \in Places
  BY TaskTyped DEF Task, Places
<1> QED
  BY <1>1, <1>3, <1>4, TreesApart DEF Clear

\* What a task leaves behind of its copies.
LEMMA CopiesStep ==
  ASSUME TypeInv, NEW p \in Procs, \E t : Become(p, t)
  PROVE  /\ \A q \in Procs \ {p} : CopiesOf(task[q])' = CopiesOf(task[q])
         /\ CopiesOf(task[p])' = CopiesOf(task[p]) \/ p \notin Requests => Copies' = Copies
<1>1. \A q \in Procs \ {p} : CopiesOf(task[q])' = CopiesOf(task[q])
  BY OthersKept DEF CopiesOf, Target
<1>2. \A k : k \in Copies' <=> \E r \in Requests : k \in CopiesOf(task[r])'
  BY DEF Copies, CopiesOf, Target
<1>3. ASSUME CopiesOf(task[p])' = CopiesOf(task[p]) \/ p \notin Requests PROVE Copies' = Copies
  <2>1. \A r \in Requests : CopiesOf(task[r])' = CopiesOf(task[r])
    BY <1>1, <1>3 DEF Procs
  <2> QED
    BY <1>2, <2>1, CopiesAre DEF Copies
<1> QED
  BY <1>1, <1>3

\* Requests other than renames copy nothing.
LEMMA NoCopies ==
  ASSUME TypeInv, NEW r \in Requests,
         InitSteps(r) \/ CompleteSteps(r) \/ AbortSteps(r) \/ DeleteSteps(r) \/ RecomputeSteps(r)
  PROVE  Copies' = Copies
<1> DEFINE names == InitNames \cup CompleteNames \cup AbortNames \cup DeleteNames \cup RecomputeNames
<1>1. Moved(r, names) /\ r \in Procs
  BY InitMoves, CompleteMoves, AbortMoves, DeleteMoves, RecomputeMoves DEF Moved, Procs
<1>2. task[r].pc \in names
  <2>1. CASE InitSteps(r)
    BY <2>1 DEF InitSteps, InitBegin, InitCheck, InitStat, InitReserve, InitRefuse, InitMultipart,
       InitRelease, InitSave, At, InitNames
  <2>2. CASE CompleteSteps(r)
    BY <2>2 DEF CompleteSteps, CompleteBegin, CompleteStat, CompleteS3, CompleteS3Error,
       CompleteRestat, CompleteUsed, CompleteRelease, CompleteDelete, At, CompleteNames
  <2>3. CASE AbortSteps(r) \/ RecomputeSteps(r)
    BY <2>3 DEF AbortSteps, AbortBegin, AbortS3, AbortRelease, AbortDelete, RecomputeSteps,
       RecomputeList, RecomputeSet, At, AbortNames, RecomputeNames
  <2>4. CASE DeleteSteps(r)
    BY <2>4 DEF DeleteSteps, DeleteBegin, DeleteList, DeleteRemove, DeleteError, DeleteUsed, At,
       DeleteNames
  <2> QED BY <2>1, <2>2, <2>3, <2>4
<1>3. names \cap {"renameCopy", "renameRemove"} = {}
  BY DEF InitNames, CompleteNames, AbortNames, DeleteNames, RecomputeNames
<1> HIDE DEF names
<1>4. CopiesOf(task[r])' = {} /\ CopiesOf(task[r]) = {}
  BY <1>1, <1>2, <1>3 DEF CopiesOf, Moved
<1> QED
  BY <1>1, <1>4, CopiesStep DEF Moved

---------------------------------------------------------------------------
(* Steps of FileStore.                                                     *)

LEMMA StoreStutters ==
  ASSUME FilesNow' = FilesNow, SpentNow' = SpentNow
  PROVE  UNCHANGED Files!vars
BY DEF FilesNow, SpentNow, Files!vars, NoObject

LEMMA StorePuts ==
  ASSUME NEW k \in Keys, NEW u \in UploadIds \ SpentNow, NEW n \in Nat,
         SpentNow' = SpentNow \cup {u},
         FilesNow' = [FilesNow EXCEPT ![k] = [size |-> n, content |-> u, packed |-> FALSE]]
  PROVE  Files!Next
<1>1. FilesNow'[k] = [size |-> n, content |-> u, packed |-> FALSE]
  BY DEF FilesNow
<1>2. FilesNow'[k].size = n
  BY <1>1
<1>3. FilesNow' = [FilesNow EXCEPT ![k] = [size |-> FilesNow'[k].size, content |-> u, packed |-> FALSE]]
  BY <1>2, Zenon
<1>4. Files!Put(k, u)
  <2>1. u \notin SpentNow /\ SpentNow' = SpentNow \cup {u} /\ FilesNow'[k].size \in Nat
    BY <1>2
  <2> QED
    BY <1>3, <2>1 DEF FilesNow, SpentNow, Files!Put, NoObject
<1> QED
  BY <1>4 DEF Files!Next

LEMMA StoreDiscards ==
  ASSUME NEW u \in UploadIds, SpentNow' = SpentNow \cup {u}, FilesNow' = FilesNow
  PROVE  Files!Next
<1>1. Files!Discard(u)
  BY DEF FilesNow, SpentNow, Files!Discard, NoObject
<1> QED
  BY <1>1 DEF Files!Next

LEMMA StoreRemoves ==
  ASSUME NEW k \in Keys, SpentNow' = SpentNow, FilesNow' = [FilesNow EXCEPT ![k] = NoObject]
  PROVE  Files!Next
<1>1. Files!Remove(k)
  BY DEF FilesNow, SpentNow, Files!Remove, Files!NoObject, NoObject
<1> QED
  BY <1>1 DEF Files!Next

LEMMA StoreMoves ==
  ASSUME NEW k \in Keys, NEW to \in Keys, SpentNow' = SpentNow, FilesNow[to] = NoObject,
         FilesNow' = [FilesNow EXCEPT ![k] = NoObject, ![to] = FilesNow[k]]
  PROVE  Files!Next
<1>1. Files!Move(k, to)
  BY DEF FilesNow, SpentNow, Files!Move, Files!NoObject, NoObject
<1> QED
  BY <1>1 DEF Files!Next

LEMMA TwoFields ==
  ASSUME NEW f, f = [j \in Keys |-> f[j]], NEW k \in Keys, f[k] \in Object, NEW n \in Nat
  PROVE  [f EXCEPT ![k].size = n, ![k].packed = TRUE]
           = [f EXCEPT ![k] = [size |-> n, content |-> f[k].content, packed |-> TRUE]]
<1> DEFINE y == [size |-> n, content |-> f[k].content, packed |-> TRUE]
           g == [f EXCEPT ![k] = [f[k] EXCEPT !.size = n]]
<1>1. k \in DOMAIN f
  BY Zenon
<1>2. [g[k] EXCEPT !.packed = TRUE] = y
  <2>1. ASSUME NEW x \in Object
        PROVE  [[x EXCEPT !.size = n] EXCEPT !.packed = TRUE]
                 = [size |-> n, content |-> x.content, packed |-> TRUE]
    <3> DEFINE z == [x EXCEPT !.size = n]
    <3>1. z \in Object /\ z.size = n /\ z.content = x.content
      BY DEF Object
    <3> HIDE DEF z
    <3>2. /\ [z EXCEPT !.packed = TRUE] \in Object /\ [z EXCEPT !.packed = TRUE].packed = TRUE
          /\ [z EXCEPT !.packed = TRUE].size = z.size /\ [z EXCEPT !.packed = TRUE].content = z.content
      BY <3>1 DEF Object
    <3>3. \A a \in Object : a = [size |-> a.size, content |-> a.content, packed |-> a.packed]
      BY DEF Object
    <3> QED BY <3>1, <3>2, <3>3 DEF z
  <2>2. g[k] = [f[k] EXCEPT !.size = n]
    BY <1>1, Zenon
  <2> QED BY <2>1, <2>2
<1>3. [g EXCEPT ![k] = y] = [f EXCEPT ![k] = y]
  <2> HIDE DEF y
  <2> QED OBVIOUS
<1> QED
  BY <1>2, <1>3

LEMMA StorePacks ==
  ASSUME NEW k \in Keys, SpentNow' = SpentNow, FilesNow[k] # NoObject, FilesNow[k] \in Object,
         NEW n \in 0..FilesNow[k].size,
         FilesNow' = [FilesNow EXCEPT ![k] = [size |-> n, content |-> FilesNow[k].content, packed |-> TRUE]]
  PROVE  Files!Next
<1>1. FilesNow'[k] = [size |-> n, content |-> FilesNow[k].content, packed |-> TRUE]
  BY DEF FilesNow
<1>2. [FilesNow EXCEPT ![k].size = FilesNow'[k].size, ![k].packed = TRUE] = FilesNow'
  <2>1. FilesNow = [j \in Keys |-> FilesNow[j]]
    BY DEF FilesNow
  <2> QED
    <3>1. n \in Nat
      BY DEF Object
    <3>2. FilesNow'[k].size = n
      BY <1>1
    <3> QED BY <2>1, <3>1, <3>2, TwoFields
<1>3. Files!Pack(k)
  BY <1>1, <1>2 DEF FilesNow, SpentNow, Files!Pack, Files!NoObject, NoObject
<1> QED
  BY <1>3 DEF Files!Next

---------------------------------------------------------------------------
(* Every step is a step of FileStore, or none.                             *)

FileStep == Files!Next \/ UNCHANGED Files!vars

LEMMA QuietFiles ==
  ASSUME Copies' = Copies, UNCHANGED bucket
  PROVE  FilesNow' = FilesNow
BY DEF FilesNow

LEMMA QuietSpent ==
  ASSUME UNCHANGED <<plan, multipart>>
  PROVE  SpentNow' = SpentNow
BY DEF SpentNow

\* An upload that is given up, unless it was before.
LEMMA Discarding ==
  ASSUME NEW u \in UploadIds, UNCHANGED plan, multipart' \in {multipart, multipart \ {u}}, FilesNow' = FilesNow
  PROVE  FileStep
<1>1. SpentNow' \in {SpentNow, SpentNow \cup {u}}
  <2>1. CASE multipart' = multipart
    BY <2>1, QuietSpent
  <2>2. CASE multipart' = multipart \ {u} /\ plan[u] = NoPlan
    BY <2>2 DEF SpentNow
  <2>3. CASE multipart' = multipart \ {u} /\ plan[u] # NoPlan
    <3>1. \A v : v \in SpentNow' <=> v \in SpentNow \/ v = u
      BY <2>3 DEF SpentNow
    <3> QED BY <3>1
  <2> QED BY <2>1, <2>2, <2>3
<1> QED
  BY <1>1, StoreStutters, StoreDiscards DEF FileStep

LEMMA InitsRefine ==
  ASSUME TypeInv, NEW r \in Requests, InitSteps(r) \/ RecomputeSteps(r)
  PROVE  FileStep
<1>1. UNCHANGED bucket
  BY DEF InitSteps, InitBegin, InitCheck, InitStat, InitReserve, InitRefuse, InitMultipart,
     InitRelease, InitSave, RecomputeSteps, RecomputeList, RecomputeSet, stores, objects
<1>2. FilesNow' = FilesNow
  BY <1>1, NoCopies, QuietFiles
<1>3. ASSUME NEW u \in UploadIds, InitMultipart(r, u) PROVE SpentNow' = SpentNow
  <2>1. /\ plan[u] = NoPlan /\ multipart' = multipart \cup {u}
        /\ \A v \in UploadIds \ {u} : plan'[v] = plan[v]
    BY <1>3 DEF InitMultipart, TypeInv, TypeOK, StoresOK
  <2> QED
    BY <2>1 DEF SpentNow
<1>4. CASE \A u \in UploadIds : ~InitMultipart(r, u)
  <2>1. UNCHANGED <<plan, multipart>>
    BY <1>4 DEF InitSteps, InitBegin, InitCheck, InitStat, InitReserve, InitRefuse, InitRelease,
       InitSave, RecomputeSteps, RecomputeList, RecomputeSet, stores, uploads
  <2> QED
    BY <1>2, <2>1, QuietSpent, StoreStutters DEF FileStep
<1> QED
  BY <1>2, <1>3, <1>4, StoreStutters DEF FileStep

LEMMA CompletesRefine ==
  ASSUME TypeInv, FilesInv, NEW r \in Requests, CompleteSteps(r)
  PROVE  FileStep
<1>1. Copies' = Copies
  BY NoCopies
<1>2. CASE CompleteS3(r)
  <2> DEFINE k == task[r].path
             u == task[r].up
             x == [size |-> plan[u].size, content |-> u, packed |-> FALSE]
  <2>1. /\ k \in Keys /\ u \in UploadIds /\ task[r].pc = "completeS3" /\ Planned(u, plan)
        /\ bucket'[k] = x /\ \A j \in Keys \ {k} : bucket'[j] = bucket[j]
    BY <1>2, CompleteS3Writes DEF At, Uploaded
  <2>2. u \in multipart /\ multipart' = multipart \ {u} /\ UNCHANGED plan
    BY <1>2 DEF CompleteS3
  <2>3. plan[u].size \in Nat /\ plan[u] # NoPlan
    <3>1. NoPlan.key \notin Keys
      BY PlacesApart DEF NoPlan
    <3> QED BY <2>1, <3>1 DEF TypeInv, TypeOK, StoresOK, Plan, Planned
  <2>4. u \notin SpentNow /\ SpentNow' = SpentNow \cup {u}
    <3>1. \A v : v \in SpentNow' <=> v \in SpentNow \/ v = u
      BY <2>1, <2>2, <2>3 DEF SpentNow
    <3> QED BY <2>2, <3>1 DEF SpentNow
  <2>5. k \notin Copies
    <3>1. CopiesOf(task[r]) = {} /\ Writing(task[r], k) /\ r \in Procs
      BY <2>1 DEF CopiesOf, Writing, Procs
    <3>2. \A q \in Requests \ {r} : k \notin CopiesOf(task[q])
      BY <2>1, <3>1, WritesNoCopy DEF Procs
    <3> QED BY <3>1, <3>2, CopiesAre
  <2> HIDE DEF k, u
  <2>6. FilesNow' = [FilesNow EXCEPT ![k] = x]
    BY <1>1, <2>1, <2>5 DEF FilesNow
  <2> QED
    BY <2>1, <2>3, <2>4, <2>6, StorePuts DEF FileStep
<1>3. CASE ~CompleteS3(r)
  <2>1. UNCHANGED <<bucket, plan, multipart>>
    BY <1>3 DEF CompleteSteps, CompleteBegin, CompleteStat, CompleteS3Error, CompleteRestat,
       CompleteUsed, CompleteRelease, CompleteDelete, stores, objects, uploads
  <2> QED
    BY <1>1, <2>1, QuietFiles, QuietSpent, StoreStutters DEF FileStep
<1> QED
  BY <1>2, <1>3

LEMMA AbortsRefine ==
  ASSUME TypeInv, NEW r \in Requests, AbortSteps(r)
  PROVE  FileStep
<1>1. UNCHANGED <<bucket, plan>>
  BY DEF AbortSteps, AbortBegin, AbortS3, AbortRelease, AbortDelete, stores, objects, uploads
<1>2. FilesNow' = FilesNow
  BY <1>1, NoCopies, QuietFiles
<1>3. CASE AbortS3(r)
  <2>1. task[r].up \in UploadIds
    BY <1>3, TaskTyped DEF AbortS3, At, Fitted, UploadSteps, Planned, Procs
  <2> QED
    BY <1>1, <1>2, <1>3, <2>1, Discarding DEF AbortS3
<1>4. CASE ~AbortS3(r)
  <2>1. UNCHANGED multipart
    BY <1>4 DEF AbortSteps, AbortBegin, AbortRelease, AbortDelete, stores, uploads
  <2> QED
    BY <1>1, <1>2, <2>1, QuietSpent, StoreStutters DEF FileStep
<1> QED
  BY <1>3, <1>4

LEMMA DeletesRefine ==
  ASSUME TypeInv, Calm, NEW r \in Requests, DeleteSteps(r)
  PROVE  FileStep
<1>1. Copies' = Copies
  BY NoCopies
<1>2. SpentNow' = SpentNow
  <2>1. UNCHANGED <<plan, multipart>>
    BY DEF DeleteSteps, DeleteBegin, DeleteList, DeleteRemove, DeleteError, DeleteUsed, stores, uploads
  <2> QED BY <2>1, QuietSpent
<1>3. ASSUME NEW k \in Keys, DeleteRemove(r, k) PROVE FileStep
  <2>1. SetObject(k, NoObject)
    BY <1>3 DEF DeleteRemove, Calm
  <2>2. bucket'[k] = NoObject /\ \A j \in Keys \ {k} : bucket'[j] = bucket[j]
    BY <2>1, OneObject
  <2>3. FilesNow' = [FilesNow EXCEPT ![k] = NoObject]
    <3> DEFINE x == NoObject
    <3>1. FilesNow' = [j \in Keys |-> IF j \in Copies THEN x ELSE bucket'[j]]
      BY <1>1 DEF FilesNow, NoObject
    <3> HIDE DEF x
    <3>2. FilesNow = [j \in Keys |-> IF j \in Copies THEN x ELSE bucket[j]]
      BY DEF FilesNow, x
    <3>3. FilesNow' = [FilesNow EXCEPT ![k] = x]
      BY <2>2, <3>1, <3>2 DEF x
    <3> QED BY <3>3 DEF x
  <2> QED
    BY <1>2, <2>3, StoreRemoves DEF FileStep
<1>4. CASE \A k \in Keys : ~DeleteRemove(r, k)
  <2>1. UNCHANGED bucket
    BY <1>4 DEF DeleteSteps, DeleteBegin, DeleteList, DeleteError, DeleteUsed, stores, objects
  <2> QED
    BY <1>1, <1>2, <2>1, QuietFiles, StoreStutters DEF FileStep
<1> QED
  BY <1>3, <1>4

\* The other steps of a rename move nothing.
LEMMA RenamesWait ==
  ASSUME TypeInv, FilesInv, Unfailed, NEW r \in Requests, RenameSteps(r),
         \A k \in Keys : ~RenameCopy(r, k) /\ ~RenameRemove(r, k)
  PROVE  UNCHANGED bucket /\ Copies' = Copies
<1>0. r \in Procs /\ task[r] \in Task
  BY TaskTyped DEF Procs
<1>1. UNCHANGED bucket
  BY DEF RenameSteps, RenameBegin, RenameCheck, RenameCollide, RenameMark, RenameCopied,
     RenamePublish, RenameUnmark, stores, objects
<1> DEFINE resting == {"idle", "renameCheck", "renameCollide", "renameMark", "renamePublish", "renameUnmark"}
<1>2. ASSUME NEW t, Become(r, t), CopiesOf(t) = CopiesOf(task[r]) PROVE Copies' = Copies
  <2>1. task'[r] = t
    BY <1>0, <1>2, BecomeNext
  <2>2. CopiesOf(task[r])' = CopiesOf(task[r])
    BY <1>2, <2>1 DEF CopiesOf, Target
  <2> QED BY <1>0, <1>2, <2>2, CopiesStep
<1>3. \A t : t.pc \in resting \/ t.done = {} => CopiesOf(t) = {}
  BY DEF CopiesOf
<1>4. ASSUME Finish(r), task[r].pc \in resting PROVE Copies' = Copies
  <2>1. Idle.pc \in resting
    BY DEF Idle
  <2> HIDE DEF resting
  <2> QED BY <1>2, <1>3, <1>4, <2>1 DEF Finish
<1>5. ASSUME NEW pc, Goto(r, pc), task[r].pc \in resting \/ task[r].done = {},
             pc \in resting \/ task[r].done = {}
      PROVE  Copies' = Copies
  <2> DEFINE t == [task[r] EXCEPT !.pc = pc]
  <2>1. Become(r, t) /\ t.pc = pc /\ t.done = task[r].done
    BY <1>0, <1>5 DEF Goto, Task
  <2> HIDE DEF t
  <2> QED BY <1>2, <1>3, <1>5, <2>1
<1>6. ASSUME NEW path \in Paths, NEW to \in Paths, RenameBegin(r, path, to) PROVE Copies' = Copies
  <2> DEFINE t == [Idle EXCEPT !.pc = "renameCheck", !.path = path, !.to = to, !.todo = FilesAt(path)]
  <2>1. Become(r, t) /\ t.pc = "renameCheck" /\ task[r].pc \in resting
    BY <1>6 DEF RenameBegin, Idle, At
  <2> HIDE DEF t
  <2> QED BY <1>2, <1>3, <2>1
<1>7. CASE RenameCheck(r) \/ RenameCollide(r) \/ RenameUnmark(r)
  <2>1. /\ task[r].pc \in resting
        /\ Finish(r) \/ Goto(r, "renameCollide") \/ Goto(r, "renameMark")
    BY <1>7 DEF RenameCheck, RenameCollide, RenameUnmark, At
  <2>2. "renameCollide" \in resting /\ "renameMark" \in resting
    OBVIOUS
  <2> HIDE DEF resting
  <2> QED BY <1>1, <1>4, <1>5, <2>1, <2>2
<1>8. CASE RenameMark(r)
  <2>1. task[r].done = {}
    BY <1>0, <1>8 DEF RenameMark, At, FilesInv, AllSound, Sound, RenameSound
  <2> QED BY <1>5, <1>8, <2>1 DEF RenameMark, At
<1>9. CASE RenameCopied(r)
  <2> DEFINE t == [task[r] EXCEPT !.pc = "renameRemove"]
  <2>1. task[r].pc = "renameCopy" /\ ~task[r].failed
    BY <1>0, <1>9 DEF RenameCopied, At, Unfailed, Hopeful, RenamingSteps
  <2>2. Become(r, t)
    BY <1>9, <2>1 DEF RenameCopied, Goto
  <2>3. t.pc = "renameRemove" /\ t.done = task[r].done /\ t.path = task[r].path /\ t.to = task[r].to
    BY <1>0 DEF Task
  <2> HIDE DEF t
  <2>4. \A k : Target(t, k) = Target(task[r], k)
    BY <2>3 DEF Target
  <2>5. CopiesOf(t) = {Target(t, k) : k \in t.done}
    BY <2>3 DEF CopiesOf
  <2>6. CopiesOf(task[r]) = {Target(task[r], k) : k \in task[r].done}
    BY <2>1 DEF CopiesOf
  <2>7. CopiesOf(t) = CopiesOf(task[r])
    BY <2>3, <2>4, <2>5, <2>6
  <2> QED BY <1>1, <1>2, <2>2, <2>7
<1>10. CASE RenamePublish(r)
  BY <1>5, <1>10 DEF RenamePublish, At
<1> QED
  BY <1>1, <1>6, <1>7, <1>8, <1>9, <1>10 DEF RenameSteps

\* A copy is not a file yet.
LEMMA CopyRefines ==
  ASSUME TypeInv, FilesInv, Calm, NEW r \in Requests, NEW k \in Keys, RenameCopy(r, k)
  PROVE  FilesNow' = FilesNow
<1> DEFINE x == Target(task[r], k)
           t == [task[r] EXCEPT !.todo = @ \ {k}, !.done = @ \cup {k}]
<1>0. r \in Procs /\ task[r] \in Task
  BY TaskTyped DEF Procs
<1>1. /\ task[r].pc = "renameCopy" /\ k \in FilesAt(task[r].path)
      /\ x \in Keys /\ ~Exists(x) /\ \A j \in Keys \ {x} : bucket'[j] = bucket[j]
  BY RenameCopyWrites
<1>2. Become(r, t)
  BY <1>1 DEF RenameCopy, Calm, FilesAt
<1>3. /\ t.pc = "renameCopy" /\ t.done = task[r].done \cup {k}
      /\ t.path = task[r].path /\ t.to = task[r].to
  BY <1>0, <1>1 DEF Task
<1>4. \A j : Target(t, j) = Target(task[r], j)
  BY <1>3 DEF Target
<1>5. CopiesOf(t) = CopiesOf(task[r]) \cup {x}
  BY <1>1, <1>3, <1>4 DEF CopiesOf
<1> HIDE DEF t
<1>6. task'[r] = t
  BY <1>0, <1>2, BecomeNext
<1>7. CopiesOf(task[r])' = CopiesOf(task[r]) \cup {x}
  BY <1>5, <1>6 DEF CopiesOf, Target
<1> HIDE DEF x
<1>8. \A q \in Requests \ {r} : CopiesOf(task[q])' = CopiesOf(task[q])
  BY <1>0, <1>2, CopiesStep DEF Procs
<1>9. \A j : j \in Copies' <=> j \in Copies \/ j = x
  <2>1. \A j : j \in Copies' <=> \E q \in Requests : j \in CopiesOf(task[q])'
    BY DEF Copies, CopiesOf, Target
  <2> QED BY <1>7, <1>8, <2>1, CopiesAre
<1>10. \A j \in Keys : (IF j \in Copies' THEN NoObject ELSE bucket'[j])
                         = (IF j \in Copies THEN NoObject ELSE bucket[j])
  BY <1>1, <1>9 DEF Exists
<1> QED
  BY <1>10 DEF FilesNow, NoObject

\* The removal of the original is what moves the file.
LEMMA RemoveRefines ==
  ASSUME TypeInv, FilesInv, Calm, NEW r \in Requests, NEW k \in Keys, RenameRemove(r, k)
  PROVE  \E x \in Keys : /\ FilesNow[x] = NoObject
                         /\ FilesNow' = [FilesNow EXCEPT ![k] = NoObject, ![x] = FilesNow[k]]
<1> DEFINE x == Target(task[r], k)
           t == [task[r] EXCEPT !.done = @ \ {k}]
<1>0. r \in Procs /\ task[r] \in Task
  BY TaskTyped DEF Procs
<1>1. /\ task[r].pc = "renameRemove" /\ Siblings(task[r].path, task[r].to)
      /\ k \in task[r].done /\ k \in Tree(task[r].path)
      /\ x \in Keys /\ x # k /\ bucket[x] = bucket[k]
      /\ \A j \in Keys \ {k} : bucket'[j] = bucket[j]
  BY RenameRemoveWrites DEF FilesAt, Tree
<1>2. Become(r, t) /\ bucket'[k] = NoObject
  BY OneObject DEF RenameRemove, Calm
<1>3. /\ t.pc = "renameRemove" /\ t.done = task[r].done \ {k}
      /\ t.path = task[r].path /\ t.to = task[r].to
  BY <1>0, <1>1 DEF Task
<1>4. \A j : Target(t, j) = Target(task[r], j)
  BY <1>3 DEF Target
<1>5. x \in CopiesOf(task[r])
  BY <1>1 DEF CopiesOf
<1>6. \A j \in task[r].done : j \in Tree(task[r].path)
  BY <1>0, <1>1 DEF FilesInv, AllSound, Sound, RenameSound, FilesAt, Tree
<1>7. \A j \in task[r].done : Target(task[r], j) = x => j = k
  BY <1>1, <1>6, TargetPlaces
<1>8. CopiesOf(t) = CopiesOf(task[r]) \ {x}
  BY <1>1, <1>3, <1>4, <1>7 DEF CopiesOf
<1> HIDE DEF t
<1>9. CopiesOf(task[r])' = CopiesOf(task[r]) \ {x}
  <2>1. task'[r] = t
    BY <1>0, <1>2, BecomeNext
  <2> QED BY <1>8, <2>1 DEF CopiesOf, Target
<1>10. k \notin CopiesOf(task[r])
  <2>1. \A j \in CopiesOf(task[r]) : j \in Tree(task[r].to)
    BY <1>0, CopiesPlaces
  <2> QED BY <1>1, <2>1, SiblingsApart
<1> HIDE DEF x
<1>11. \A q \in Requests \ {r} : CopiesOf(task[q])' = CopiesOf(task[q])
  BY <1>0, <1>2, CopiesStep DEF Procs
<1>12. \A q \in Requests \ {r} : x \notin CopiesOf(task[q])
  BY <1>0, <1>5, CopiesApart DEF Procs
<1>13. \A q \in Requests \ {r} : k \notin CopiesOf(task[q])
  <2>1. Writing(task[r], k)
    BY <1>1 DEF Writing
  <2> QED BY <1>0, <2>1, WritesNoCopy DEF Procs
<1>14. \A j : j \in Copies' <=> j \in Copies /\ j # x
  <2>1. \A j : j \in Copies' <=> \E q \in Requests : j \in CopiesOf(task[q])'
    BY DEF Copies, CopiesOf, Target
  <2> QED BY <1>9, <1>11, <1>12, <2>1, CopiesAre
<1>15. k \notin Copies /\ x \in Copies
  BY <1>5, <1>10, <1>13, CopiesAre
<1>16. FilesNow[x] = NoObject /\ FilesNow[k] = bucket[k]
  BY <1>1, <1>15 DEF FilesNow
<1>17. \A j \in Keys : FilesNow'[j] = IF j = x THEN bucket[k] ELSE IF j = k THEN NoObject ELSE FilesNow[j]
  BY <1>1, <1>2, <1>14, <1>15 DEF FilesNow, NoObject
<1>18. FilesNow' = [FilesNow EXCEPT ![k] = NoObject, ![x] = FilesNow[k]]
  BY <1>1, <1>16, <1>17 DEF FilesNow
<1> QED
  BY <1>1, <1>16, <1>18

LEMMA RenamesRefine ==
  ASSUME TypeInv, FilesInv, Unfailed, Calm, NEW r \in Requests, RenameSteps(r)
  PROVE  FileStep
<1>1. SpentNow' = SpentNow
  <2>1. UNCHANGED <<plan, multipart>>
    BY DEF RenameSteps, RenameBegin, RenameCheck, RenameCollide, RenameMark, RenameCopied, RenameCopy,
       RenameRemove, RenamePublish, RenameUnmark, stores, uploads
  <2> QED BY <2>1, QuietSpent
<1>2. ASSUME NEW k \in Keys, RenameCopy(r, k) PROVE FileStep
  BY <1>1, <1>2, CopyRefines, StoreStutters DEF FileStep
<1>3. ASSUME NEW k \in Keys, RenameRemove(r, k) PROVE FileStep
  <2>1. PICK x \in Keys : /\ FilesNow[x] = NoObject
                          /\ FilesNow' = [FilesNow EXCEPT ![k] = NoObject, ![x] = FilesNow[k]]
    BY <1>3, RemoveRefines
  <2> QED BY <1>1, <2>1, StoreMoves DEF FileStep
<1>4. CASE \A k \in Keys : ~RenameCopy(r, k) /\ ~RenameRemove(r, k)
  BY <1>1, <1>4, RenamesWait, QuietFiles, StoreStutters DEF FileStep
<1> QED
  BY <1>2, <1>3, <1>4

LEMMA PacksRefine ==
  ASSUME TypeInv, FilesInv, Calm, NEW w \in Workers, PackSteps(w)
  PROVE  FileStep
<1>1. SpentNow' = SpentNow
  <2>1. UNCHANGED <<plan, multipart>>
    BY DEF PackSteps, Dequeue, PackCheck, PackDiskFull, PackMark, PackLoad, Pack, PackNothing,
       PackRequeue, PackStat, PackPut, PackUsed, PackUnmark, stores, uploads
  <2> QED BY <2>1, QuietSpent
<1>2. w \in Procs \ Requests
  BY DriveAssumption DEF Procs
<1>3. Copies' = Copies
  <2>1. Moved(w, PackNames)
    BY <1>2, PackMoves
  <2> QED BY <1>2, <2>1, CopiesStep DEF Moved
<1>4. CASE PackPut(w)
  <2> DEFINE k == task[w].path
             x == Packed(task[w])
  <2>1. /\ task[w].pc = "packPut" /\ k \in Keys /\ Exists(k)
        /\ x.content = bucket[k].content /\ x.size \in 0..bucket[k].size
        /\ \A j \in Keys \ {k} : bucket'[j] = bucket[j]
    BY <1>4, PackPutWrites
  <2>2. bucket'[k] = x
    <3>1. SetObject(k, x)
      BY <1>4 DEF PackPut, Calm
    <3> QED BY <2>1, <3>1, OneObject
  <2>3. x = [size |-> x.size, content |-> bucket[k].content, packed |-> TRUE]
    BY <2>1 DEF Packed
  <2>4. k \notin Copies
    <3>1. Writing(task[w], k)
      BY <2>1 DEF Writing
    <3>2. \A q \in Requests : k \notin CopiesOf(task[q])
      BY <1>2, <2>1, <3>1, WritesNoCopy DEF Procs
    <3> QED BY <3>2, CopiesAre
  <2> HIDE DEF k, x
  <2>5. FilesNow[k] = bucket[k] /\ bucket[k] \in Object /\ bucket[k] # NoObject
    BY <2>1, <2>4 DEF FilesNow, Exists, TypeInv, TypeOK, StoresOK
  <2>6. FilesNow' = [FilesNow EXCEPT ![k] = x]
    BY <1>3, <2>1, <2>2, <2>4 DEF FilesNow, NoObject
  <2>7. FilesNow' = [FilesNow EXCEPT ![k] = [size |-> x.size, content |-> FilesNow[k].content, packed |-> TRUE]]
    BY <2>3, <2>5, <2>6
  <2> QED
    BY <1>1, <2>1, <2>5, <2>7, StorePacks DEF FileStep
<1>5. CASE ~PackPut(w)
  <2>1. UNCHANGED bucket
    BY <1>5 DEF PackSteps, Dequeue, PackCheck, PackDiskFull, PackMark, PackLoad, Pack, PackNothing,
       PackRequeue, PackStat, PackUsed, PackUnmark, stores, objects
  <2> QED BY <1>1, <1>3, <2>1, QuietFiles, StoreStutters DEF FileStep
<1> QED
  BY <1>4, <1>5

\* The upload collector gives uploads up, and nothing else.
LEMMA SweepsRefine ==
  ASSUME TypeInv, SweepSteps \/ (\E u \in UploadIds : Expire(u)) \/ UNCHANGED vars
  PROVE  FileStep
<1>1. UNCHANGED <<task, bucket, plan>>
  BY DEF SweepSteps, SweepBegin, SweepAbort, SweepDelete, Expire, vars, objects
<1>2. Copies' = Copies
  BY <1>1 DEF Copies, Target
<1>3. FilesNow' = FilesNow
  BY <1>1, <1>2, QuietFiles
<1>4. ASSUME NEW u \in UploadIds, SweepAbort(u) PROVE FileStep
  BY <1>1, <1>3, <1>4, Discarding DEF SweepAbort
<1>5. CASE \A u \in UploadIds : ~SweepAbort(u)
  <2>1. UNCHANGED multipart
    BY <1>5 DEF SweepSteps, SweepBegin, SweepDelete, Expire, vars
  <2> QED BY <1>1, <1>3, <2>1, QuietSpent, StoreStutters DEF FileStep
<1> QED
  BY <1>4, <1>5

LEMMA StoreNext ==
  ASSUME TypeInv, FilesInv, Unfailed, Calm, [Next]_vars
  PROVE  [Files!Next]_(Files!vars)
<1>1. FileStep
  <2>1. ASSUME NEW r \in Requests, RequestSteps(r) PROVE FileStep
    BY <2>1, InitsRefine, CompletesRefine, AbortsRefine, DeletesRefine, RenamesRefine DEF RequestSteps
  <2>2. ASSUME NEW w \in Workers, PackSteps(w) PROVE FileStep
    BY <2>2, PacksRefine
  <2>3. CASE SweepSteps \/ (\E u \in UploadIds : Expire(u)) \/ UNCHANGED vars
    BY <2>3, SweepsRefine
  <2> QED BY <2>1, <2>2, <2>3 DEF Next, Restart, Calm
<1> QED
  BY <1>1 DEF FileStep

LEMMA StoreInit ==
  ASSUME Init
  PROVE  Files!Init /\ Unfailed
<1>1. Copies = {} /\ Unfailed
  <2>1. \A p \in Procs : task[p].pc = "idle"
    BY DEF Init, Idle
  <2>2. {q \in Requests : task[q].pc \in {"renameCopy", "renameRemove"}} = {}
    BY <2>1 DEF Procs
  <2>3. Unfailed
    BY <2>1 DEF Unfailed, Hopeful, RenamingSteps
  <2> QED BY <2>2, <2>3 DEF Copies
<1>2. SpentNow = {}
  BY DEF Init, SpentNow
<1>3. FilesNow = [k \in Keys |-> NoObject]
  BY <1>1 DEF Init, FilesNow
<1> QED
  BY <1>1, <1>2, <1>3 DEF Files!Init, Files!NoObject, FilesNow, SpentNow, NoObject

\* In the same conditions, and as long as no call to MinIO fails and the
\* process is not restarted, handlers, goroutines and workers together are
\* FileStore: to a client that counts a copy as a file only once its original
\* is gone, every upload, delete, move and recompression is one atomic step,
\* a move goes only to a free key, and no upload is stored twice.
THEOREM FilesAreStored ==
  Calm => (Spec /\ [][NoStaleRename]_vars => FileStoreImplemented)
<1> SUFFICES ASSUME Calm PROVE Spec /\ [][NoStaleRename]_vars => FileStoreImplemented
  OBVIOUS
<1>1. Separate
  BY DEF Calm
<1>2. Init => Files!Init /\ Unfailed
  BY StoreInit
<1>3. TypeInv /\ FilesInv /\ Unfailed /\ [Next]_vars => Unfailed'
  BY UnfailedNext
<1>4. TypeInv /\ FilesInv /\ Unfailed /\ [Next]_vars => [Files!Next]_(Files!vars)
  BY StoreNext
<1> QED
  BY <1>1, <1>2, <1>3, <1>4, FilesInit, FilesNext, InitType, NextType, PTL
     DEF Spec, FileStoreImplemented, Files!Spec

=============================================================================
