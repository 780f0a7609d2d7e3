------------------------- MODULE DriveLedgerProofs -------------------------
(***************************************************************************)
(* The two ledgers of Drive.  That of reservations, first, holds as long   *)
(* as nothing disturbs it that the code does not handle: requests that     *)
(* finish one upload at once, uploads that expire, documents that are not  *)
(* saved, restarts; calls to MinIO may fail or lose their reply at any     *)
(* step.  That of used bytes needs the calls to succeed, and requests that *)
(* wait for one another.  Last, from both ledgers, the quota.              *)
(***************************************************************************)
EXTENDS DriveFilesProofs

Undisturbed == \A what \in {"overlap", "expiry", "saveFails", "restart"} : ~Allows(what)

HoldSteps   == {"initMultipart", "initRelease", "initSave"}
ClosedSteps == {"completeDelete", "abortDelete"}
FinishSteps == {"completeStat", "completeS3", "completeRestat", "completeUsed",
                "completeRelease", "completeDelete", "abortS3", "abortRelease", "abortDelete"}

\* What the ledger needs of the task of a request.
Settled(t, pl, ds) == /\ t.up # None => t.pc \in UploadSteps
                      /\ t.pc \in FinishSteps => t.up \in ds
                      /\ t.pc = "initSave" => t.up \notin ds /\ pl[t.up].size = t.n

\* No upload is another request's, except None's.
Alone(p, u) == u # None => \A q \in Requests \ {p} : task[q].up # u

\* The ledger is inductive only together with this: each upload has one
\* request at most, its document is there from the last step of init to the
\* last of complete or abort, and the GC finds nothing.
LedgerInv == /\ expired = {} /\ sweep = NoSweep
             /\ \A r \in Requests : Settled(task[r], plan, docs) /\ Alone(r, task[r].up)
             /\ ReservationLedger

---------------------------------------------------------------------------
(* Sums whose terms change.                                                *)

LEMMA UploadsFinite ==
  ASSUME TypeInv
  PROVE  /\ IsFiniteSet(OpenUploads)
         /\ [u \in OpenUploads |-> plan[u].size] \in [OpenUploads -> Nat]
<1>1. OpenUploads \subseteq UploadIds
  BY DEF OpenUploads, TypeInv, TypeOK, StoresOK
<1>2. IsFiniteSet(OpenUploads)
  BY <1>1, DriveAssumption, FS_Subset
<1> QED BY <1>1, <1>2 DEF TypeInv, TypeOK, StoresOK, Plan

LEMMA HoldersFinite ==
  ASSUME TypeInv
  PROVE  /\ IsFiniteSet(Holders)
         /\ [r \in Holders |-> task[r].n] \in [Holders -> Nat]
<1>1. Holders \subseteq Requests /\ Holders \subseteq Procs
  BY DEF Holders, Procs
<1>2. IsFiniteSet(Holders)
  BY <1>1, DriveAssumption, FS_Subset
<1> QED BY <1>1, <1>2, TaskTyped DEF Task

LEMMA HeldTyped ==
  ASSUME TypeInv
  PROVE  HeldByUploads \in Nat /\ HeldByRequests \in Nat
BY UploadsFinite, HoldersFinite, TotalBytesType DEF HeldByUploads, HeldByRequests

LEMMA UploadsSame ==
  ASSUME OpenUploads' = OpenUploads, \A u \in OpenUploads : plan'[u].size = plan[u].size
  PROVE  HeldByUploads' = HeldByUploads
<1>1. [u \in OpenUploads |-> plan[u].size]' = [u \in OpenUploads |-> plan[u].size]
  OBVIOUS
<1> QED BY <1>1 DEF HeldByUploads

\* An upload is opened.
LEMMA UploadsMore ==
  ASSUME TypeInv, NEW u, u \notin OpenUploads, OpenUploads' = OpenUploads \cup {u},
         plan' = plan, plan[u].size \in Nat
  PROVE  HeldByUploads' = HeldByUploads + plan[u].size
<1> DEFINE f == [v \in OpenUploads |-> plan[v].size]
           T == OpenUploads \cup {u}
<1>0. PICK g : g = [v \in OpenUploads' |-> plan'[v].size]
  OBVIOUS
<1> DEFINE h == [v \in T \ {u} |-> g[v]]
<1>1. g \in [OpenUploads \cup {u} -> Nat] /\ g[u] = plan[u].size /\ \A v \in OpenUploads : g[v] = f[v]
  BY <1>0, UploadsFinite
<1>2. IsFiniteSet(OpenUploads) /\ f \in [OpenUploads -> Nat]
  BY UploadsFinite
<1>3. HeldByUploads = TotalBytes(f) /\ HeldByUploads' = TotalBytes(g)
  BY <1>0 DEF HeldByUploads
<1> HIDE DEF f
<1>4. TotalBytes(g) = g[u] + TotalBytes(h)
  <2>1. IsFiniteSet(T) /\ u \in T
    BY <1>2, FS_AddElement
  <2>2. g \in [T -> Nat]
    BY <1>1
  <2> HIDE DEF T
  <2> QED BY <2>1, <2>2, TotalBytesSplit
<1>5. h = f
  BY <1>1, <1>2
<1>6. TotalBytes(f) \in Nat
  BY <1>2, TotalBytesType
<1> HIDE DEF h
<1> QED BY <1>1, <1>3, <1>4, <1>5, <1>6

\* An upload is finished.
LEMMA UploadsLess ==
  ASSUME TypeInv, NEW u \in OpenUploads, OpenUploads' = OpenUploads \ {u}, plan' = plan
  PROVE  HeldByUploads = HeldByUploads' + plan[u].size /\ HeldByUploads' \in Nat
<1> DEFINE f == [v \in OpenUploads |-> plan[v].size]
           g == [v \in OpenUploads' |-> plan'[v].size]
           h == [v \in OpenUploads \ {u} |-> f[v]]
<1>1. g = h /\ f[u] = plan[u].size
  OBVIOUS
<1>2. IsFiniteSet(OpenUploads) /\ f \in [OpenUploads -> Nat]
  BY UploadsFinite
<1>3. HeldByUploads = TotalBytes(f) /\ HeldByUploads' = TotalBytes(g)
  BY DEF HeldByUploads
<1> HIDE DEF f, g
<1>4. IsFiniteSet(OpenUploads \ {u}) /\ h \in [OpenUploads \ {u} -> Nat]
  BY <1>2, FS_RemoveElement
<1>5. TotalBytes(h) \in Nat /\ f[u] \in Nat
  BY <1>2, <1>4, TotalBytesType
<1>6. TotalBytes(f) = f[u] + TotalBytes(h)
  BY <1>2, TotalBytesSplit
<1> HIDE DEF h
<1> QED BY <1>1, <1>3, <1>5, <1>6

LEMMA RequestsSame ==
  ASSUME Holders' = Holders, \A r \in Holders : task'[r].n = task[r].n
  PROVE  HeldByRequests' = HeldByRequests
<1> DEFINE g == [q \in Holders' |-> task'[q].n]
<1>1. g = [q \in Holders |-> task[q].n]
  OBVIOUS
<1>2. HeldByRequests' = TotalBytes(g)
  BY DEF HeldByRequests
<1> QED BY <1>1, <1>2 DEF HeldByRequests

\* A request reserves.
LEMMA RequestsMore ==
  ASSUME TypeInv, NEW r, r \notin Holders, Holders' = Holders \cup {r},
         task'[r].n \in Nat, \A q \in Holders : task'[q].n = task[q].n
  PROVE  HeldByRequests' = HeldByRequests + task'[r].n
<1> DEFINE f == [q \in Holders |-> task[q].n]
           T == Holders \cup {r}
<1>0. PICK g : g = [q \in Holders' |-> task'[q].n]
  OBVIOUS
<1> DEFINE h == [q \in T \ {r} |-> g[q]]
<1>1. g \in [Holders \cup {r} -> Nat] /\ g[r] = task'[r].n /\ \A q \in Holders : g[q] = f[q]
  BY <1>0, HoldersFinite
<1>2. IsFiniteSet(Holders) /\ f \in [Holders -> Nat]
  BY HoldersFinite
<1>3. HeldByRequests = TotalBytes(f) /\ HeldByRequests' = TotalBytes(g)
  BY <1>0 DEF HeldByRequests
<1> HIDE DEF f
<1>4. TotalBytes(g) = g[r] + TotalBytes(h)
  <2>1. IsFiniteSet(T) /\ r \in T
    BY <1>2, FS_AddElement
  <2>2. g \in [T -> Nat]
    BY <1>1
  <2> HIDE DEF T
  <2> QED BY <2>1, <2>2, TotalBytesSplit
<1>5. h = f
  BY <1>1, <1>2
<1>6. TotalBytes(f) \in Nat
  BY <1>2, TotalBytesType
<1> HIDE DEF h
<1> QED BY <1>1, <1>3, <1>4, <1>5, <1>6

\* A request gives up what it reserved, or leaves it to its upload.
LEMMA RequestsLess ==
  ASSUME TypeInv, NEW r \in Holders, Holders' = Holders \ {r},
         \A q \in Holders \ {r} : task'[q].n = task[q].n
  PROVE  HeldByRequests = HeldByRequests' + task[r].n /\ HeldByRequests' \in Nat
<1> DEFINE f == [q \in Holders |-> task[q].n]
           g == [q \in Holders' |-> task'[q].n]
           h == [q \in Holders \ {r} |-> f[q]]
<1>1. g = h /\ f[r] = task[r].n
  OBVIOUS
<1>2. IsFiniteSet(Holders) /\ f \in [Holders -> Nat]
  BY HoldersFinite
<1>3. HeldByRequests = TotalBytes(f) /\ HeldByRequests' = TotalBytes(g)
  BY DEF HeldByRequests
<1> HIDE DEF f, g
<1>4. IsFiniteSet(Holders \ {r}) /\ h \in [Holders \ {r} -> Nat]
  BY <1>2, FS_RemoveElement
<1>5. TotalBytes(h) \in Nat /\ f[r] \in Nat
  BY <1>2, <1>4, TotalBytesType
<1>6. TotalBytes(f) = f[r] + TotalBytes(h)
  BY <1>2, TotalBytesSplit
<1> HIDE DEF h
<1> QED BY <1>1, <1>3, <1>5, <1>6

---------------------------------------------------------------------------
(* Steps of one request.                                                   *)

LEMMA BecomeStep ==
  ASSUME TypeInv, NEW r \in Requests, NEW t, Become(r, t)
  PROVE  /\ task'[r] = t /\ \A q \in Procs \ {r} : task'[q] = task[q]
         /\ Requests \subseteq Procs
BY DEF TypeInv, TypeOK, Become, Procs

LEMMA HoldersStep ==
  ASSUME TypeInv, NEW r \in Requests, NEW t, Become(r, t)
  PROVE  /\ t.pc \in HoldSteps => Holders' = Holders \cup {r}
         /\ t.pc \notin HoldSteps => Holders' = Holders \ {r}
BY BecomeStep DEF Holders, HoldSteps

LEMMA AloneStep ==
  ASSUME TypeInv, NEW r \in Requests, NEW t, Become(r, t), Alone(r, t.up),
         \A q \in Requests : Alone(q, task[q].up)
  PROVE  \A q \in Requests : Alone(q, task[q].up)'
<1> SUFFICES ASSUME NEW q \in Requests, task'[q].up # None, NEW o \in Requests \ {q}
             PROVE  task'[o].up # task'[q].up
  BY DEF Alone
<1> QED BY BecomeStep DEF Alone

\* An upload is open before and after a step that neither saves nor deletes
\* its document, and begins or ends nothing.
LEMMA OpenSame ==
  ASSUME TypeInv, NEW r \in Requests, NEW t, Become(r, t),
         task[r].pc \notin ClosedSteps, t.pc \notin ClosedSteps, docs' = docs
  PROVE  OpenUploads' = OpenUploads
<1>1. \A q \in Requests, u \in docs : Finishes(q, u)' <=> Finishes(q, u)
  BY BecomeStep DEF Finishes, ClosedSteps
<1> QED BY <1>1 DEF OpenUploads

LEMMA LedgerPlain ==
  ASSUME TypeInv, LedgerInv, NEW r \in Requests, NEW t, Become(r, t),
         {task[r].pc, t.pc} \cap (HoldSteps \cup ClosedSteps) = {},
         Settled(t, plan, docs), Alone(r, t.up),
         UNCHANGED <<reserved, plan, docs, expired, sweep>>
  PROVE  LedgerInv'
<1>1. task[r].pc \notin HoldSteps \cup ClosedSteps /\ t.pc \notin HoldSteps \cup ClosedSteps
  OBVIOUS
<1>2. \A q \in Requests : Alone(q, task[q].up)'
  BY AloneStep DEF LedgerInv
<1>3. \A q \in Requests : Settled(task[q], plan, docs)'
  BY BecomeStep DEF LedgerInv, Settled
<1>4. OpenUploads' = OpenUploads /\ Holders' = Holders /\ r \notin Holders
  BY <1>1, OpenSame, HoldersStep DEF Holders, HoldSteps
<1>5. \A q \in Holders : task'[q].n = task[q].n
  BY <1>4, BecomeStep DEF Holders
<1>6. HeldByUploads' = HeldByUploads /\ HeldByRequests' = HeldByRequests
  BY <1>4, <1>5, UploadsSame, RequestsSame
<1> QED BY <1>2, <1>3, <1>6 DEF LedgerInv, ReservationLedger

\* A step outside of the uploads.
LEMMA LedgerOutside ==
  ASSUME TypeInv, LedgerInv, NEW r \in Requests, NEW t, Become(r, t),
         task[r].pc \notin UploadSteps \cup HoldSteps,
         t.pc \notin UploadSteps \cup HoldSteps, t.up \in {None, task[r].up},
         UNCHANGED <<reserved, plan, docs, expired, sweep>>
  PROVE  LedgerInv'
<1>1. t.up = None
  BY DEF LedgerInv, Settled
<1>2. ClosedSteps \subseteq UploadSteps /\ FinishSteps \subseteq UploadSteps
      /\ "initSave" \in UploadSteps
  BY DEF ClosedSteps, FinishSteps, UploadSteps
<1>3. Settled(t, plan, docs) /\ Alone(r, t.up)
  BY <1>1, <1>2 DEF Settled, Alone
<1>4. {task[r].pc, t.pc} \cap (HoldSteps \cup ClosedSteps) = {}
  BY <1>2
<1> QED BY <1>3, <1>4, LedgerPlain

\* A step that leaves the tasks of all requests alone.
LEMMA LedgerElsewhere ==
  ASSUME LedgerInv, \A r \in Requests : task'[r] = task[r],
         UNCHANGED <<reserved, plan, docs, expired, sweep>>
  PROVE  LedgerInv'
<1>1. OpenUploads' = OpenUploads /\ Holders' = Holders
  BY DEF OpenUploads, Finishes, Holders
<1>2. \A r \in Holders : task'[r].n = task[r].n
  BY DEF Holders
<1>3. HeldByUploads' = HeldByUploads /\ HeldByRequests' = HeldByRequests
  BY <1>1, <1>2, UploadsSame, RequestsSame
<1> QED BY <1>3 DEF LedgerInv, ReservationLedger, Settled, Alone

---------------------------------------------------------------------------
(* The steps that move bytes between the two halves of the ledger.         *)

LEMMA LedgerReserve ==
  ASSUME TypeInv, LedgerInv, NEW r \in Requests, InitReserve(r)
  PROVE  LedgerInv'
<1> DEFINE t == [task[r] EXCEPT !.pc = "initMultipart"]
<1>0. task[r] \in Task /\ task[r].pc = "initReserve" /\ reserved \in Nat
  BY TaskTyped DEF InitReserve, At, Procs, TypeInv, TypeOK, StoresOK
<1>1. CASE Become(r, Idle) /\ UNCHANGED reserved
  BY <1>0, <1>1, LedgerOutside DEF InitReserve, Idle, UploadSteps, HoldSteps, uploads
<1>2. CASE Become(r, t) /\ reserved' = reserved + task[r].n
  <2>1. t.pc = "initMultipart" /\ t.up = task[r].up /\ t.n = task[r].n /\ t.n \in Nat
    BY <1>0 DEF Task
  <2> HIDE DEF t
  <2>2. UNCHANGED <<plan, docs, expired, sweep>>
    BY DEF InitReserve, uploads
  <2>3. t.up = None
    BY <1>0, <2>1 DEF LedgerInv, Settled, UploadSteps
  <2>4. Settled(t, plan, docs) /\ Alone(r, t.up)
    BY <2>1, <2>3 DEF Settled, Alone, FinishSteps
  <2>5. \A q \in Requests : Alone(q, task[q].up)'
    BY <1>2, <2>4, AloneStep DEF LedgerInv
  <2>6. \A q \in Requests : Settled(task[q], plan, docs)'
    BY <1>2, <2>2, <2>4, BecomeStep DEF LedgerInv, Settled
  <2>7. OpenUploads' = OpenUploads
    BY <1>0, <1>2, <2>1, <2>2, OpenSame DEF ClosedSteps
  <2>8. Holders' = Holders \cup {r} /\ r \notin Holders
    BY <1>0, <1>2, <2>1, HoldersStep DEF Holders, HoldSteps
  <2>9. HeldByUploads' = HeldByUploads
    BY <2>2, <2>7, UploadsSame
  <2>10. \A q \in Holders : task'[q].n = task[q].n
    BY <1>2, <2>8, BecomeStep DEF Holders
  <2>11. task'[r].n = task[r].n /\ task[r].n \in Nat
    BY <1>2, <2>1, BecomeStep
  <2>12. HeldByRequests' = HeldByRequests + task[r].n
    BY <2>8, <2>10, <2>11, RequestsMore
  <2>13. ReservationLedger'
    BY <1>2, <2>9, <2>11, <2>12, HeldTyped DEF LedgerInv, ReservationLedger
  <2> QED BY <2>2, <2>5, <2>6, <2>13 DEF LedgerInv
<1> QED BY <1>1, <1>2 DEF InitReserve, Finish, Goto

\* init ends without an upload.
LEMMA LedgerRefuse ==
  ASSUME TypeInv, LedgerInv, NEW r \in Requests, InitRefuse(r) \/ InitRelease(r)
  PROVE  LedgerInv'
<1>0. /\ task[r] \in Task /\ reserved \in Nat
      /\ task[r].pc \in HoldSteps \ UploadSteps
      /\ Become(r, Idle) /\ Release(task[r].n)
      /\ UNCHANGED <<plan, docs, expired, sweep>>
  BY TaskTyped DEF InitRefuse, InitRelease, At, Procs, TypeInv, TypeOK, StoresOK, HoldSteps,
     UploadSteps, Finish, uploads
<1>1. Idle.up = None /\ Idle.pc = "idle"
  BY DEF Idle
<1>2. Settled(Idle, plan, docs) /\ Alone(r, Idle.up)
  BY <1>1 DEF Settled, Alone, FinishSteps
<1>3. \A q \in Requests : Alone(q, task[q].up)'
  BY <1>0, <1>2, AloneStep DEF LedgerInv
<1>4. \A q \in Requests : Settled(task[q], plan, docs)'
  BY <1>0, <1>2, BecomeStep DEF LedgerInv, Settled
<1>5. OpenUploads' = OpenUploads
  BY <1>0, <1>1, OpenSame DEF ClosedSteps, HoldSteps
<1>6. Holders' = Holders \ {r} /\ r \in Holders
  BY <1>0, <1>1, HoldersStep DEF Holders, HoldSteps
<1>7. HeldByUploads' = HeldByUploads
  BY <1>0, <1>5, UploadsSame
<1>8. \A q \in Holders \ {r} : task'[q].n = task[q].n
  BY <1>0, BecomeStep DEF Holders
<1>9. HeldByRequests = HeldByRequests' + task[r].n /\ HeldByRequests' \in Nat
  BY <1>6, <1>8, RequestsLess
<1>10. task[r].n \in Nat /\ HeldByUploads \in Nat
  BY <1>0, HeldTyped DEF Task
<1>11. ReservationLedger'
  BY <1>0, <1>7, <1>9, <1>10 DEF LedgerInv, ReservationLedger, Release, Floor0
<1> QED BY <1>0, <1>3, <1>4, <1>11 DEF LedgerInv

\* MinIO issues an id: the bytes stay with the request.
LEMMA LedgerMultipart ==
  ASSUME TypeInv, LedgerInv, NEW r \in Requests, NEW u \in UploadIds, InitMultipart(r, u)
  PROVE  LedgerInv'
<1> DEFINE saved == [task[r] EXCEPT !.pc = "initSave", !.up = u]
           lost  == [task[r] EXCEPT !.pc = "initRelease"]
<1>0. /\ task[r] \in Task /\ task[r].pc = "initMultipart" /\ plan \in [UploadIds -> Plan]
      /\ plan' = [plan EXCEPT ![u] = [key |-> task[r].path, size |-> task[r].n]]
      /\ UNCHANGED <<reserved, docs, expired, sweep>>
  BY TaskTyped DEF InitMultipart, At, Procs, TypeInv, TypeOK, StoresOK, accounts
<1>1. plan[u].key \notin Keys /\ u # None
  BY DriveAssumption DEF InitMultipart, NoPlan, Paths
<1>2. u \notin docs /\ \A q \in Requests : task[q].up # u
  <2>1. \A q \in Requests : task[q].up # None => Planned(task[q].up, plan)
    BY TaskTyped DEF LedgerInv, Settled, Fitted, Procs
  <2> QED BY <1>1, <2>1 DEF Planned, TypeInv
<1>3. \A v \in UploadIds \ {u} : plan'[v] = plan[v]
  BY <1>0
<1>4. plan'[u].size = task[r].n
  BY <1>0
<1>5. task[r].up = None
  BY <1>0 DEF LedgerInv, Settled, UploadSteps
<1>6. PICK t \in {saved, lost} : Become(r, t)
  BY DEF InitMultipart, Goto
<1>7. /\ t.pc \in {"initSave", "initRelease"} /\ t.n = task[r].n
      /\ t.pc = "initSave" => t.up = u
      /\ t.pc = "initRelease" => t.up = None
  BY <1>0, <1>5 DEF Task
<1> HIDE DEF saved, lost
<1>8. Settled(t, plan', docs) /\ Alone(r, t.up)
  BY <1>2, <1>4, <1>7 DEF Settled, Alone, FinishSteps, UploadSteps
<1>9. \A q \in Requests : Alone(q, task[q].up)'
  BY <1>6, <1>8, AloneStep DEF LedgerInv
<1>10. \A q \in Requests : Settled(task[q], plan, docs)'
  <2> SUFFICES ASSUME NEW q \in Requests \ {r} PROVE Settled(task[q], plan, docs)'
    BY <1>0, <1>6, <1>8, BecomeStep
  <2>1. Settled(task[q], plan, docs) /\ task'[q] = task[q]
    BY <1>6, BecomeStep DEF LedgerInv
  <2>2. task[q].pc = "initSave" => task[q].up \in UploadIds \ {u}
    BY <1>2, TaskTyped DEF Fitted, Planned, UploadSteps, Procs
  <2> QED BY <1>0, <1>3, <2>1, <2>2 DEF Settled
<1>11. OpenUploads' = OpenUploads
  BY <1>0, <1>6, <1>7, OpenSame DEF ClosedSteps
<1>12. HeldByUploads' = HeldByUploads
  <2>1. \A v \in OpenUploads : plan'[v].size = plan[v].size
    BY <1>2, <1>3 DEF OpenUploads, TypeInv, TypeOK, StoresOK
  <2> QED BY <1>11, <2>1, UploadsSame
<1>13. Holders' = Holders /\ \A q \in Holders : task'[q].n = task[q].n
  BY <1>0, <1>6, <1>7, HoldersStep, BecomeStep DEF Holders, HoldSteps
<1>14. HeldByRequests' = HeldByRequests
  BY <1>13, RequestsSame
<1> QED BY <1>0, <1>9, <1>10, <1>12, <1>14 DEF LedgerInv, ReservationLedger

\* The document is saved: the bytes are the upload's from now on.
LEMMA LedgerSave ==
  ASSUME TypeInv, LedgerInv, Undisturbed, NEW r \in Requests, InitSave(r)
  PROVE  LedgerInv'
<1>u. PICK u : u = task[r].up
  OBVIOUS
<1>0. /\ task[r] \in Task /\ task[r].pc = "initSave" /\ Become(r, Idle)
      /\ docs' = docs \cup {u}
      /\ UNCHANGED <<reserved, plan, expired, sweep>>
  BY <1>u, TaskTyped DEF InitSave, At, Procs, Finish, Undisturbed, accounts
<1>1. u \in UploadIds /\ u # None /\ u \notin docs /\ plan[u].size = task[r].n
  BY <1>u, <1>0, TaskTyped, DriveAssumption
     DEF LedgerInv, Settled, Fitted, Planned, UploadSteps, Procs
<1>2. \A q \in Requests \ {r} : task[q].up # u
  BY <1>u, <1>1 DEF LedgerInv, Alone
<1>3. Idle.up = None /\ Idle.pc = "idle"
  BY DEF Idle
<1>4. Alone(r, Idle.up)
  BY <1>3 DEF Alone
<1>5. \A q \in Requests : Alone(q, task[q].up)'
  BY <1>0, <1>4, AloneStep DEF LedgerInv
<1>6. \A q \in Requests : Settled(task[q], plan, docs)'
  BY <1>0, <1>2, <1>3, BecomeStep DEF LedgerInv, Settled, FinishSteps
<1>7. OpenUploads' = OpenUploads \cup {u} /\ u \notin OpenUploads
  <2>1. \A q \in Requests, v \in docs : Finishes(q, v)' <=> Finishes(q, v)
    BY <1>0, <1>3, BecomeStep DEF Finishes
  <2>2. \A q \in Requests : ~Finishes(q, u)'
    BY <1>0, <1>2, <1>3, BecomeStep DEF Finishes
  <2> QED BY <1>0, <1>1, <2>1, <2>2 DEF OpenUploads
<1>8. HeldByUploads' = HeldByUploads + task[r].n
  BY <1>0, <1>1, <1>7, UploadsMore DEF Task
<1>9. Holders' = Holders \ {r} /\ r \in Holders
  BY <1>0, <1>3, HoldersStep DEF Holders, HoldSteps
<1>10. \A q \in Holders \ {r} : task'[q].n = task[q].n
  BY <1>0, BecomeStep DEF Holders
<1>11. HeldByRequests = HeldByRequests' + task[r].n /\ HeldByRequests' \in Nat
  BY <1>9, <1>10, RequestsLess
<1>12. task[r].n \in Nat /\ HeldByUploads \in Nat
  BY <1>0, HeldTyped DEF Task
<1>13. ReservationLedger'
  BY <1>0, <1>8, <1>11, <1>12 DEF LedgerInv, ReservationLedger
<1> QED BY <1>0, <1>5, <1>6, <1>13 DEF LedgerInv

\* complete and abort release the bytes of their upload.
LEMMA LedgerRelease ==
  ASSUME TypeInv, LedgerInv, NEW r \in Requests, CompleteRelease(r) \/ AbortRelease(r)
  PROVE  LedgerInv'
<1>u. PICK u : u = task[r].up
  OBVIOUS
<1>0. /\ task[r] \in Task /\ task[r].pc \in {"completeRelease", "abortRelease"}
      /\ Release(plan[u].size) /\ reserved \in Nat
      /\ UNCHANGED <<plan, docs, expired, sweep>>
  BY <1>u, TaskTyped DEF CompleteRelease, AbortRelease, At, Procs, TypeInv, TypeOK, StoresOK, uploads
<1>1. u \in UploadIds /\ u # None /\ u \in docs /\ plan[u].size \in Nat
  BY <1>u, <1>0, TaskTyped, DriveAssumption
     DEF LedgerInv, Settled, Fitted, Planned, UploadSteps, FinishSteps, Procs, TypeInv, TypeOK,
         StoresOK, Plan
<1>2. PICK pc \in ClosedSteps : Goto(r, pc)
  BY DEF CompleteRelease, AbortRelease, ClosedSteps
<1> DEFINE t == [task[r] EXCEPT !.pc = pc]
<1>3. t.pc = pc /\ t.up = u /\ Become(r, t)
  BY <1>u, <1>0, <1>2 DEF Task, Goto
<1> HIDE DEF t
<1>4. \A q \in Requests \ {r} : task[q].up # u
  BY <1>u, <1>1 DEF LedgerInv, Alone
<1>5. Settled(t, plan, docs) /\ Alone(r, t.up)
  BY <1>1, <1>3, <1>4 DEF Settled, Alone, ClosedSteps, UploadSteps
<1>6. \A q \in Requests : Alone(q, task[q].up)'
  BY <1>3, <1>5, AloneStep DEF LedgerInv
<1>7. \A q \in Requests : Settled(task[q], plan, docs)'
  BY <1>0, <1>3, <1>5, BecomeStep DEF LedgerInv, Settled
<1>8. OpenUploads' = OpenUploads \ {u} /\ u \in OpenUploads
  <2>1. \A q \in Requests, v \in docs \ {u} : Finishes(q, v)' <=> Finishes(q, v)
    BY <1>u, <1>0, <1>3, BecomeStep DEF Finishes
  <2>2. Finishes(r, u)' /\ \A q \in Requests : ~Finishes(q, u)
    BY <1>0, <1>3, <1>4, BecomeStep DEF Finishes, ClosedSteps
  <2> QED BY <1>0, <1>1, <2>1, <2>2 DEF OpenUploads
<1>9. HeldByUploads = HeldByUploads' + plan[u].size /\ HeldByUploads' \in Nat
  BY <1>0, <1>8, UploadsLess
<1>10. Holders' = Holders /\ r \notin Holders
  BY <1>0, <1>3, HoldersStep DEF Holders, HoldSteps, ClosedSteps
<1>11. \A q \in Holders : task'[q].n = task[q].n
  BY <1>3, <1>10, BecomeStep DEF Holders
<1>12. HeldByRequests' = HeldByRequests /\ HeldByRequests \in Nat
  BY <1>10, <1>11, RequestsSame, HeldTyped
<1>13. ReservationLedger'
  BY <1>0, <1>1, <1>9, <1>12 DEF LedgerInv, ReservationLedger, Release, Floor0
<1> QED BY <1>0, <1>6, <1>7, <1>13 DEF LedgerInv

\* The document goes when the bytes are already released.
LEMMA LedgerDelete ==
  ASSUME TypeInv, LedgerInv, NEW r \in Requests, CompleteDelete(r) \/ AbortDelete(r)
  PROVE  LedgerInv'
<1>u. PICK u : u = task[r].up
  OBVIOUS
<1>0. /\ task[r] \in Task /\ task[r].pc \in ClosedSteps /\ Become(r, Idle)
      /\ docs' = docs \ {u}
      /\ UNCHANGED <<reserved, plan, expired, sweep>>
  BY <1>u, TaskTyped DEF CompleteDelete, AbortDelete, At, Procs, ClosedSteps, Finish, accounts
<1>1. u # None
  BY <1>u, <1>0, TaskTyped, DriveAssumption
     DEF Fitted, Planned, UploadSteps, ClosedSteps, Procs
<1>2. Idle.up = None /\ Idle.pc = "idle"
  BY DEF Idle
<1>3. \A q \in Requests \ {r} : task[q].up # u
  BY <1>u, <1>1 DEF LedgerInv, Alone
<1>4. Alone(r, Idle.up)
  BY <1>2 DEF Alone
<1>5. \A q \in Requests : Alone(q, task[q].up)'
  BY <1>0, <1>4, AloneStep DEF LedgerInv
<1>6. \A q \in Requests : Settled(task[q], plan, docs)'
  BY <1>0, <1>2, <1>3, BecomeStep DEF LedgerInv, Settled, FinishSteps
<1>7. OpenUploads' = OpenUploads
  <2>1. \A q \in Requests, v \in docs \ {u} : Finishes(q, v)' <=> Finishes(q, v)
    BY <1>u, <1>0, <1>2, BecomeStep DEF Finishes
  <2>2. Finishes(r, u)
    BY <1>u, <1>0 DEF Finishes, ClosedSteps
  <2> QED BY <1>0, <2>1, <2>2 DEF OpenUploads
<1>8. Holders' = Holders /\ r \notin Holders
  BY <1>0, <1>2, HoldersStep DEF Holders, HoldSteps, ClosedSteps
<1>9. \A q \in Holders : task'[q].n = task[q].n
  BY <1>0, <1>8, BecomeStep DEF Holders
<1>10. HeldByUploads' = HeldByUploads /\ HeldByRequests' = HeldByRequests
  BY <1>0, <1>7, <1>8, <1>9, UploadsSame, RequestsSame
<1> QED BY <1>0, <1>5, <1>6, <1>10 DEF LedgerInv, ReservationLedger

---------------------------------------------------------------------------
(* All steps.                                                              *)

\* Between the first step of complete or abort and the release.
LEMMA LedgerFinishing ==
  ASSUME TypeInv, LedgerInv, NEW r \in Requests, NEW t, Become(r, t),
         task[r].pc \in FinishSteps \ ClosedSteps,
         t = Idle \/ (t.pc \in FinishSteps \ ClosedSteps /\ t.up = task[r].up),
         UNCHANGED <<reserved, plan, docs, expired, sweep>>
  PROVE  LedgerInv'
<1>1. FinishSteps \subseteq UploadSteps /\ (FinishSteps \ ClosedSteps) \cap HoldSteps = {}
      /\ "initSave" \notin FinishSteps /\ Idle.pc \notin FinishSteps \cup HoldSteps \cup ClosedSteps
      /\ Idle.pc # "initSave" /\ Idle.up = None
  BY DEF FinishSteps, ClosedSteps, UploadSteps, HoldSteps, Idle
<1>2. Settled(t, plan, docs) /\ Alone(r, t.up)
  BY <1>1 DEF LedgerInv, Settled, Alone
<1>3. {task[r].pc, t.pc} \cap (HoldSteps \cup ClosedSteps) = {}
  BY <1>1
<1> QED BY <1>2, <1>3, LedgerPlain

LEMMA LedgerInits ==
  ASSUME TypeInv, LedgerInv, Undisturbed, NEW r \in Requests, InitSteps(r)
  PROVE  LedgerInv'
<1>0. task[r] \in Task
  BY TaskTyped DEF Procs
<1>1. ASSUME NEW k \in Keys, NEW n \in Sizes, InitBegin(r, k, n) PROVE LedgerInv'
  <2> DEFINE t == [Idle EXCEPT !.pc = "initCheck", !.path = k, !.n = n, !.old = usedBytes]
  <2>1. Become(r, t) /\ t.pc = "initCheck" /\ t.up = None /\ task[r].pc = "idle"
    BY <1>1 DEF InitBegin, At, Idle
  <2> HIDE DEF t
  <2>2. UNCHANGED <<reserved, plan, docs, expired, sweep>>
    BY <1>1 DEF InitBegin, stores, accounts, uploads
  <2> QED BY <2>1, <2>2, LedgerOutside DEF UploadSteps, HoldSteps
<1>2. CASE InitCheck(r) \/ InitStat(r)
  <2>1. task[r].pc \in {"initCheck", "initStat"} /\ UNCHANGED <<reserved, plan, docs, expired, sweep>>
    BY <1>2 DEF InitCheck, InitStat, At, stores, accounts, uploads
  <2>2. PICK t : /\ Become(r, t)
                 /\ t.pc \in {"idle", "initStat", "initReserve"} /\ t.up \in {None, task[r].up}
    <3> DEFINE a == [task[r] EXCEPT !.pc = "initStat"]
               b == [task[r] EXCEPT !.pc = "initReserve",
                       !.old = Floor0(@ - bucket[task[r].path].size)]
               c == [task[r] EXCEPT !.pc = "initReserve"]
    <3>1. /\ Idle.pc = "idle" /\ Idle.up = None
          /\ a.pc = "initStat" /\ a.up = task[r].up
          /\ b.pc = "initReserve" /\ b.up = task[r].up
          /\ c.pc = "initReserve" /\ c.up = task[r].up
      BY <1>0 DEF Task, Idle
    <3>2. Become(r, Idle) \/ Become(r, a) \/ Become(r, b) \/ Become(r, c)
      BY <1>2 DEF InitCheck, InitStat, Goto, Finish
    <3> HIDE DEF a, b, c
    <3> QED BY <3>1, <3>2
  <2> QED BY <2>1, <2>2, LedgerOutside DEF UploadSteps, HoldSteps
<1> QED
  BY <1>1, <1>2, LedgerReserve, LedgerRefuse, LedgerMultipart, LedgerSave DEF InitSteps

LEMMA LedgerCompletes ==
  ASSUME TypeInv, LedgerInv, Undisturbed, NEW r \in Requests, CompleteSteps(r) \/ AbortSteps(r)
  PROVE  LedgerInv'
<1>0. task[r] \in Task
  BY TaskTyped DEF Procs
<1>1. ASSUME NEW u \in UploadIds, CompleteBegin(r, u) \/ AbortBegin(r, u) PROVE LedgerInv'
  <2> DEFINE a == [Idle EXCEPT !.pc = "completeStat", !.path = plan[u].key, !.up = u]
             b == [Idle EXCEPT !.pc = "abortS3", !.up = u]
  <2>1. \A t \in {a, b} : t.pc \in {"completeStat", "abortS3"} /\ t.up = u
    BY DEF Idle
  <2>2. Become(r, a) \/ Become(r, b)
    BY <1>1 DEF CompleteBegin, AbortBegin
  <2> HIDE DEF a, b
  <2>3. /\ u \in docs /\ task[r].pc = "idle" /\ \A q \in Requests : task[q].up # u
        /\ UNCHANGED <<reserved, plan, docs, expired, sweep>>
    BY <1>1 DEF CompleteBegin, AbortBegin, OnlyFinisher, Undisturbed, At, stores, accounts, uploads
  <2>4. PICK t \in {a, b} : Become(r, t)
    BY <2>2
  <2>5. Settled(t, plan, docs) /\ Alone(r, t.up)
    BY <2>1, <2>3 DEF Settled, Alone, UploadSteps
  <2> QED BY <2>1, <2>3, <2>4, <2>5, LedgerPlain DEF HoldSteps, ClosedSteps
<1>2. CASE \/ CompleteStat(r) \/ CompleteS3(r) \/ CompleteS3Error(r) \/ CompleteRestat(r)
           \/ CompleteUsed(r) \/ AbortS3(r)
  <2>1. /\ task[r].pc \in FinishSteps \ ClosedSteps
        /\ UNCHANGED <<reserved, plan, docs, expired, sweep>>
    BY <1>2 DEF CompleteStat, CompleteS3, CompleteS3Error, CompleteRestat, CompleteUsed, AbortS3,
       At, FinishSteps, ClosedSteps, stores, accounts, uploads
  <2> DEFINE next == {"completeS3", "completeRestat", "completeUsed", "completeRelease",
                      "abortRelease"}
             a == [task[r] EXCEPT !.pc = "completeS3", !.old = bucket[task[r].path].size]
             b == [task[r] EXCEPT !.pc = "completeUsed", !.obj = bucket[task[r].path]]
             c(pc) == [task[r] EXCEPT !.pc = pc]
  <2>2. /\ a.pc \in next /\ a.up = task[r].up
        /\ b.pc \in next /\ b.up = task[r].up
        /\ \A pc \in next : c(pc).pc = pc /\ c(pc).up = task[r].up
    BY <1>0 DEF Task
  <2>3. Become(r, Idle) \/ Become(r, a) \/ Become(r, b) \/ \E pc \in next : Become(r, c(pc))
    BY <1>2 DEF CompleteStat, CompleteS3, CompleteS3Error, CompleteRestat, CompleteUsed, AbortS3,
       Goto, Finish
  <2>4. next \subseteq FinishSteps \ ClosedSteps
    BY DEF FinishSteps, ClosedSteps
  <2> HIDE DEF a, b, c, next
  <2>5. PICK t : Become(r, t) /\ (t = Idle \/ (t.pc \in next /\ t.up = task[r].up))
    BY <2>2, <2>3
  <2> QED BY <2>1, <2>4, <2>5, LedgerFinishing
<1> QED
  BY <1>1, <1>2, LedgerRelease, LedgerDelete DEF CompleteSteps, AbortSteps

LEMMA LedgerFiles ==
  ASSUME TypeInv, LedgerInv, NEW r \in Requests,
         DeleteSteps(r) \/ RecomputeSteps(r) \/ RenameSteps(r)
  PROVE  LedgerInv'
<1>0. task[r] \in Task
  BY TaskTyped DEF Procs
<1> DEFINE FileSteps == Steps \ (UploadSteps \cup HoldSteps)
<1>1. /\ task[r].pc \in FileSteps
      /\ UNCHANGED <<reserved, plan, docs, expired, sweep>>
  <2>1. CASE DeleteSteps(r) \/ RecomputeSteps(r)
    BY <1>0, <2>1 DEF DeleteSteps, DeleteBegin, DeleteList, DeleteRemove, DeleteError, DeleteUsed,
       RecomputeSteps, RecomputeList, RecomputeSet, At, Task, UploadSteps, HoldSteps,
       stores, accounts, uploads
  <2>2. CASE RenameSteps(r)
    BY <1>0, <2>2 DEF RenameSteps, RenameBegin, RenameCheck, RenameCollide, RenameMark, RenameCopy,
       RenameCopied, RenameRemove, RenamePublish, RenameUnmark, At, Task, UploadSteps, HoldSteps,
       stores, accounts, uploads
  <2> QED BY <2>1, <2>2
<1> DEFINE Outside(t) == t.pc \notin UploadSteps \cup HoldSteps /\ t.up \in {None, task[r].up}
<1>2. Outside(Idle) /\ \A pc \in {"renameCollide", "renameMark", "renameCopy", "renameRemove",
                                "renamePublish", "renameUnmark"} : Outside([task[r] EXCEPT !.pc = pc])
  BY <1>0 DEF Task, Idle, UploadSteps, HoldSteps
<1>3. ASSUME NEW path \in Paths, NEW to \in Paths, DeleteBegin(r, path) \/ RenameBegin(r, path, to)
      PROVE  \E t : Become(r, t) /\ Outside(t)
  <2> DEFINE a == [Idle EXCEPT !.pc = "deleteList", !.path = path]
             b == [Idle EXCEPT !.pc = "renameCheck", !.path = path, !.to = to,
                               !.todo = FilesAt(path)]
  <2>1. Outside(a) /\ Outside(b)
    BY DEF Idle, UploadSteps, HoldSteps
  <2>2. Become(r, a) \/ Become(r, b)
    BY <1>3 DEF DeleteBegin, RenameBegin
  <2> HIDE DEF a, b, Outside
  <2> QED BY <2>1, <2>2
<1>4. CASE DeleteList(r) \/ RecomputeList(r)
  <2> DEFINE found == FilesAt(task[r].path)
             a == [task[r] EXCEPT !.pc = "deleteRemove", !.todo = found, !.n = BytesIn(found)]
             b == [Idle EXCEPT !.pc = "recomputeSet", !.n = BytesIn(Keys)]
  <2>1. Outside(a) /\ Outside(b)
    BY <1>0 DEF Task, Idle, UploadSteps, HoldSteps
  <2>2. Become(r, a) \/ Become(r, b) \/ Become(r, Idle)
    BY <1>4 DEF DeleteList, RecomputeList, Finish
  <2> HIDE DEF a, b, Outside
  <2>3. \E t : Become(r, t) /\ Outside(t)
    BY <1>2, <2>1, <2>2
  <2> QED BY <1>1, <2>3, LedgerOutside DEF Outside
<1>5. ASSUME NEW k \in Keys, DeleteRemove(r, k) \/ RenameCopy(r, k) \/ RenameRemove(r, k)
      PROVE  \E t : Become(r, t) /\ Outside(t)
  <2> DEFINE a == [task[r] EXCEPT !.todo = @ \ {k}]
             b == [task[r] EXCEPT !.todo = @ \ {k}, !.failed = TRUE]
             c == [task[r] EXCEPT !.todo = @ \ {k}, !.done = @ \cup {k}]
             d == [task[r] EXCEPT !.done = @ \ {k}]
  <2>1. Outside(a) /\ Outside(b) /\ Outside(c) /\ Outside(d)
    BY <1>0, <1>1 DEF Task
  <2>2. Become(r, a) \/ Become(r, b) \/ Become(r, c) \/ Become(r, d)
    BY <1>5 DEF DeleteRemove, RenameCopy, RenameRemove
  <2> HIDE DEF a, b, c, d, Outside
  <2> QED BY <2>1, <2>2
<1>6. CASE DeleteError(r) \/ DeleteUsed(r) \/ RecomputeSet(r) \/ RenameUnmark(r)
  <2>1. Become(r, Idle)
    BY <1>6 DEF DeleteError, DeleteUsed, RecomputeSet, RenameUnmark, Finish
  <2> QED BY <1>1, <1>2, <2>1, LedgerOutside
<1>7. CASE RenameCheck(r) \/ RenameCollide(r) \/ RenameMark(r) \/ RenameCopied(r) \/ RenamePublish(r)
  <2>1. \/ Become(r, Idle)
        \/ \E pc \in {"renameCollide", "renameMark", "renameCopy", "renameRemove",
                      "renamePublish", "renameUnmark"} : Goto(r, pc)
    BY <1>7 DEF RenameCheck, RenameCollide, RenameMark, RenameCopied, RenamePublish, Finish
  <2>2. \E t : Become(r, t) /\ Outside(t)
    <3> HIDE DEF Outside
    <3> QED BY <1>2, <2>1 DEF Goto
  <2> QED BY <1>1, <2>2, LedgerOutside DEF Outside
<1>8. ASSUME \E t : Become(r, t) /\ Outside(t) PROVE LedgerInv'
  BY <1>1, <1>8, LedgerOutside DEF Outside
<1> HIDE DEF Outside
<1> QED
  BY <1>3, <1>4, <1>5, <1>6, <1>7, <1>8 DEF DeleteSteps, RecomputeSteps, RenameSteps

LEMMA LedgerOthers ==
  ASSUME TypeInv, LedgerInv, Undisturbed,
         \/ \E w \in Workers : PackSteps(w)
         \/ SweepSteps \/ (\E u \in UploadIds : Expire(u)) \/ Restart \/ UNCHANGED vars
  PROVE  LedgerInv'
<1>1. ASSUME NEW w \in Workers, PackSteps(w) PROVE LedgerInv'
  <2>1. UNCHANGED <<reserved, plan, docs, expired, sweep>>
    BY <1>1 DEF PackSteps, Dequeue, PackCheck, PackDiskFull, PackMark, PackLoad, Pack, PackNothing,
       PackRequeue, PackStat, PackPut, PackUsed, PackUnmark, stores, accounts, uploads
  <2>2. \E t : Become(w, t)
    BY <1>1 DEF PackSteps, Dequeue, PackCheck, PackDiskFull, PackMark, PackLoad, Pack, PackNothing,
       PackRequeue, PackStat, PackPut, PackUsed, PackUnmark, Goto, Finish
  <2>3. \A r \in Requests : task'[r] = task[r]
    BY <2>2, DriveAssumption DEF Become, TypeInv, TypeOK, Procs
  <2> QED BY <2>1, <2>3, LedgerElsewhere
<1>2. ~SweepSteps
  BY DEF LedgerInv, SweepSteps, SweepBegin, SweepAbort, SweepDelete, NoSweep
<1>3. ~Restart /\ \A u \in UploadIds : ~Expire(u)
  BY DEF Undisturbed, Restart, Expire
<1>4. CASE UNCHANGED vars
  BY <1>4, LedgerElsewhere DEF vars
<1> QED BY <1>1, <1>2, <1>3, <1>4

LEMMA LedgerInit == Init => LedgerInv
<1> SUFFICES ASSUME Init PROVE LedgerInv
  OBVIOUS
<1>1. \A r \in Requests : task[r] = Idle
  BY DEF Init, Procs
<1>2. Idle.pc = "idle" /\ Idle.up = None
  BY DEF Idle
<1>3. \A r \in Requests : Settled(task[r], plan, docs) /\ Alone(r, task[r].up)
  BY <1>1, <1>2 DEF Settled, Alone, FinishSteps
<1>4. OpenUploads = {} /\ Holders = {}
  BY <1>1, <1>2 DEF OpenUploads, Holders, Init
<1>5. HeldByUploads = 0 /\ HeldByRequests = 0
  BY <1>4, FS_EmptySet DEF HeldByUploads, HeldByRequests, TotalBytes, Tokens
<1> QED BY <1>3, <1>5 DEF Init, LedgerInv, ReservationLedger

LEMMA LedgerNext ==
  ASSUME Undisturbed
  PROVE  TypeInv /\ LedgerInv /\ [Next]_vars => LedgerInv'
BY LedgerInits, LedgerCompletes, LedgerFiles, LedgerOthers DEF Next, RequestSteps

\* As long as no two requests finish one upload, none expires, every document
\* is saved and the process stays up, the bytes reserved are at each step the
\* sizes of the uploads that are open or being opened, for any number of
\* requests and whichever calls to MinIO fail or lose their reply.
THEOREM ReservationsBalance == Undisturbed => (Spec => []ReservationLedger)
<1> SUFFICES ASSUME Undisturbed PROVE Spec => []ReservationLedger
  OBVIOUS
<1>1. TypeInv /\ LedgerInv /\ [Next]_vars => LedgerInv'
  BY LedgerNext
<1>2. LedgerInv => ReservationLedger
  BY DEF LedgerInv
<1> QED
  BY <1>1, <1>2, InitType, NextType, LedgerInit, PTL DEF Spec


---------------------------------------------------------------------------
(* Sums of sums, and sums of which one term changes.                       *)

\* Sums over disjoint parts of a set come to no more than the sum over it.
LEMMA SumOfParts ==
  ASSUME NEW K, IsFiniteSet(K), NEW f \in [K -> Nat], NEW P, IsFiniteSet(P),
         NEW part \in [P -> SUBSET K],
         \A p, q \in P : p # q => part[p] \cap part[q] = {}
  PROVE  TotalBytes([p \in P |-> TotalBytes([k \in part[p] |-> f[k]])]) <= TotalBytes(f)
<1> DEFINE g == [p \in P |-> [k \in part[p] |-> f[k]]]
           sums == [p \in P |-> TotalBytes(g[p])]
           fits(p, h) == h \in Injection(1..sums[p], Tokens(g[p]))
<1>1. ASSUME NEW p \in P
      PROVE  /\ sums[p] \in Nat /\ \E h : fits(p, h)
             /\ \A z \in Tokens(g[p]) : z \in Tokens(f) /\ z[1] \in part[p]
  <2>1. IsFiniteSet(part[p]) /\ g[p] \in [part[p] -> Nat] /\ part[p] \subseteq K
    BY FS_Subset
  <2>2. IsFiniteSet(Tokens(g[p])) /\ sums[p] = Cardinality(Tokens(g[p]))
    BY <2>1, TokensFinite DEF TotalBytes
  <2>3. sums[p] \in Nat /\ ExistsBijection(1..sums[p], Tokens(g[p]))
    BY <2>2, FS_CardinalityType
  <2>4. \E h : fits(p, h)
    BY <2>3 DEF ExistsBijection, Bijection
  <2>5. \A k \in part[p] : g[p][k] = f[k]
    OBVIOUS
  <2> HIDE DEF g
  <2>6. \A z \in Tokens(g[p]) : z \in Tokens(f) /\ z[1] \in part[p]
    BY <2>1, <2>5 DEF Tokens, TokensOf
  <2> QED BY <2>3, <2>4, <2>6
<1> HIDE DEF g
<1> DEFINE pick == [p \in P |-> CHOOSE h : fits(p, h)]
           map == [z \in Tokens(sums) |-> pick[z[1]][z[2]]]
<1>2. \A p \in P : fits(p, pick[p])
  BY <1>1
<1>3. \A z \in Tokens(sums) : z = <<z[1], z[2]>> /\ z[1] \in P /\ z[2] \in 1..sums[z[1]]
  <2>1. DOMAIN sums = P
    OBVIOUS
  <2> HIDE DEF sums
  <2> QED BY <2>1 DEF Tokens, TokensOf
<1> HIDE DEF pick, sums
<1>4. map \in Injection(Tokens(sums), Tokens(f))
  <2>1. ASSUME NEW z \in Tokens(sums)
        PROVE  map[z] \in Tokens(g[z[1]]) /\ map[z] \in Tokens(f) /\ map[z][1] \in part[z[1]]
    BY <1>1, <1>2, <1>3 DEF Injection
  <2>2. ASSUME NEW y \in Tokens(sums), NEW z \in Tokens(sums), map[y] = map[z]
        PROVE  y = z
    <3>1. y[1] = z[1]
      BY <1>3, <2>1, <2>2
    <3>2. IsInjective(pick[y[1]]) /\ DOMAIN pick[y[1]] = 1..sums[y[1]]
      BY <1>2, <1>3 DEF Injection
    <3>3. pick[y[1]][y[2]] = pick[y[1]][z[2]]
      BY <2>2, <3>1
    <3>4. y[2] = z[2]
      BY <1>3, <3>1, <3>2, <3>3 DEF IsInjective
    <3> QED BY <1>3, <3>1, <3>4
  <2> QED BY <2>1, <2>2 DEF Injection, IsInjective
<1>5. IsFiniteSet(Tokens(f))
  BY TokensFinite
<1>6. Cardinality(Tokens(sums)) <= Cardinality(Tokens(f))
  BY <1>4, <1>5, FS_Injection
<1> QED
  BY <1>6 DEF TotalBytes, sums, g

LEMMA SumChange ==
  ASSUME NEW S, IsFiniteSet(S), NEW f \in [S -> Nat], NEW g \in [S -> Nat], NEW x \in S,
         \A y \in S \ {x} : g[y] = f[y]
  PROVE  /\ TotalBytes(g) + f[x] = TotalBytes(f) + g[x]
         /\ TotalBytes(f) - f[x] \in Nat
<1> DEFINE rest == [y \in S \ {x} |-> f[y]]
<1>1. rest = [y \in S \ {x} |-> g[y]]
  OBVIOUS
<1>2. IsFiniteSet(S \ {x}) /\ rest \in [S \ {x} -> Nat]
  BY FS_RemoveElement
<1>3. TotalBytes(f) = f[x] + TotalBytes(rest)
  BY TotalBytesSplit
<1>4. TotalBytes(g) = g[x] + TotalBytes(rest)
  BY <1>1, TotalBytesSplit
<1>5. TotalBytes(rest) \in Nat /\ f[x] \in Nat /\ g[x] \in Nat
  BY <1>2, TotalBytesType
<1> HIDE DEF rest
<1> QED BY <1>3, <1>4, <1>5

LEMMA SumOfNothing ==
  ASSUME NEW S, NEW f \in [S -> Nat], \A x \in S : f[x] = 0
  PROVE  TotalBytes(f) = 0
<1>1. Tokens(f) = {}
  BY DEF Tokens, TokensOf
<1> QED
  BY <1>1, FS_EmptySet DEF TotalBytes

LEMMA BytesTyped ==
  ASSUME TypeInv, NEW S \in SUBSET Keys
  PROVE  /\ IsFiniteSet(S) /\ [k \in S |-> bucket[k].size] \in [S -> Nat]
         /\ BytesIn(S) \in Nat /\ BytesIn({}) = 0
<1>1. IsFiniteSet(Keys)
  BY DriveAssumption, FS_Product DEF Keys
<1>2. IsFiniteSet(S)
  BY <1>1, FS_Subset
<1>3. [k \in S |-> bucket[k].size] \in [S -> Nat]
  BY DEF TypeInv, TypeOK, StoresOK, Object
<1>4. BytesIn({}) = 0
  <2> DEFINE f == [k \in {} |-> bucket[k].size]
  <2>1. f \in [{} -> Nat]
    OBVIOUS
  <2>2. BytesIn({}) = TotalBytes(f)
    BY DEF BytesIn
  <2> HIDE DEF f
  <2> QED BY <2>1, <2>2, SumOfNothing
<1> QED
  BY <1>2, <1>3, <1>4, TotalBytesType DEF BytesIn

\* A key that goes, or comes.
LEMMA BytesSplit ==
  ASSUME TypeInv, NEW S \in SUBSET Keys, NEW k \in S
  PROVE  BytesIn(S) = bucket[k].size + BytesIn(S \ {k}) /\ bucket[k].size \in Nat
<1> DEFINE f == [j \in S |-> bucket[j].size]
<1>1. IsFiniteSet(S) /\ f \in [S -> Nat]
  BY BytesTyped
<1>2. [j \in S \ {k} |-> f[j]] = [j \in S \ {k} |-> bucket[j].size] /\ f[k] = bucket[k].size
  OBVIOUS
<1> HIDE DEF f
<1>3. TotalBytes(f) = f[k] + TotalBytes([j \in S \ {k} |-> f[j]])
  BY <1>1, TotalBytesSplit
<1> QED
  BY <1>1, <1>2, <1>3 DEF BytesIn, f

LEMMA BytesSame ==
  ASSUME NEW S, \A k \in S : bucket'[k].size = bucket[k].size
  PROVE  BytesIn(S)' = BytesIn(S)
<1>1. [k \in S |-> bucket[k].size]' = [k \in S |-> bucket[k].size]
  OBVIOUS
<1> QED
  BY <1>1 DEF BytesIn

LEMMA BytesOfOne ==
  ASSUME TypeInv, NEW k \in Keys
  PROVE  BytesIn({k}) = bucket[k].size
<1>1. BytesIn({k}) = bucket[k].size + BytesIn({k} \ {k}) /\ bucket[k].size \in Nat
  BY BytesSplit
<1>2. {k} \ {k} = {}
  OBVIOUS
<1>3. BytesIn({}) = 0
  BY BytesTyped
<1> QED
  BY <1>1, <1>2, <1>3

\* One object changes.
LEMMA BytesChange ==
  ASSUME TypeInv, TypeInv', NEW k \in Keys, \A j \in Keys \ {k} : bucket'[j] = bucket[j]
  PROVE  BytesIn(Keys)' = BytesIn(Keys) - bucket[k].size + bucket'[k].size
<1> DEFINE f == [j \in Keys |-> bucket[j].size]
           g == [j \in Keys |-> bucket'[j].size]
<1>1. IsFiniteSet(Keys) /\ f \in [Keys -> Nat]
  BY BytesTyped
<1>2. g \in [Keys -> Nat]
  BY DEF TypeInv, TypeOK, StoresOK, Object
<1>3. BytesIn(Keys) = TotalBytes(f) /\ BytesIn(Keys)' = TotalBytes(g)
  BY DEF BytesIn
<1>4. f[k] = bucket[k].size /\ g[k] = bucket'[k].size /\ \A j \in Keys \ {k} : g[j] = f[j]
  OBVIOUS
<1> HIDE DEF f, g
<1>5. TotalBytes(g) + f[k] = TotalBytes(f) + g[k] /\ f[k] \in Nat /\ g[k] \in Nat
  BY <1>1, <1>2, <1>4, SumChange
<1>6. TotalBytes(f) \in Nat /\ TotalBytes(g) \in Nat
  BY <1>1, <1>2, TotalBytesType
<1> QED
  BY <1>3, <1>4, <1>5, <1>6

---------------------------------------------------------------------------
(* What the tasks have yet to count, as sums over keys.                    *)

Replacing == {"completeRestat", "completeUsed", "packUsed"}
Copying   == {"renameCopy", "renameRemove"}

\* The keys whose objects are in the bucket and not in usedBytes.
GainKeys(t) == IF t.pc \in Copying THEN t.done
               ELSE IF t.pc \in Replacing THEN {t.path} ELSE {}
GainsKnown ==
  \A p \in Procs : /\ GainKeys(task[p]) \in SUBSET Keys
                   /\ Gained(p) = BytesIn(GainKeys(task[p])) /\ Gained(p) \in Nat

LossOf(t) == IF t.pc = "deleteRemove" THEN t.n - BytesIn(t.todo)
             ELSE IF t.pc = "packUsed" THEN t.n
             ELSE IF t.pc \in {"completeRestat", "completeUsed"} THEN t.old ELSE 0
LossesKnown == \A p \in Procs : Lost(p) = LossOf(task[p]) /\ Lost(p) \in Nat

\* What a task has read of the sizes that it will replace or remove.
Accounted(t) ==
  /\ t.pc = "completeS3" => t.old = bucket[t.path].size
  /\ t.pc = "deleteRemove" => BytesIn(t.todo) <= t.n
AllAccounted == \A p \in Procs : Accounted(task[p])

LEMMA GainedCases ==
  ASSUME NEW p
  PROVE  /\ task[p].pc = "completeRestat" => Gained(p) = plan[task[p].up].size
         /\ task[p].pc = "completeUsed" => Gained(p) = task[p].obj.size
         /\ task[p].pc \in Copying => Gained(p) = BytesIn(task[p].done)
         /\ task[p].pc = "packUsed" => Gained(p) = task[p].old
         /\ task[p].pc \notin Copying \cup Replacing => Gained(p) = 0
BY DEF Gained, Copying, Replacing

LEMMA LostCases ==
  ASSUME NEW p
  PROVE  Lost(p) = LossOf(task[p])
BY DEF Lost, LossOf

LEMMA GainsAreKnown == TypeInv /\ FilesInv => GainsKnown
<1> SUFFICES ASSUME TypeInv, FilesInv, NEW p \in Procs
             PROVE  GainKeys(task[p]) \in SUBSET Keys /\ Gained(p) = BytesIn(GainKeys(task[p]))
  BY BytesInTyped DEF GainsKnown
<1>0. task[p] \in Task /\ Fitted(task[p], plan) /\ Sound(task[p])
  BY TaskTyped DEF FilesInv, AllSound
<1>1. CASE task[p].pc \in Copying
  BY <1>0, <1>1, GainedCases DEF GainKeys, Task
<1>2. CASE task[p].pc \in Replacing
  <2>1. GainKeys(task[p]) = {task[p].path} /\ task[p].path \in Keys
    BY <1>0, <1>2 DEF GainKeys, Copying, Replacing, Fitted, KeySteps
  <2>2. Gained(p) = bucket[task[p].path].size
    <3>1. CASE task[p].pc = "completeRestat"
      BY <1>0, <3>1, GainedCases DEF Sound, CompleteSound, Uploaded
    <3>2. CASE task[p].pc = "completeUsed"
      BY <1>0, <3>2, GainedCases DEF Sound, CompleteSound
    <3>3. CASE task[p].pc = "packUsed"
      BY <1>0, <3>3, GainedCases DEF Sound, PackSound, Packed
    <3> QED BY <1>2, <3>1, <3>2, <3>3 DEF Replacing
  <2> QED BY <2>1, <2>2, BytesOfOne
<1>3. CASE task[p].pc \notin Copying \cup Replacing
  BY <1>3, GainedCases, BytesTyped DEF GainKeys
<1> QED
  BY <1>1, <1>2, <1>3

LEMMA LossesAreKnown == TypeInv /\ AllAccounted => LossesKnown
<1> SUFFICES ASSUME TypeInv, AllAccounted, NEW p \in Procs
             PROVE  Lost(p) = LossOf(task[p]) /\ LossOf(task[p]) \in Nat
  BY DEF LossesKnown
<1>1. task[p].todo \in SUBSET Keys /\ task[p].n \in Nat /\ task[p].old \in Nat
  BY TaskTyped DEF Task
<1>2. BytesIn(task[p].todo) \in Nat
  BY <1>1, BytesTyped
<1> QED
  BY <1>1, <1>2, LostCases DEF LossOf, AllAccounted, Accounted

LEMMA GainPlaces ==
  ASSUME TypeInv, FilesInv, NEW o \in Procs, NEW k \in GainKeys(task[o])
  PROVE  /\ task[o].pc \in Working \ {"renameCheck", "renameCollide"} /\ ~Emptied(task[o])
         /\ k \in Tree(task[o].path) /\ task[o].path \in Places /\ k \in Keys /\ k \in Zone(task[o])
<1>1. task[o] \in Task /\ Fitted(task[o], plan) /\ Sound(task[o])
  BY TaskTyped DEF FilesInv, AllSound
<1>2. CASE task[o].pc \in Copying
  BY <1>1, <1>2 DEF Copying, GainKeys, Sound, RenameSound, FilesAt, Tree, Emptied, Working,
     MoveSteps, RenamingSteps, Task, Places, Zone
<1>3. CASE task[o].pc \in Replacing
  <2>1. k = task[o].path /\ task[o].path \in Keys
    BY <1>1, <1>3 DEF Copying, Replacing, GainKeys, Fitted, KeySteps
  <2> QED
    BY <1>1, <1>3, <2>1 DEF Replacing, Tree, Emptied, Working, MoveSteps, JobSteps, Task, Places, Zone
<1> QED BY <1>2, <1>3 DEF GainKeys

\* Tasks gain different keys.
LEMMA GainsApart ==
  ASSUME TypeInv, FilesInv, NEW p \in Procs, NEW q \in Procs \ {p}
  PROVE  GainKeys(task[p]) \cap GainKeys(task[q]) = {}
<1> SUFFICES ASSUME NEW k \in GainKeys(task[p]), k \in GainKeys(task[q]) PROVE FALSE
  OBVIOUS
<1>2. /\ task[p].pc \in Working \ {"renameCheck", "renameCollide"} /\ ~Emptied(task[p])
      /\ k \in Tree(task[p].path) /\ task[p].path \in Places
      /\ task[q].pc \in Working \ {"renameCheck", "renameCollide"} /\ ~Emptied(task[q])
      /\ k \in Tree(task[q].path) /\ task[q].path \in Places
  BY GainPlaces
<1>3. Clear(task[p], task[q])
  BY <1>2 DEF FilesInv, Exclusive, Separated, Late
<1> QED
  BY <1>2, <1>3, TreesApart DEF Clear

\* All of it is in the bucket.
LEMMA GainsBounded ==
  ASSUME TypeInv, FilesInv
  PROVE  /\ IsFiniteSet(Procs) /\ [p \in Procs |-> Gained(p)] \in [Procs -> Nat]
         /\ TotalBytes([p \in Procs |-> Gained(p)]) <= BytesIn(Keys)
<1> DEFINE f == [k \in Keys |-> bucket[k].size]
           part == [p \in Procs |-> GainKeys(task[p])]
           sums == [p \in Procs |-> TotalBytes([k \in part[p] |-> f[k]])]
<1>1. GainsKnown
  BY GainsAreKnown
<1>2. IsFiniteSet(Procs)
  BY DriveAssumption, FS_Union DEF Procs
<1>3. IsFiniteSet(Keys) /\ f \in [Keys -> Nat]
  BY BytesTyped
<1>4. part \in [Procs -> SUBSET Keys]
  BY <1>1 DEF GainsKnown
<1>5. \A p, q \in Procs : p # q => part[p] \cap part[q] = {}
  BY GainsApart
<1>6. ASSUME NEW p \in Procs PROVE sums[p] = Gained(p) /\ Gained(p) \in Nat
  <2>1. part[p] = GainKeys(task[p]) /\ part[p] \subseteq Keys
    BY <1>4
  <2>2. [k \in part[p] |-> f[k]] = [k \in GainKeys(task[p]) |-> bucket[k].size]
    BY <2>1
  <2> HIDE DEF part, f
  <2> QED BY <1>1, <2>1, <2>2, BytesInTyped DEF GainsKnown, BytesIn
<1> HIDE DEF part, f
<1>7. sums = [p \in Procs |-> Gained(p)]
  BY <1>6
<1>8. TotalBytes(sums) <= TotalBytes(f)
  BY <1>2, <1>3, <1>4, <1>5, SumOfParts
<1>9. TotalBytes(f) = BytesIn(Keys)
  BY DEF f, BytesIn
<1> QED
  BY <1>2, <1>6, <1>7, <1>8, <1>9

\* The same after a step.
LEMMA GainsNext == TypeInv' /\ FilesInv' => GainsKnown'
BY GainsAreKnown, PTL

LEMMA LossesNext == TypeInv' /\ AllAccounted' => LossesKnown'
BY LossesAreKnown, PTL

LEMMA LostNext ==
  ASSUME NEW p
  PROVE  Lost(p)' = LossOf(task[p])'
BY DEF Lost, LossOf

LEMMA GainedNext ==
  ASSUME NEW p
  PROVE  /\ task'[p].pc = "completeRestat" => Gained(p)' = plan'[task'[p].up].size
         /\ task'[p].pc = "completeUsed" => Gained(p)' = task'[p].obj.size
         /\ task'[p].pc \in Copying => Gained(p)' = BytesIn(task[p].done)'
         /\ task'[p].pc = "packUsed" => Gained(p)' = task'[p].old
         /\ task'[p].pc \notin Copying \cup Replacing => Gained(p)' = 0
BY DEF Gained, Copying, Replacing

LEMMA AllBytesTyped == TypeInv => BytesIn(Keys) \in Nat
BY BytesInTyped

LEMMA AllBytesNext == TypeInv' => BytesIn(Keys)' \in Nat
<1>1. TypeInv' => (BytesIn(Keys) \in Nat)'
  BY AllBytesTyped, PTL
<1> QED BY <1>1

\* What a task has gained is in usedBytes already, or will not be missed.
LEMMA UsageCovers ==
  ASSUME TypeInv, FilesInv, AllAccounted, UsageLedger, NEW p \in Procs
  PROVE  /\ usedBytes \in Nat /\ Gained(p) \in Nat /\ Lost(p) \in Nat
         /\ usedBytes + Gained(p) - Lost(p) >= 0
<1> DEFINE g == [q \in Procs |-> Gained(q)]
           l == [q \in Procs |-> Lost(q)]
<1>1. GainsKnown /\ LossesKnown
  BY GainsAreKnown, LossesAreKnown
<1>2. IsFiniteSet(Procs) /\ g \in [Procs -> Nat] /\ TotalBytes(g) <= BytesIn(Keys)
  BY GainsBounded
<1>3. l \in [Procs -> Nat] /\ l[p] = Lost(p) /\ g[p] = Gained(p)
  BY <1>1 DEF LossesKnown
<1>4. usedBytes + TotalBytes(g) = BytesIn(Keys) + TotalBytes(l)
  BY DEF UsageLedger
<1> HIDE DEF g, l
<1>5. TotalBytes(l) - l[p] \in Nat
  BY <1>2, <1>3, SumChange
<1>6. TotalBytes(g) \in Nat /\ TotalBytes(l) \in Nat /\ BytesIn(Keys) \in Nat /\ usedBytes \in Nat
      /\ g[p] \in Nat /\ l[p] \in Nat
  BY <1>2, <1>3, TotalBytesType, BytesInTyped DEF TypeInv, TypeOK, StoresOK
<1> QED
  BY <1>2, <1>3, <1>4, <1>5, <1>6

---------------------------------------------------------------------------
(* A step of one task.                                                     *)

WritesOnly(p) == \A k \in Keys : bucket'[k] # bucket[k] => Writing(task[p], k)

LEMMA OthersCount ==
  ASSUME TypeInv, FilesInv, AllAccounted, TypeInv', FilesInv',
         NEW p \in Procs, \E t : Become(p, t), WritesOnly(p), NEW q \in Procs \ {p}
  PROVE  Gained(q)' = Gained(q) /\ Lost(q)' = Lost(q) /\ Accounted(task[q])'
<1>0. task'[q] = task[q] /\ task[q] \in Task /\ Fitted(task[q], plan) /\ Sound(task[q])
  BY OthersKept, TaskTyped DEF FilesInv, AllSound
<1>1. ASSUME NEW k \in Keys, task[q].pc \in Working, k \in Zone(task[q]) PROVE bucket'[k] = bucket[k]
  BY <1>1, WritesElsewhere DEF WritesOnly, FilesInv
<1>2. GainsKnown' /\ GainsKnown
  BY GainsAreKnown, GainsNext
<1>3. GainKeys(task[q])' = GainKeys(task[q])
  BY <1>0 DEF GainKeys
<1>4. BytesIn(GainKeys(task[q]))' = BytesIn(GainKeys(task[q]))
  <2> DEFINE S == GainKeys(task[q])
  <2>1. \A k \in S : bucket'[k] = bucket[k]
    BY <1>1, GainPlaces
  <2>2. [k \in S |-> bucket[k].size]' = [k \in S |-> bucket[k].size]
    BY <1>3, <2>1
  <2> QED BY <2>2 DEF BytesIn
<1>5. Gained(q)' = Gained(q)
  BY <1>2, <1>4 DEF GainsKnown
<1>6. task[q].pc = "deleteRemove" => BytesIn(task[q].todo)' = BytesIn(task[q].todo)
  <2> SUFFICES ASSUME task[q].pc = "deleteRemove" PROVE BytesIn(task[q].todo)' = BytesIn(task[q].todo)
    OBVIOUS
  <2>1. \A k \in task[q].todo : k \in Keys /\ k \in Zone(task[q]) /\ task[q].pc \in Working
    BY <1>0 DEF Sound, DeleteSound, FilesAt, Tree, Zone, Emptied, Working
  <2>2. \A k \in task[q].todo : bucket'[k] = bucket[k]
    BY <1>1, <2>1
  <2>3. [k \in task[q].todo |-> bucket[k].size]' = [k \in task[q].todo |-> bucket[k].size]
    BY <1>0, <2>2
  <2> QED BY <2>3 DEF BytesIn
<1>7. Lost(q)' = Lost(q)
  BY <1>0, <1>6, LostCases, LostNext DEF LossOf
<1>8. task[q].pc = "completeS3" => bucket'[task[q].path] = bucket[task[q].path]
  BY <1>0, <1>1 DEF Fitted, KeySteps, Zone, Emptied, Working, Tree
<1>9. Accounted(task[q])'
  BY <1>0, <1>6, <1>8 DEF AllAccounted, Accounted
<1> QED
  BY <1>5, <1>7, <1>9

\* What the step of a task has to show.
Balances(p) ==
  /\ \E t : Become(p, t)
  /\ WritesOnly(p) /\ Accounted(task[p])'
  /\ usedBytes' + Gained(p)' + BytesIn(Keys) + Lost(p)
       = usedBytes + Gained(p) + BytesIn(Keys)' + Lost(p)'

LEMMA UsageStep ==
  ASSUME TypeInv, FilesInv, AllAccounted, UsageLedger, TypeInv', FilesInv',
         NEW p \in Procs, Balances(p)
  PROVE  UsageLedger' /\ AllAccounted'
<1> DEFINE g == [q \in Procs |-> Gained(q)]
           l == [q \in Procs |-> Lost(q)]
           gg == [q \in Procs |-> Gained(q)']
           ll == [q \in Procs |-> Lost(q)']
<1>1. \A q \in Procs \ {p} : Gained(q)' = Gained(q) /\ Lost(q)' = Lost(q) /\ Accounted(task[q])'
  BY OthersCount DEF Balances
<1>2. AllAccounted'
  BY <1>1 DEF AllAccounted, Balances
<1>3. GainsKnown /\ LossesKnown /\ GainsKnown' /\ LossesKnown'
  BY <1>2, GainsAreKnown, LossesAreKnown, GainsNext, LossesNext
<1>4. /\ g \in [Procs -> Nat] /\ l \in [Procs -> Nat]
      /\ gg \in [Procs -> Nat] /\ ll \in [Procs -> Nat]
  BY <1>3 DEF GainsKnown, LossesKnown
<1>5. /\ g[p] = Gained(p) /\ l[p] = Lost(p) /\ gg[p] = Gained(p)' /\ ll[p] = Lost(p)'
      /\ \A q \in Procs \ {p} : gg[q] = g[q] /\ ll[q] = l[q]
  BY <1>1
<1>6. usedBytes + TotalBytes(g) = BytesIn(Keys) + TotalBytes(l)
  BY DEF UsageLedger
<1>7. UsageLedger' <=> usedBytes' + TotalBytes(gg) = BytesIn(Keys)' + TotalBytes(ll)
  BY DEF UsageLedger
<1> HIDE DEF g, l, gg, ll
<1>8. IsFiniteSet(Procs)
  BY GainsBounded
<1>9. /\ TotalBytes(gg) + g[p] = TotalBytes(g) + gg[p]
      /\ TotalBytes(ll) + l[p] = TotalBytes(l) + ll[p]
  BY <1>4, <1>5, <1>8, SumChange
<1>10. /\ TotalBytes(g) \in Nat /\ TotalBytes(l) \in Nat /\ TotalBytes(gg) \in Nat /\ TotalBytes(ll) \in Nat
       /\ g[p] \in Nat /\ l[p] \in Nat /\ gg[p] \in Nat /\ ll[p] \in Nat
  BY <1>4, <1>8, TotalBytesType
<1>11. usedBytes \in Nat /\ usedBytes' \in Nat
  BY DEF TypeInv, TypeOK, StoresOK
<1>12. BytesIn(Keys) \in Nat /\ BytesIn(Keys)' \in Nat
  BY BytesInTyped, AllBytesNext
<1>13. usedBytes' + gg[p] + BytesIn(Keys) + l[p] = usedBytes + g[p] + BytesIn(Keys)' + ll[p]
  BY <1>5 DEF Balances
<1> DEFINE B == BytesIn(Keys)
           BB == BytesIn(Keys)'
           G == TotalBytes(g)
           GG == TotalBytes(gg)
           L == TotalBytes(l)
           LL == TotalBytes(ll)
           u == usedBytes
           uu == usedBytes'
           a == g[p]
           b == gg[p]
           c == l[p]
           d == ll[p]
<1>14. u + G = B + L
  BY <1>6
<1>15. GG + a = G + b
  BY <1>9
<1>16. LL + c = L + d
  BY <1>9
<1>17. uu + b + B + c = u + a + BB + d
  BY <1>13
<1>18. G \in Nat /\ L \in Nat /\ GG \in Nat /\ LL \in Nat /\ a \in Nat /\ b \in Nat /\ c \in Nat /\ d \in Nat
  BY <1>10
<1>19. u \in Nat /\ uu \in Nat /\ B \in Nat /\ BB \in Nat
  BY <1>11, <1>12
<1>20. uu + GG = BB + LL
  <2> HIDE DEF B, BB, G, GG, L, LL, u, uu, a, b, c, d
  <2> QED BY <1>14, <1>15, <1>16, <1>17, <1>18, <1>19
<1> QED
  BY <1>2, <1>7, <1>20

---------------------------------------------------------------------------
(* The steps of each handler.                                              *)

Counted == Copying \cup Replacing \cup {"deleteRemove"}

\* A step that neither counts nor has to.
LEMMA Uncounted ==
  ASSUME TypeInv, TypeInv', NEW p \in Procs, \E t : Become(p, t), UNCHANGED <<bucket, usedBytes>>,
         task[p].pc \notin Counted, task'[p].pc \notin Counted \cup {"completeS3"}
  PROVE  Balances(p)
<1>1. Gained(p) = 0 /\ Gained(p)' = 0
  BY GainedCases, GainedNext DEF Counted
<1>2. Lost(p) = 0 /\ Lost(p)' = 0
  BY LostCases, LostNext DEF Counted, Replacing, LossOf
<1>3. BytesIn(Keys)' = BytesIn(Keys) /\ BytesIn(Keys) \in Nat /\ usedBytes \in Nat
  BY BytesSame, AllBytesTyped DEF TypeInv, TypeOK, StoresOK
<1>4. Accounted(task[p])'
  BY DEF Accounted, Counted
<1> QED
  BY <1>1, <1>2, <1>3, <1>4 DEF Balances, WritesOnly

LEMMA OtherBalances ==
  ASSUME TypeInv, TypeInv', NEW r \in Requests, InitSteps(r) \/ AbortSteps(r) \/ RecomputeList(r)
  PROVE  Balances(r)
<1> DEFINE names == InitNames \cup AbortNames \cup RecomputeNames
<1>1. r \in Procs /\ Moved(r, names)
  BY InitMoves, AbortMoves, RecomputeMoves DEF Moved, Procs, RecomputeSteps
<1>2. names \cap (Counted \cup {"completeS3"}) = {}
  BY DEF InitNames, AbortNames, RecomputeNames, Counted, Copying, Replacing
<1>3. task[r].pc \in names /\ UNCHANGED <<bucket, usedBytes>>
  BY DEF InitSteps, InitBegin, InitCheck, InitStat, InitReserve, InitRefuse, InitMultipart,
     InitRelease, InitSave, AbortSteps, AbortBegin, AbortS3, AbortRelease, AbortDelete,
     RecomputeList, At, InitNames, AbortNames, RecomputeNames, stores, objects, accounts
<1> HIDE DEF names
<1> QED
  BY <1>1, <1>2, <1>3, Uncounted DEF Moved

\* An addition to usedBytes that does not make it negative.
LEMMA Adding ==
  ASSUME NEW delta \in Int, AddUsedBytes(delta), usedBytes \in Nat, usedBytes + delta >= 0
  PROVE  usedBytes' = usedBytes + delta
BY DEF AddUsedBytes, Floor0

LEMMA CompleteBalances ==
  ASSUME TypeInv, FilesInv, Unfailed, Calm, AllAccounted, UsageLedger, TypeInv', FilesInv',
         NEW r \in Requests, CompleteSteps(r)
  PROVE  Balances(r)
<1>0. /\ r \in Procs /\ task[r] \in Task /\ Fitted(task[r], plan) /\ Sound(task[r])
      /\ Moved(r, CompleteNames) /\ \E t : Become(r, t)
  BY TaskTyped, CompleteMoves DEF Procs, FilesInv, AllSound, Moved
<1>1. usedBytes \in Nat /\ BytesIn(Keys) \in Nat
  BY AllBytesTyped DEF TypeInv, TypeOK, StoresOK
<1>2. CASE \E u \in UploadIds : CompleteBegin(r, u)
  <2>1. task'[r].pc = "completeStat"
    <3>1. PICK u \in UploadIds : CompleteBegin(r, u)
      BY <1>2
    <3> DEFINE t == [Idle EXCEPT !.pc = "completeStat", !.path = plan[u].key, !.up = u]
    <3>2. Become(r, t) /\ t.pc = "completeStat"
      BY <3>1 DEF CompleteBegin, Idle
    <3> HIDE DEF t
    <3> QED BY <1>0, <3>2, BecomeNext
  <2>2. task[r].pc = "idle" /\ UNCHANGED <<bucket, usedBytes>>
    BY <1>2 DEF CompleteBegin, At, stores, objects, accounts
  <2> QED
    BY <1>0, <2>1, <2>2, Uncounted DEF Counted, Copying, Replacing
<1>3. CASE CompleteS3Error(r) \/ CompleteRelease(r) \/ CompleteDelete(r)
  <2>1. /\ task[r].pc \in {"completeS3", "completeRelease", "completeDelete"}
        /\ Finish(r) \/ Goto(r, "completeDelete")
        /\ UNCHANGED <<bucket, usedBytes>>
    BY <1>3 DEF CompleteS3Error, CompleteRelease, CompleteDelete, At, stores, objects, accounts
  <2>2. task'[r].pc \in {"idle", "completeDelete"}
    BY <1>0, <2>1, BecomeNext
  <2> QED
    BY <1>0, <2>1, <2>2, Uncounted DEF Counted, Copying, Replacing
<1>4. CASE CompleteStat(r)
  <2> DEFINE t == [task[r] EXCEPT !.pc = "completeS3", !.old = bucket[task[r].path].size]
  <2>1. /\ Become(r, t) /\ task[r].pc = "completeStat" /\ UNCHANGED <<bucket, usedBytes>>
    BY <1>4 DEF CompleteStat, Calm, At, stores, objects, accounts
  <2>2. t.pc = "completeS3" /\ t.old = bucket[t.path].size
    BY <1>0 DEF Task
  <2> HIDE DEF t
  <2>3. task'[r].pc = "completeS3" /\ task'[r].old = bucket'[task'[r].path].size
    BY <1>0, <2>1, <2>2, BecomeNext
  <2>4. Gained(r) = 0 /\ Gained(r)' = 0
    BY <2>1, <2>3, GainedCases, GainedNext DEF Copying, Replacing
  <2>5. Lost(r) = 0 /\ Lost(r)' = 0
    BY <2>1, <2>3, LostCases, LostNext DEF LossOf
  <2>6. BytesIn(Keys)' = BytesIn(Keys)
    BY <2>1, BytesSame
  <2>7. Accounted(task[r])'
    BY <2>3 DEF Accounted
  <2> QED
    BY <1>0, <1>1, <2>1, <2>4, <2>5, <2>6, <2>7 DEF Balances, WritesOnly
<1>5. CASE CompleteS3(r)
  <2> DEFINE k == task[r].path
             u == task[r].up
  <2>1. /\ k \in Keys /\ u \in UploadIds /\ task[r].pc = "completeS3"
        /\ bucket'[k] = Uploaded(u) /\ \A j \in Keys \ {k} : bucket'[j] = bucket[j]
    BY <1>5, CompleteS3Writes DEF At
  <2>2. Goto(r, "completeRestat") /\ UNCHANGED <<usedBytes, plan>>
    BY <1>5 DEF CompleteS3, Calm, accounts
  <2>3. task'[r].pc = "completeRestat" /\ task'[r].up = u /\ task'[r].old = task[r].old
    <3> DEFINE t == [task[r] EXCEPT !.pc = "completeRestat"]
    <3>1. Become(r, t) /\ t.pc = "completeRestat" /\ t.up = u /\ t.old = task[r].old
      BY <1>0, <2>2 DEF Goto, Task
    <3> HIDE DEF t, u
    <3> QED BY <1>0, <3>1, BecomeNext
  <2>4. BytesIn(Keys)' = BytesIn(Keys) - bucket[k].size + bucket'[k].size
    BY <2>1, BytesChange
  <2>5. Gained(r) = 0 /\ Gained(r)' = bucket'[k].size
    BY <2>1, <2>2, <2>3, GainedCases, GainedNext DEF Copying, Replacing, Uploaded
  <2>6. Lost(r) = 0 /\ Lost(r)' = task[r].old
    BY <2>1, <2>3, LostCases, LostNext DEF LossOf
  <2>7. task[r].old = bucket[k].size
    BY <1>0, <2>1 DEF AllAccounted, Accounted
  <2>8. bucket[k].size \in Nat /\ bucket'[k].size \in Nat
    BY <2>1 DEF TypeInv, TypeOK, StoresOK, Object
  <2>9. Accounted(task[r])'
    BY <2>3 DEF Accounted
  <2>10. WritesOnly(r)
    BY <2>1 DEF WritesOnly, Writing
  <2> HIDE DEF k, u
  <2>11. usedBytes' + Gained(r)' + BytesIn(Keys) + Lost(r)
           = usedBytes + Gained(r) + BytesIn(Keys)' + Lost(r)'
    BY <1>1, <2>2, <2>4, <2>5, <2>6, <2>7, <2>8
  <2> QED
    BY <1>0, <2>9, <2>10, <2>11 DEF Balances
<1>6. CASE CompleteRestat(r)
  <2> DEFINE t == [task[r] EXCEPT !.pc = "completeUsed", !.obj = bucket[task[r].path]]
  <2>1. /\ task[r].pc = "completeRestat" /\ bucket[task[r].path] = Uploaded(task[r].up)
        /\ task[r].up \in UploadIds
    BY <1>0, <1>6 DEF CompleteRestat, At, Sound, CompleteSound, Fitted, UploadSteps, Planned
  <2>2. Exists(task[r].path)
    BY <2>1, DriveAssumption DEF Exists, Uploaded, NoObject
  <2>3. Become(r, t) /\ UNCHANGED <<bucket, usedBytes>>
    BY <1>6, <2>2 DEF CompleteRestat, Calm, stores, objects, accounts
  <2>4. t.pc = "completeUsed" /\ t.obj = bucket[task[r].path] /\ t.old = task[r].old
    BY <1>0 DEF Task
  <2> HIDE DEF t
  <2>5. task'[r].pc = "completeUsed" /\ task'[r].obj = Uploaded(task[r].up) /\ task'[r].old = task[r].old
    BY <1>0, <2>1, <2>3, <2>4, BecomeNext
  <2>6. Gained(r)' = Gained(r)
    BY <2>1, <2>5, GainedCases, GainedNext DEF Uploaded
  <2>7. Lost(r)' = Lost(r)
    BY <2>1, <2>5, LostCases, LostNext DEF LossOf
  <2>8. BytesIn(Keys)' = BytesIn(Keys)
    BY <2>3, BytesSame
  <2>9. Accounted(task[r])'
    BY <2>5 DEF Accounted
  <2> QED
    BY <1>0, <1>1, <2>3, <2>6, <2>7, <2>8, <2>9 DEF Balances, WritesOnly
<1>7. CASE CompleteUsed(r)
  <2>1. /\ task[r].pc = "completeUsed" /\ UNCHANGED bucket /\ Goto(r, "completeRelease")
        /\ AddUsedBytes(task[r].obj.size - task[r].old)
    BY <1>7 DEF CompleteUsed, At, objects
  <2>2. task'[r].pc = "completeRelease"
    BY <1>0, <2>1, BecomeNext
  <2>3. Gained(r) = task[r].obj.size /\ Lost(r) = task[r].old
    BY <2>1, GainedCases, LostCases DEF LossOf
  <2>4. Gained(r)' = 0 /\ Lost(r)' = 0 /\ Accounted(task[r])'
    BY <2>2, GainedNext, LostNext DEF Copying, Replacing, LossOf, Accounted
  <2>5. usedBytes + Gained(r) - Lost(r) >= 0 /\ Gained(r) \in Nat /\ Lost(r) \in Nat
    BY <1>0, UsageCovers
  <2>6. usedBytes' = usedBytes + (Gained(r) - Lost(r))
    BY <1>1, <2>1, <2>3, <2>5, Adding
  <2>7. BytesIn(Keys)' = BytesIn(Keys)
    BY <2>1, BytesSame
  <2>8. usedBytes' + Gained(r)' + BytesIn(Keys) + Lost(r)
          = usedBytes + Gained(r) + BytesIn(Keys)' + Lost(r)'
    BY <1>1, <2>4, <2>5, <2>6, <2>7
  <2> QED
    BY <1>0, <2>1, <2>4, <2>8 DEF Balances, WritesOnly
<1> QED
  BY <1>2, <1>3, <1>4, <1>5, <1>6, <1>7 DEF CompleteSteps

LEMMA DeleteBalances ==
  ASSUME TypeInv, FilesInv, Unfailed, Calm, AllAccounted, UsageLedger, TypeInv', FilesInv',
         NEW r \in Requests, DeleteSteps(r)
  PROVE  Balances(r)
<1>0. /\ r \in Procs /\ task[r] \in Task /\ Sound(task[r]) /\ \E t : Become(r, t)
  BY TaskTyped, DeleteMoves DEF Procs, FilesInv, AllSound, Moved
<1>1. usedBytes \in Nat /\ BytesIn(Keys) \in Nat
  BY AllBytesTyped DEF TypeInv, TypeOK, StoresOK
<1>2. CASE \E path \in Paths : DeleteBegin(r, path)
  <2>1. task'[r].pc = "deleteList"
    <3>1. PICK path \in Paths : DeleteBegin(r, path)
      BY <1>2
    <3> DEFINE t == [Idle EXCEPT !.pc = "deleteList", !.path = path]
    <3>2. Become(r, t) /\ t.pc = "deleteList"
      BY <3>1 DEF DeleteBegin, Idle
    <3> HIDE DEF t
    <3> QED BY <1>0, <3>2, BecomeNext
  <2>2. task[r].pc = "idle" /\ UNCHANGED <<bucket, usedBytes>>
    BY <1>2 DEF DeleteBegin, At, stores, objects, accounts
  <2> QED
    BY <1>0, <2>1, <2>2, Uncounted DEF Counted, Copying, Replacing
<1>3. CASE DeleteList(r) /\ Finish(r)
  <2>1. task[r].pc = "deleteList" /\ UNCHANGED <<bucket, usedBytes>> /\ task'[r].pc = "idle"
    BY <1>0, <1>3, BecomeNext DEF DeleteList, At, stores, objects, accounts
  <2> QED
    BY <1>0, <2>1, Uncounted DEF Counted, Copying, Replacing
<1>4. CASE DeleteList(r) /\ ~Finish(r)
  <2> DEFINE found == FilesAt(task[r].path)
             t == [task[r] EXCEPT !.pc = "deleteRemove", !.todo = found, !.n = BytesIn(found)]
  <2>1. Become(r, t) /\ task[r].pc = "deleteList" /\ UNCHANGED <<bucket, usedBytes>>
    BY <1>4 DEF DeleteList, At, stores, objects, accounts
  <2>2. t.pc = "deleteRemove" /\ t.todo = found /\ t.n = BytesIn(found)
    BY <1>0 DEF Task
  <2>3. found \in SUBSET Keys
    BY DEF FilesAt
  <2> HIDE DEF t
  <2>4. task'[r].pc = "deleteRemove" /\ task'[r].todo = found /\ task'[r].n = BytesIn(found)
    BY <1>0, <2>1, <2>2, BecomeNext
  <2>5. BytesIn(task[r].todo)' = BytesIn(found)
    <3>1. [k \in task'[r].todo |-> bucket'[k].size] = [k \in found |-> bucket[k].size]
      BY <2>1, <2>4
    <3> QED BY <3>1 DEF BytesIn
  <2>6. BytesIn(found) \in Nat
    BY <2>3, BytesInTyped
  <2>7. Gained(r) = 0 /\ Gained(r)' = 0
    BY <2>1, <2>4, GainedCases, GainedNext DEF Copying, Replacing
  <2>8. Lost(r) = 0 /\ Lost(r)' = 0
    BY <2>1, <2>4, <2>5, <2>6, LostCases, LostNext DEF LossOf
  <2>9. BytesIn(Keys)' = BytesIn(Keys)
    BY <2>1, BytesSame
  <2>10. Accounted(task[r])'
    BY <2>4, <2>5, <2>6 DEF Accounted
  <2> QED
    BY <1>0, <1>1, <2>1, <2>7, <2>8, <2>9, <2>10 DEF Balances, WritesOnly
<1>5. ASSUME NEW k \in Keys, DeleteRemove(r, k) PROVE Balances(r)
  <2> DEFINE t == [task[r] EXCEPT !.todo = @ \ {k}]
             rest == task[r].todo \ {k}
  <2>1. /\ task[r].pc = "deleteRemove" /\ k \in task[r].todo /\ Become(r, t)
        /\ SetObject(k, NoObject) /\ UNCHANGED usedBytes
    BY <1>5 DEF DeleteRemove, Calm, At, accounts
  <2>2. bucket'[k] = NoObject /\ \A j \in Keys \ {k} : bucket'[j] = bucket[j]
    BY <2>1, OneObject
  <2>3. t.pc = "deleteRemove" /\ t.todo = rest /\ t.n = task[r].n
    BY <1>0, <2>1 DEF Task
  <2> HIDE DEF t
  <2>4. task'[r].pc = "deleteRemove" /\ task'[r].todo = rest /\ task'[r].n = task[r].n
    BY <1>0, <2>1, <2>3, BecomeNext
  <2>5. task[r].todo \in SUBSET Keys /\ task[r].n \in Nat
    BY <1>0 DEF Task
  <2>6. BytesIn(task[r].todo) = bucket[k].size + BytesIn(rest) /\ bucket[k].size \in Nat
    BY <2>1, <2>5, BytesSplit
  <2>7. BytesIn(task[r].todo)' = BytesIn(rest)
    <3>1. [j \in task'[r].todo |-> bucket'[j].size] = [j \in rest |-> bucket[j].size]
      BY <2>2, <2>4, <2>5
    <3> QED BY <3>1 DEF BytesIn
  <2>8. BytesIn(Keys)' = BytesIn(Keys) - bucket[k].size + bucket'[k].size /\ bucket'[k].size = 0
    BY <2>2, BytesChange DEF NoObject
  <2>9. BytesIn(rest) \in Nat /\ BytesIn(task[r].todo) <= task[r].n
    BY <1>0, <2>1, <2>5, BytesInTyped DEF AllAccounted, Accounted
  <2>10. Gained(r) = 0 /\ Gained(r)' = 0
    BY <2>1, <2>4, GainedCases, GainedNext DEF Copying, Replacing
  <2>11. Lost(r) = task[r].n - BytesIn(task[r].todo) /\ Lost(r)' = task[r].n - BytesIn(rest)
    BY <2>1, <2>4, <2>7, LostCases, LostNext DEF LossOf
  <2>12. Accounted(task[r])'
    BY <2>4, <2>5, <2>6, <2>7, <2>9 DEF Accounted
  <2>13. WritesOnly(r)
    BY <2>1, <2>2 DEF WritesOnly, Writing
  <2> HIDE DEF rest
  <2>14. usedBytes' + Gained(r)' + BytesIn(Keys) + Lost(r)
           = usedBytes + Gained(r) + BytesIn(Keys)' + Lost(r)'
    BY <1>1, <2>1, <2>5, <2>6, <2>8, <2>9, <2>10, <2>11
  <2> QED
    BY <1>0, <2>12, <2>13, <2>14 DEF Balances
<1>6. ~DeleteError(r)
  BY <1>0 DEF DeleteError, At, Unfailed, Hopeful
<1>7. CASE DeleteUsed(r)
  <2>1. /\ task[r].pc = "deleteRemove" /\ task[r].todo = {} /\ UNCHANGED bucket /\ Finish(r)
        /\ AddUsedBytes(-task[r].n)
    BY <1>7 DEF DeleteUsed, At
  <2>2. task'[r].pc = "idle"
    BY <1>0, <2>1, BecomeNext
  <2>3. task[r].n \in Nat /\ BytesIn(task[r].todo) = 0
    BY <1>0, <2>1, BytesTyped DEF Task
  <2>4. Gained(r) = 0 /\ Lost(r) = task[r].n
    <3>1. Lost(r) = task[r].n - BytesIn(task[r].todo)
      BY <2>1, LostCases DEF LossOf
    <3> QED BY <2>1, <2>3, <3>1, GainedCases DEF Copying, Replacing
  <2>5. Gained(r)' = 0 /\ Lost(r)' = 0 /\ Accounted(task[r])'
    BY <2>2, GainedNext, LostNext DEF Copying, Replacing, LossOf, Accounted
  <2>6. usedBytes + Gained(r) - Lost(r) >= 0
    BY <1>0, UsageCovers
  <2>7. usedBytes' = usedBytes + (-task[r].n)
    BY <1>1, <2>1, <2>3, <2>4, <2>6, Adding
  <2>8. BytesIn(Keys)' = BytesIn(Keys)
    BY <2>1, BytesSame
  <2>9. usedBytes' + Gained(r)' + BytesIn(Keys) + Lost(r)
          = usedBytes + Gained(r) + BytesIn(Keys)' + Lost(r)'
    BY <1>1, <2>3, <2>4, <2>5, <2>7, <2>8
  <2> QED
    BY <1>0, <2>1, <2>5, <2>9 DEF Balances, WritesOnly
<1> QED
  BY <1>2, <1>3, <1>4, <1>5, <1>6, <1>7 DEF DeleteSteps

\* A recount finds what usedBytes says.
Counting ==
  \A p \in Procs : At(p, "recomputeSet") =>
    task[p].n = BytesIn(Keys) /\ \A q \in Procs : task[q].pc \notin Working

LEMMA RecountBalances ==
  ASSUME TypeInv, FilesInv, Counting, UsageLedger, TypeInv', FilesInv',
         NEW r \in Requests, RecomputeSet(r)
  PROVE  Balances(r)
<1>1. /\ r \in Procs /\ task[r].pc = "recomputeSet" /\ usedBytes' = task[r].n
      /\ UNCHANGED bucket /\ Finish(r)
  BY DEF RecomputeSet, At, objects, Procs
<1>2. Counted \subseteq Working
  BY DEF Counted, Copying, Replacing, Working, MoveSteps, RenamingSteps, JobSteps
<1>3. task[r].n = BytesIn(Keys) /\ \A q \in Procs : task[q].pc \notin Counted
  BY <1>1, <1>2 DEF Counting, At
<1>4. \A q \in Procs : Gained(q) = 0 /\ Lost(q) = 0
  BY <1>3, GainedCases, LostCases DEF Counted, Replacing, LossOf
<1>5. TotalBytes([q \in Procs |-> Gained(q)]) = 0 /\ TotalBytes([q \in Procs |-> Lost(q)]) = 0
  <2>1. [q \in Procs |-> Gained(q)] \in [Procs -> Nat] /\ [q \in Procs |-> Lost(q)] \in [Procs -> Nat]
    BY <1>4
  <2> QED BY <1>4, <2>1, SumOfNothing
<1>6. usedBytes \in Nat /\ BytesIn(Keys) \in Nat
  BY AllBytesTyped DEF TypeInv, TypeOK, StoresOK
<1>7. usedBytes' = usedBytes
  BY <1>1, <1>3, <1>5, <1>6 DEF UsageLedger
<1>8. task'[r].pc = "idle" /\ \E t : Become(r, t)
  BY <1>1, BecomeNext
<1> QED
  BY <1>1, <1>3, <1>7, <1>8, Uncounted DEF Counted, Copying, Replacing

\* A rename gains nothing until it copies.
LEMMA CopiesGain ==
  ASSUME TypeInv, NEW p \in Procs, task[p].pc \in Copying, task[p].done = {}
  PROVE  Gained(p) = 0
BY GainedCases, BytesTyped

LEMMA CopiesGainNext ==
  ASSUME NEW p \in Procs, task'[p].pc \in Copying, NEW S, task'[p].done = S,
         \A k \in S : bucket'[k] = bucket[k]
  PROVE  Gained(p)' = BytesIn(S)
<1>1. [k \in task'[p].done |-> bucket'[k].size] = [k \in S |-> bucket[k].size]
  OBVIOUS
<1>2. BytesIn(task[p].done)' = BytesIn(S)
  BY <1>1 DEF BytesIn
<1> QED
  BY <1>2, GainedNext

LEMMA RenameLosesNothing ==
  ASSUME NEW p
  PROVE  /\ task[p].pc \in RenamingSteps \cup {"idle"} => Lost(p) = 0
         /\ task'[p].pc \in RenamingSteps \cup {"idle"} => Lost(p)' = 0 /\ Accounted(task[p])'
BY LostCases, LostNext DEF LossOf, RenamingSteps, Accounted

LEMMA RenameCopyBalances ==
  ASSUME TypeInv, FilesInv, Calm, TypeInv', NEW r \in Requests, NEW k \in Keys, RenameCopy(r, k)
  PROVE  Balances(r)
<1> DEFINE x == Target(task[r], k)
           t == [task[r] EXCEPT !.todo = @ \ {k}, !.done = @ \cup {k}]
           S == task[r].done
<1>0. /\ r \in Procs /\ task[r] \in Task /\ Sound(task[r]) /\ S \in SUBSET Keys
      /\ usedBytes \in Nat /\ BytesIn(Keys) \in Nat /\ UNCHANGED usedBytes
  BY TaskTyped, AllBytesTyped DEF Procs, FilesInv, AllSound, Task, TypeInv, TypeOK, StoresOK,
     RenameCopy, accounts
<1>1. /\ task[r].pc = "renameCopy" /\ k \in FilesAt(task[r].path) /\ k \in task[r].todo
      /\ Siblings(task[r].path, task[r].to)
      /\ x \in Keys \cap Tree(task[r].to) /\ ~Exists(x)
      /\ \A j \in Keys \ {x} : bucket'[j] = bucket[j]
  BY RenameCopyWrites DEF RenameCopy
<1>2. Become(r, t) /\ SetObject(x, bucket[k])
  BY <1>1 DEF RenameCopy, Calm, FilesAt
<1>3. t.pc = "renameCopy" /\ t.done = S \cup {k}
  BY <1>0, <1>1 DEF Task
<1> HIDE DEF t, x
<1>4. task'[r].pc = "renameCopy" /\ task'[r].done = S \cup {k}
  BY <1>0, <1>2, <1>3, BecomeNext
<1>5. bucket'[x] = bucket[k] /\ bucket[x].size = 0
  BY <1>1, <1>2, OneObject DEF Exists, NoObject
<1>6. S \subseteq FilesAt(task[r].path) /\ k \notin S
  BY <1>0, <1>1 DEF Sound, RenameSound
<1>7. \A j \in S \cup {k} : bucket'[j] = bucket[j]
  BY <1>1, <1>6 DEF FilesAt, Exists
<1>8. Gained(r)' = BytesIn(S \cup {k}) /\ Gained(r) = BytesIn(S)
  BY <1>0, <1>1, <1>4, <1>7, CopiesGainNext, GainedCases DEF Copying
<1>9. BytesIn(S \cup {k}) = bucket[k].size + BytesIn(S) /\ bucket[k].size \in Nat
  <2>1. (S \cup {k}) \ {k} = S /\ S \cup {k} \in SUBSET Keys
    BY <1>0, <1>6
  <2> QED BY <2>1, BytesSplit
<1>10. BytesIn(S) \in Nat
  BY <1>0, BytesInTyped
<1>11. BytesIn(Keys)' = BytesIn(Keys) - bucket[x].size + bucket'[x].size
  BY <1>1, BytesChange
<1>12. Lost(r) = 0 /\ Lost(r)' = 0 /\ Accounted(task[r])'
  BY <1>1, <1>4, RenameLosesNothing DEF RenamingSteps
<1>13. WritesOnly(r)
  BY <1>1 DEF WritesOnly, Writing
<1> HIDE DEF S
<1>14. usedBytes' + Gained(r)' + BytesIn(Keys) + Lost(r)
         = usedBytes + Gained(r) + BytesIn(Keys)' + Lost(r)'
  BY <1>0, <1>5, <1>8, <1>9, <1>10, <1>11, <1>12
<1> QED
  BY <1>2, <1>12, <1>13, <1>14 DEF Balances

LEMMA RenameRemoveBalances ==
  ASSUME TypeInv, FilesInv, Calm, TypeInv', NEW r \in Requests, NEW k \in Keys, RenameRemove(r, k)
  PROVE  Balances(r)
<1> DEFINE t == [task[r] EXCEPT !.done = @ \ {k}]
           S == task[r].done
<1>0. /\ r \in Procs /\ task[r] \in Task /\ S \in SUBSET Keys
      /\ usedBytes \in Nat /\ BytesIn(Keys) \in Nat /\ UNCHANGED usedBytes
  BY TaskTyped, AllBytesTyped DEF Procs, Task, TypeInv, TypeOK, StoresOK, RenameRemove, accounts
<1>1. /\ task[r].pc = "renameRemove" /\ k \in S
      /\ \A j \in Keys \ {k} : bucket'[j] = bucket[j]
  BY RenameRemoveWrites
<1>2. Become(r, t) /\ bucket'[k] = NoObject
  BY OneObject DEF RenameRemove, Calm
<1>3. t.pc = "renameRemove" /\ t.done = S \ {k}
  BY <1>0, <1>1 DEF Task
<1> HIDE DEF t
<1>4. task'[r].pc = "renameRemove" /\ task'[r].done = S \ {k}
  BY <1>0, <1>2, <1>3, BecomeNext
<1>5. Gained(r)' = BytesIn(S \ {k}) /\ Gained(r) = BytesIn(S)
  BY <1>0, <1>1, <1>4, CopiesGainNext, GainedCases DEF Copying
<1>6. BytesIn(S) = bucket[k].size + BytesIn(S \ {k}) /\ bucket[k].size \in Nat
  BY <1>0, <1>1, BytesSplit
<1>7. BytesIn(S \ {k}) \in Nat
  BY <1>0, BytesInTyped
<1>8. BytesIn(Keys)' = BytesIn(Keys) - bucket[k].size + bucket'[k].size /\ bucket'[k].size = 0
  BY <1>1, <1>2, BytesChange DEF NoObject
<1>9. Lost(r) = 0 /\ Lost(r)' = 0 /\ Accounted(task[r])'
  BY <1>1, <1>4, RenameLosesNothing DEF RenamingSteps
<1>10. WritesOnly(r)
  BY <1>1 DEF WritesOnly, Writing
<1> HIDE DEF S
<1>11. usedBytes' + Gained(r)' + BytesIn(Keys) + Lost(r)
         = usedBytes + Gained(r) + BytesIn(Keys)' + Lost(r)'
  BY <1>0, <1>5, <1>6, <1>7, <1>8, <1>9
<1> QED
  BY <1>2, <1>9, <1>10, <1>11 DEF Balances

LEMMA RenameBalances ==
  ASSUME TypeInv, FilesInv, Unfailed, Calm, TypeInv', NEW r \in Requests, RenameSteps(r)
  PROVE  Balances(r)
<1>0. /\ r \in Procs /\ task[r] \in Task /\ Sound(task[r]) /\ (\E t : Become(r, t))
      /\ task'[r].pc \in RenamingSteps \cup {"idle"}
  BY TaskTyped, RenameMoves DEF Procs, FilesInv, AllSound, Moved, RenameNames
<1>1. usedBytes \in Nat /\ BytesIn(Keys) \in Nat
  BY AllBytesTyped DEF TypeInv, TypeOK, StoresOK
<1>2. ASSUME UNCHANGED <<bucket, usedBytes>>, Gained(r)' = Gained(r), Gained(r) \in Nat,
             task[r].pc \in RenamingSteps \cup {"idle"}
      PROVE  Balances(r)
  <2>1. Lost(r) = 0 /\ Lost(r)' = 0 /\ Accounted(task[r])'
    BY <1>0, <1>2, RenameLosesNothing
  <2>2. BytesIn(Keys)' = BytesIn(Keys)
    BY <1>2, BytesSame
  <2> QED BY <1>0, <1>1, <1>2, <2>1, <2>2 DEF Balances, WritesOnly
<1>3. CASE \/ \E path, to \in Paths : RenameBegin(r, path, to)
           \/ RenameCheck(r) \/ RenameCollide(r) \/ RenameUnmark(r)
  <2> DEFINE resting == {"idle", "renameCheck", "renameCollide", "renameMark", "renameUnmark"}
  <2>1. task[r].pc \in resting /\ UNCHANGED <<bucket, usedBytes>>
    BY <1>3 DEF RenameBegin, RenameCheck, RenameCollide, RenameUnmark, At, stores, objects, accounts
  <2>2. task'[r].pc \in resting
    <3>1. ASSUME NEW path \in Paths, NEW to \in Paths, RenameBegin(r, path, to)
          PROVE  task'[r].pc = "renameCheck"
      <4> DEFINE t == [Idle EXCEPT !.pc = "renameCheck", !.path = path, !.to = to, !.todo = FilesAt(path)]
      <4>1. Become(r, t) /\ t.pc = "renameCheck"
        BY <3>1 DEF RenameBegin, Idle
      <4> HIDE DEF t
      <4> QED BY <1>0, <4>1, BecomeNext
    <3>2. CASE RenameCheck(r) \/ RenameCollide(r) \/ RenameUnmark(r)
      BY <1>0, <3>2, BecomeNext DEF RenameCheck, RenameCollide, RenameUnmark
    <3> QED BY <1>3, <3>1, <3>2
  <2> QED
    BY <1>0, <2>1, <2>2, Uncounted DEF Counted, Copying, Replacing
<1>4. CASE RenameMark(r)
  <2>1. /\ task[r].pc = "renameMark" /\ task[r].done = {} /\ Goto(r, "renameCopy")
        /\ UNCHANGED <<bucket, usedBytes>>
    BY <1>0, <1>4 DEF RenameMark, At, Sound, RenameSound, accounts
  <2>2. task'[r].pc = "renameCopy" /\ task'[r].done = {}
    <3> DEFINE t == [task[r] EXCEPT !.pc = "renameCopy"]
    <3>1. Become(r, t) /\ t.pc = "renameCopy" /\ t.done = {}
      BY <1>0, <2>1 DEF Goto, Task
    <3> HIDE DEF t
    <3> QED BY <1>0, <3>1, BecomeNext
  <2>3. Gained(r)' = BytesIn({}) /\ BytesIn({}) = 0
    BY <1>0, <2>2, CopiesGainNext, BytesTyped DEF Copying
  <2>4. Gained(r) = 0
    BY <2>1, GainedCases DEF Copying, Replacing
  <2> QED
    BY <1>2, <2>1, <2>3, <2>4 DEF RenamingSteps
<1>5. ASSUME NEW k \in Keys, RenameCopy(r, k) \/ RenameRemove(r, k) PROVE Balances(r)
  BY <1>5, RenameCopyBalances, RenameRemoveBalances
<1>6. CASE RenameCopied(r)
  <2>1. task[r].pc = "renameCopy" /\ Goto(r, "renameRemove") /\ UNCHANGED <<bucket, usedBytes>>
    BY <1>0, <1>6 DEF RenameCopied, At, Unfailed, Hopeful, RenamingSteps, stores, objects, accounts
  <2>2. task'[r].pc = "renameRemove" /\ task'[r].done = task[r].done
    <3> DEFINE t == [task[r] EXCEPT !.pc = "renameRemove"]
    <3>1. Become(r, t) /\ t.pc = "renameRemove" /\ t.done = task[r].done
      BY <1>0, <2>1 DEF Goto, Task
    <3> HIDE DEF t
    <3> QED BY <1>0, <3>1, BecomeNext
  <2>3. Gained(r)' = BytesIn(task[r].done) /\ Gained(r) = BytesIn(task[r].done)
    BY <1>0, <2>1, <2>2, CopiesGainNext, GainedCases DEF Copying
  <2>4. BytesIn(task[r].done) \in Nat
    BY <1>0, BytesInTyped DEF Task
  <2> QED
    BY <1>2, <2>1, <2>3, <2>4 DEF RenamingSteps
<1>7. CASE RenamePublish(r)
  <2>1. /\ task[r].pc = "renamePublish" \/ (task[r].pc = "renameRemove" /\ task[r].done = {})
        /\ Goto(r, "renameUnmark") /\ UNCHANGED <<bucket, usedBytes>>
    BY <1>7 DEF RenamePublish, At, accounts
  <2>2. Gained(r) = 0
    BY <1>0, <2>1, CopiesGain, GainedCases DEF Copying, Replacing
  <2>3. task'[r].pc = "renameUnmark"
    BY <1>0, <2>1, BecomeNext
  <2>4. Gained(r)' = 0
    BY <2>3, GainedNext DEF Copying, Replacing
  <2> QED
    BY <1>2, <2>1, <2>2, <2>4 DEF RenamingSteps
<1> QED
  BY <1>3, <1>4, <1>5, <1>6, <1>7 DEF RenameSteps

LEMMA PackBalances ==
  ASSUME TypeInv, FilesInv, Calm, AllAccounted, UsageLedger, TypeInv', FilesInv',
         NEW w \in Workers, PackSteps(w)
  PROVE  Balances(w)
<1>0. /\ w \in Procs /\ task[w] \in Task /\ Sound(task[w]) /\ (\E t : Become(w, t))
      /\ task'[w].pc \in PackNames
  BY TaskTyped, PackMoves DEF Procs, FilesInv, AllSound, Moved
<1>1. usedBytes \in Nat /\ BytesIn(Keys) \in Nat
  BY AllBytesTyped DEF TypeInv, TypeOK, StoresOK
<1>2. CASE PackPut(w)
  <2> DEFINE k == task[w].path
             x == Packed(task[w])
  <2>1. /\ task[w].pc = "packPut" /\ k \in Keys
        /\ \A j \in Keys \ {k} : bucket'[j] = bucket[j]
    BY <1>2, PackPutWrites
  <2>2. SetObject(k, x) /\ Goto(w, "packUsed") /\ UNCHANGED usedBytes
    BY <1>2 DEF PackPut, Calm, accounts
  <2>3. bucket'[k].size = task[w].old /\ bucket[k].size = task[w].n
    <3>1. bucket'[k] = x /\ x.size = task[w].old
      BY <2>1, <2>2, OneObject DEF Packed
    <3>2. bucket[k] = task[w].obj /\ task[w].obj.size = task[w].n
      BY <1>0, <2>1 DEF Sound, PackSound, Packing, PackNames
    <3> QED BY <3>1, <3>2
  <2>4. task'[w].pc = "packUsed" /\ task'[w].old = task[w].old /\ task'[w].n = task[w].n
    <3> DEFINE t == [task[w] EXCEPT !.pc = "packUsed"]
    <3>1. Become(w, t) /\ t.pc = "packUsed" /\ t.old = task[w].old /\ t.n = task[w].n
      BY <1>0, <2>2 DEF Goto, Task
    <3> HIDE DEF t
    <3> QED BY <1>0, <3>1, BecomeNext
  <2>5. task[w].old \in Nat /\ task[w].n \in Nat
    BY <1>0 DEF Task
  <2>6. BytesIn(Keys)' = BytesIn(Keys) - bucket[k].size + bucket'[k].size
    BY <2>1, BytesChange
  <2>7. Gained(w) = 0 /\ Gained(w)' = task[w].old
    BY <2>1, <2>4, GainedCases, GainedNext DEF Copying, Replacing
  <2>8. Lost(w) = 0 /\ Lost(w)' = task[w].n
    BY <2>1, <2>4, LostCases, LostNext DEF LossOf
  <2>9. Accounted(task[w])'
    BY <2>4 DEF Accounted
  <2>10. WritesOnly(w)
    BY <2>1 DEF WritesOnly, Writing
  <2> HIDE DEF k
  <2>11. usedBytes' + Gained(w)' + BytesIn(Keys) + Lost(w)
           = usedBytes + Gained(w) + BytesIn(Keys)' + Lost(w)'
    BY <1>1, <2>2, <2>3, <2>5, <2>6, <2>7, <2>8
  <2> QED
    BY <1>0, <2>9, <2>10, <2>11 DEF Balances
<1>3. CASE PackUsed(w)
  <2>1. /\ task[w].pc = "packUsed" /\ UNCHANGED bucket /\ Goto(w, "packUnmark")
        /\ AddUsedBytes(task[w].old - task[w].n)
    BY <1>3 DEF PackUsed, At
  <2>2. task'[w].pc = "packUnmark"
    BY <1>0, <2>1, BecomeNext
  <2>3. Gained(w) = task[w].old /\ Lost(w) = task[w].n
    BY <2>1, GainedCases, LostCases DEF LossOf
  <2>4. Gained(w)' = 0 /\ Lost(w)' = 0 /\ Accounted(task[w])'
    BY <2>2, GainedNext, LostNext DEF Copying, Replacing, LossOf, Accounted
  <2>5. usedBytes + Gained(w) - Lost(w) >= 0 /\ Gained(w) \in Nat /\ Lost(w) \in Nat
    BY <1>0, UsageCovers
  <2>6. usedBytes' = usedBytes + (Gained(w) - Lost(w))
    BY <1>1, <2>1, <2>3, <2>5, Adding
  <2>7. BytesIn(Keys)' = BytesIn(Keys)
    BY <2>1, BytesSame
  <2>8. usedBytes' + Gained(w)' + BytesIn(Keys) + Lost(w)
          = usedBytes + Gained(w) + BytesIn(Keys)' + Lost(w)'
    BY <1>1, <2>4, <2>5, <2>6, <2>7
  <2> QED
    BY <1>0, <2>1, <2>4, <2>8 DEF Balances, WritesOnly
<1>4. CASE ~PackPut(w) /\ ~PackUsed(w)
  <2>1. task[w].pc \in PackNames \ {"packUsed"} /\ UNCHANGED <<bucket, usedBytes>>
    BY <1>4 DEF PackSteps, Dequeue, PackCheck, PackDiskFull, PackMark, PackLoad, Pack, PackNothing,
       PackRequeue, PackStat, PackUnmark, At, PackNames, stores, objects, accounts
  <2>2. task'[w].pc # "packUsed"
    <3>1. ASSUME \/ PackCheck(w) \/ PackDiskFull(w) \/ PackMark(w) \/ PackNothing(w) \/ PackRequeue(w)
                 \/ PackStat(w) \/ PackUnmark(w)
          PROVE  task'[w].pc # "packUsed"
      <4>1. Finish(w) \/ \E pc \in PackNames \ {"packUsed"} : Goto(w, pc)
        BY <3>1 DEF PackCheck, PackDiskFull, PackMark, PackNothing, PackRequeue, PackStat, PackUnmark,
           PackNames
      <4> QED BY <1>0, <4>1, BecomeNext
    <3>2. ASSUME Dequeue(w) PROVE task'[w].pc # "packUsed"
      <4> DEFINE item == Head(queue)
                 t == [Idle EXCEPT !.pc = "packCheck", !.path = item.key, !.n = item.size,
                         !.obj = [size |-> item.size, content |-> item.content, packed |-> item.packed]]
      <4>1. Become(w, t) /\ t.pc = "packCheck"
        BY <3>2 DEF Dequeue, Idle
      <4> HIDE DEF t
      <4> QED BY <1>0, <4>1, BecomeNext
    <3>3. ASSUME NEW m \in Sizes, Pack(w, m) PROVE task'[w].pc # "packUsed"
      <4> DEFINE t == [task[w] EXCEPT !.pc = "packStat", !.old = m]
      <4>1. Become(w, t) /\ t.pc = "packStat"
        BY <1>0, <3>3 DEF Pack, Task
      <4> HIDE DEF t
      <4> QED BY <1>0, <4>1, BecomeNext
    <3>4. ASSUME PackLoad(w) PROVE task'[w].pc # "packUsed"
      <4> DEFINE t == [task[w] EXCEPT !.pc = "pack", !.up = bucket[task[w].path].content]
      <4>1. (Become(w, t) \/ Goto(w, "packUnmark")) /\ t.pc = "pack"
        BY <1>0, <3>4 DEF PackLoad, Task
      <4> HIDE DEF t
      <4> QED BY <1>0, <4>1, BecomeNext
    <3> QED BY <1>4, <3>1, <3>2, <3>3, <3>4 DEF PackSteps
  <2> QED
    BY <1>0, <2>1, <2>2, Uncounted DEF Counted, Copying, Replacing, PackNames
<1> QED
  BY <1>2, <1>3, <1>4

---------------------------------------------------------------------------
(* A recount starts when no task is running, and no request may change a   *)
(* file until it has ended.                                                *)

LEMMA NobodyQuiet ==
  ASSUME Separate, NEW p \in Procs, At(p, "recomputeSet"), NEW path, NEW during
  PROVE  ~Quiet(path, during)
BY DEF Quiet, Involves, At, JobSteps, Separate

LEMMA NobodyStarts ==
  ASSUME TypeInv, Separate, NEW p \in Procs, At(p, "recomputeSet"), NEW q \in Procs,
         task[q].pc \notin Working,
         (q \in Requests /\ RequestSteps(q)) \/ (q \in Workers /\ PackSteps(q))
  PROVE  task'[q].pc \notin Working /\ UNCHANGED bucket
<1> DEFINE names == InitNames \cup AbortNames \cup RecomputeNames
           Resting == {"idle", "completeDelete"}
<1> USE NobodyQuiet
<1>1. names \cap Working = {} /\ Resting \cap Working = {}
  BY DEF InitNames, AbortNames, RecomputeNames, Working, MoveSteps, RenamingSteps, JobSteps
<1>2. CASE q \in Requests /\ (InitSteps(q) \/ AbortSteps(q) \/ RecomputeSteps(q))
  <2>1. Moved(q, names)
    BY <1>2, InitMoves, AbortMoves, RecomputeMoves DEF Moved
  <2>2. UNCHANGED bucket
    BY <1>2 DEF InitSteps, InitBegin, InitCheck, InitStat, InitReserve, InitRefuse, InitMultipart,
       InitRelease, InitSave, AbortSteps, AbortBegin, AbortS3, AbortRelease, AbortDelete,
       RecomputeSteps, RecomputeList, RecomputeSet, stores, objects
  <2> HIDE DEF names
  <2> QED BY <1>1, <2>1, <2>2 DEF Moved
<1>3. CASE q \in Requests /\ CompleteSteps(q)
  <2>1. CompleteRelease(q) \/ CompleteDelete(q)
    <3>1. ~CompleteStat(q) /\ ~CompleteS3(q) /\ ~CompleteS3Error(q) /\ ~CompleteRestat(q) /\ ~CompleteUsed(q)
      BY DEF CompleteStat, CompleteS3, CompleteS3Error, CompleteRestat, CompleteUsed, At, Working
    <3> QED BY <1>3, <3>1 DEF CompleteSteps, CompleteBegin
  <2>2. (Goto(q, "completeDelete") \/ Finish(q)) /\ UNCHANGED bucket
    BY <2>1 DEF CompleteRelease, CompleteDelete, objects
  <2>3. task'[q].pc \in Resting
    BY <2>2, BecomeNext
  <2> HIDE DEF Resting
  <2> QED BY <1>1, <2>2, <2>3
<1>4. ~(q \in Requests /\ DeleteSteps(q))
  <2>1. ~DeleteList(q) /\ (\A k \in Keys : ~DeleteRemove(q, k)) /\ ~DeleteError(q) /\ ~DeleteUsed(q)
    BY DEF DeleteList, DeleteRemove, DeleteError, DeleteUsed, At, Working
  <2> QED BY <2>1 DEF DeleteSteps, DeleteBegin
<1>5. ~(q \in Requests /\ RenameSteps(q))
  <2>1. RenamingSteps \subseteq Working
    BY DEF Working, MoveSteps
  <2>2. /\ ~RenameCheck(q) /\ ~RenameCollide(q) /\ ~RenameMark(q) /\ ~RenameCopied(q)
        /\ ~RenamePublish(q) /\ ~RenameUnmark(q)
        /\ \A k \in Keys : ~RenameCopy(q, k) /\ ~RenameRemove(q, k)
    BY <2>1 DEF RenameCheck, RenameCollide, RenameMark, RenameCopied, RenamePublish, RenameUnmark,
       RenameCopy, RenameRemove, At, RenamingSteps
  <2> QED BY <2>2 DEF RenameSteps, RenameBegin
<1>6. ~(q \in Workers /\ PackSteps(q))
  <2>1. Packing \subseteq Working
    BY DEF Packing, PackNames, Working, MoveSteps, JobSteps
  <2>2. /\ ~PackCheck(q) /\ ~PackDiskFull(q) /\ ~PackMark(q) /\ ~PackLoad(q) /\ ~PackNothing(q)
        /\ ~PackRequeue(q) /\ ~PackStat(q) /\ ~PackPut(q) /\ ~PackUsed(q) /\ ~PackUnmark(q)
        /\ \A m \in Sizes : ~Pack(q, m)
    BY <2>1 DEF PackCheck, PackDiskFull, PackMark, PackLoad, PackNothing, PackRequeue, PackStat,
       PackPut, PackUsed, PackUnmark, Pack, At, Packing, PackNames
  <2> QED BY <2>2 DEF PackSteps, Dequeue
<1> QED
  BY <1>2, <1>3, <1>4, <1>5, <1>6 DEF RequestSteps

LEMMA CountingNext ==
  ASSUME TypeInv, Calm, Counting, [Next]_vars
  PROVE  Counting'
<1> SUFFICES ASSUME NEW p \in Procs, task'[p].pc = "recomputeSet"
             PROVE  task'[p].n = BytesIn(Keys)' /\ \A q \in Procs : task'[q].pc \notin Working
  BY DEF Counting, At
<1>0. Separate /\ TypeOK /\ "idle" \notin Working
  BY DEF Calm, TypeInv, Working, MoveSteps, RenamingSteps, JobSteps
<1>1. CASE RecomputeList(p)
  <2> DEFINE t == [Idle EXCEPT !.pc = "recomputeSet", !.n = BytesIn(Keys)]
  <2>1. Become(p, t) /\ (\A q \in Procs : task[q].pc = "idle") /\ UNCHANGED bucket
    BY <1>1, <1>0 DEF RecomputeList, AllQuiet, Separate, At, stores, objects
  <2>2. t.pc = "recomputeSet" /\ t.n = BytesIn(Keys)
    BY DEF Idle
  <2> HIDE DEF t
  <2>3. task'[p] = t /\ \A q \in Procs \ {p} : task'[q] = task[q]
    BY <2>1, BecomeNext, OthersKept
  <2>4. BytesIn(Keys)' = BytesIn(Keys)
    BY <2>1, BytesSame
  <2>5. "recomputeSet" \notin Working
    BY DEF Working, MoveSteps, RenamingSteps, JobSteps
  <2> QED BY <1>0, <2>1, <2>2, <2>3, <2>4, <2>5
<1>2. ASSUME task[p].pc = "recomputeSet", task'[p] = task[p], UNCHANGED bucket,
             \A q \in Procs : task'[q].pc \notin Working
      PROVE  task'[p].n = BytesIn(Keys)'
  BY <1>2, BytesSame DEF Counting, At
<1>3. ASSUME NEW q \in Procs, (q \in Requests /\ RequestSteps(q)) \/ (q \in Workers /\ PackSteps(q)),
             ~RecomputeList(p)
      PROVE  task'[p].n = BytesIn(Keys)' /\ \A o \in Procs : task'[o].pc \notin Working
  <2>0. \E t : Become(q, t)
    BY <1>3, InitMoves, CompleteMoves, AbortMoves, DeleteMoves, RecomputeMoves, RenameMoves, PackMoves
       DEF RequestSteps, Moved
  <2>1. q # p
    <3> SUFFICES ASSUME q = p PROVE FALSE
      OBVIOUS
    <3> DEFINE names == InitNames \cup CompleteNames \cup AbortNames \cup DeleteNames \cup RenameNames \cup PackNames
    <3>1. Moved(p, names) \/ RecomputeSet(p)
      BY <1>3, InitMoves, CompleteMoves, AbortMoves, DeleteMoves, RenameMoves, PackMoves
         DEF RequestSteps, Moved, RecomputeSteps
    <3>2. RecomputeSet(p) => task'[p].pc = "idle"
      BY BecomeNext DEF RecomputeSet
    <3>3. "recomputeSet" \notin names
      BY DEF InitNames, CompleteNames, AbortNames, DeleteNames, RenameNames, RenamingSteps, PackNames
    <3> HIDE DEF names
    <3> QED BY <3>1, <3>2, <3>3 DEF Moved
  <2>2. \A o \in Procs \ {q} : task'[o] = task[o]
    BY <2>0, OthersKept
  <2>3. task[p].pc = "recomputeSet" /\ \A o \in Procs : task[o].pc \notin Working
    BY <2>1, <2>2 DEF Counting, At
  <2>4. task'[q].pc \notin Working /\ UNCHANGED bucket
    BY <1>0, <1>3, <2>3, NobodyStarts DEF At
  <2> QED BY <1>2, <2>1, <2>2, <2>3, <2>4
<1>4. CASE UNCHANGED <<task, bucket>>
  BY <1>2, <1>4 DEF Counting, At
<1>5. CASE UNCHANGED vars \/ SweepSteps \/ \E u \in UploadIds : Expire(u)
  BY <1>4, <1>5 DEF vars, SweepSteps, SweepBegin, SweepAbort, SweepDelete, Expire, objects
<1> QED
  BY <1>1, <1>3, <1>5 DEF Next, Restart, Calm, Procs

\* All that UsageLedger needs, beside FilesInv.
UsageInv == UsageLedger /\ AllAccounted /\ Counting

LEMMA UsageNext ==
  ASSUME TypeInv, FilesInv, Unfailed, Calm, UsageInv, [Next]_vars, TypeInv', FilesInv'
  PROVE  UsageInv'
<1>1. Counting'
  BY CountingNext DEF UsageInv
<1>2. ASSUME NEW p \in Procs, Balances(p) PROVE UsageLedger' /\ AllAccounted'
  BY <1>2, UsageStep DEF UsageInv
<1>3. ASSUME NEW r \in Requests, RequestSteps(r) PROVE UsageLedger' /\ AllAccounted'
  <2>1. Balances(r)
    BY <1>3, OtherBalances, RecountBalances, CompleteBalances, DeleteBalances, RenameBalances
       DEF UsageInv, RequestSteps, RecomputeSteps
  <2> QED BY <1>2, <2>1 DEF Procs
<1>4. ASSUME NEW w \in Workers, PackSteps(w) PROVE UsageLedger' /\ AllAccounted'
  <2>1. Balances(w)
    BY <1>4, PackBalances DEF UsageInv
  <2> QED BY <1>2, <2>1 DEF Procs
<1>5. CASE UNCHANGED vars \/ SweepSteps \/ \E u \in UploadIds : Expire(u)
  <2>1. UNCHANGED <<task, bucket, plan, usedBytes>>
    BY <1>5 DEF vars, SweepSteps, SweepBegin, SweepAbort, SweepDelete, Expire, objects, accounts
  <2>2. \A S : BytesIn(S)' = BytesIn(S)
    BY <2>1 DEF BytesIn
  <2>3. \A p \in Procs : Gained(p)' = Gained(p) /\ Lost(p)' = Lost(p)
    BY <2>1, <2>2 DEF Gained, Lost, BytesIn
  <2>4. /\ [p \in Procs |-> Gained(p)]' = [p \in Procs |-> Gained(p)]
        /\ [p \in Procs |-> Lost(p)]' = [p \in Procs |-> Lost(p)]
    BY <2>3
  <2>5. UsageLedger'
    BY <2>1, <2>2, <2>4 DEF UsageInv, UsageLedger
  <2>6. AllAccounted'
    BY <2>1 DEF UsageInv, AllAccounted, Accounted, BytesIn
  <2> QED BY <1>1, <2>5, <2>6 DEF UsageInv
<1> QED
  BY <1>1, <1>3, <1>4, <1>5 DEF Next, Restart, Calm, UsageInv

LEMMA UsageInit ==
  ASSUME Init
  PROVE  UsageInv
<1>0. TypeInv
  BY InitType
<1>1. (\A p \in Procs : task[p].pc = "idle") /\ usedBytes = 0 /\ bucket = [k \in Keys |-> NoObject]
  BY DEF Init, Idle
<1>2. AllAccounted /\ Counting
  BY <1>1 DEF AllAccounted, Accounted, Counting, At
<1>3. BytesIn(Keys) = 0
  <2> DEFINE f == [k \in Keys |-> bucket[k].size]
  <2>1. f \in [Keys -> Nat] /\ \A k \in Keys : f[k] = 0
    BY <1>1 DEF NoObject
  <2>2. BytesIn(Keys) = TotalBytes(f)
    BY DEF BytesIn
  <2> HIDE DEF f
  <2> QED BY <2>1, <2>2, SumOfNothing
<1>4. \A p \in Procs : Gained(p) = 0 /\ Lost(p) = 0
  BY <1>1, GainedCases, LostCases DEF Copying, Replacing, LossOf
<1>5. TotalBytes([p \in Procs |-> Gained(p)]) = 0 /\ TotalBytes([p \in Procs |-> Lost(p)]) = 0
  <2>1. [p \in Procs |-> Gained(p)] \in [Procs -> Nat] /\ [p \in Procs |-> Lost(p)] \in [Procs -> Nat]
    BY <1>4
  <2> QED BY <1>4, <2>1, SumOfNothing
<1>6. UsageLedger
  BY <1>1, <1>3, <1>5 DEF UsageLedger
<1> QED
  BY <1>2, <1>6 DEF UsageInv

\* In the conditions of FilesAreStored, usedBytes follows the bucket through
\* every complete, delete, rename, recompression and recount: it differs from
\* the bytes of the objects only by what running tasks have yet to count.
THEOREM UsageIsExact ==
  Calm => (Spec /\ [][NoStaleRename]_vars => []UsageLedger)
<1> SUFFICES ASSUME Calm PROVE Spec /\ [][NoStaleRename]_vars => []UsageLedger
  OBVIOUS
<1>1. Separate
  BY DEF Calm
<1>2. Init => Unfailed /\ UsageInv
  BY StoreInit, UsageInit
<1>3. TypeInv /\ FilesInv /\ Unfailed /\ [Next]_vars => Unfailed'
  BY UnfailedNext
<1>4. TypeInv /\ FilesInv /\ Unfailed /\ UsageInv /\ [Next]_vars /\ TypeInv' /\ FilesInv' => UsageInv'
  BY UsageNext
<1>5. UsageInv => UsageLedger
  BY DEF UsageInv
<1> QED
  BY <1>1, <1>2, <1>3, <1>4, <1>5, FilesInit, FilesNext, InitType, NextType, PTL DEF Spec

---------------------------------------------------------------------------
(* The quota.  An upload that replaces an object is charged only for what  *)
(* it adds, so that the bytes reserved and the bytes used may add up to    *)
(* less than what is in the bucket and what is to come; the discount is    *)
(* sound when each key is counted with its largest prospect.               *)

\* A sum whose terms find larger ones in another.
LEMMA SumOfSome ==
  ASSUME NEW S, IsFiniteSet(S), NEW f \in [S -> Nat], NEW T, IsFiniteSet(T), NEW g \in [T -> Nat],
         NEW c \in [S -> T], \A x, y \in S : c[x] = c[y] => x = y,
         \A x \in S : f[x] <= g[c[x]]
  PROVE  TotalBytes(f) <= TotalBytes(g)
<1> DEFINE map == [z \in Tokens(f) |-> <<c[z[1]], z[2]>>]
<1>1. \A z \in Tokens(f) : z = <<z[1], z[2]>> /\ z[1] \in S /\ z[2] \in 1..f[z[1]]
  BY DEF Tokens, TokensOf
<1>2. ASSUME NEW z \in Tokens(f) PROVE <<c[z[1]], z[2]>> \in Tokens(g)
  <2>1. z[1] \in S /\ z[2] \in 1..f[z[1]] /\ f[z[1]] <= g[c[z[1]]] /\ c[z[1]] \in T
    BY <1>1
  <2>2. z[2] \in 1..g[c[z[1]]]
    BY <2>1
  <2> QED BY <2>1, <2>2 DEF Tokens, TokensOf
<1>3. map \in Injection(Tokens(f), Tokens(g))
  <2>1. ASSUME NEW y \in Tokens(f), NEW z \in Tokens(f), map[y] = map[z] PROVE y = z
    <3>1. c[y[1]] = c[z[1]] /\ y[2] = z[2]
      BY <2>1
    <3> QED BY <1>1, <3>1
  <2> QED BY <1>2, <2>1 DEF Injection, IsInjective
<1>4. IsFiniteSet(Tokens(g))
  BY TokensFinite
<1> HIDE DEF map
<1> QED
  BY <1>3, <1>4, FS_Injection DEF TotalBytes

\* A sum over two disjoint sets.
LEMMA SumOfTwo ==
  ASSUME NEW S, IsFiniteSet(S)
  PROVE  \A f \in [S -> Nat], A \in SUBSET S :
           TotalBytes(f) = TotalBytes([x \in A |-> f[x]]) + TotalBytes([x \in S \ A |-> f[x]])
<1> TAKE f \in [S -> Nat], A \in SUBSET S
<1> DEFINE a == [x \in A |-> f[x]]
           b == [x \in S \ A |-> f[x]]
<1>1. IsFiniteSet(A) /\ IsFiniteSet(S \ A) /\ a \in [A -> Nat] /\ b \in [S \ A -> Nat]
  BY FS_Subset
<1>2. IsFiniteSet(Tokens(a)) /\ IsFiniteSet(Tokens(b))
  BY <1>1, TokensFinite
<1>3. DOMAIN a = A /\ DOMAIN b = S \ A /\ (\A x \in A : a[x] = f[x]) /\ \A x \in S \ A : b[x] = f[x]
  OBVIOUS
<1> HIDE DEF a, b
<1>4. Tokens(f) = Tokens(a) \cup Tokens(b) /\ Tokens(a) \cap Tokens(b) = {}
  <2>1. \A x \in S : x \in A \/ x \in S \ A
    OBVIOUS
  <2>2. Tokens(f) = UNION {TokensOf(x, f[x]) : x \in S}
    BY DEF Tokens
  <2>3. Tokens(a) = UNION {TokensOf(x, f[x]) : x \in A}
    BY <1>3 DEF Tokens
  <2>4. Tokens(b) = UNION {TokensOf(x, f[x]) : x \in S \ A}
    BY <1>3 DEF Tokens
  <2>5. Tokens(f) = Tokens(a) \cup Tokens(b)
    BY <2>2, <2>3, <2>4
  <2>6. \A z \in Tokens(a) : z[1] \in A
    BY <2>3 DEF TokensOf
  <2>7. \A z \in Tokens(b) : z[1] \in S \ A
    BY <2>4 DEF TokensOf
  <2> QED BY <2>5, <2>6, <2>7
<1>5. Cardinality(Tokens(f)) = Cardinality(Tokens(a)) + Cardinality(Tokens(b)) - Cardinality({})
  BY <1>2, <1>4, FS_Union
<1>6. Cardinality(Tokens(a)) \in Nat /\ Cardinality(Tokens(b)) \in Nat /\ Cardinality({}) = 0
  BY <1>2, FS_CardinalityType, FS_EmptySet
<1> QED
  BY <1>5, <1>6 DEF TotalBytes, a, b

\* A bounded set of numbers has a largest: a smallest interval reaches from
\* one of them to the bound.
LEMMA LargestExists ==
  ASSUME NEW N \in Nat, NEW S, S \subseteq 0..N, S # {}
  PROVE  \E n \in S : \A m \in S : m <= n
<1> DEFINE T == {n..N : n \in S}
           R == StrictSubsetOrdering(0..N)
<1>1. IsFiniteSet(0..N)
  BY FS_Interval
<1>2. IsWellFoundedOn(R, FiniteSubsetsOf(0..N))
  BY FS_StrictSubsetOrderingWellFounded
<1>3. T \subseteq FiniteSubsetsOf(0..N) /\ T # {}
  <2>1. FiniteSubsetsOf(0..N) = SUBSET (0..N)
    BY <1>1, FS_FiniteSubsetsOfFinite
  <2>2. \A n \in S : n..N \in SUBSET (0..N)
    OBVIOUS
  <2>3. T \subseteq SUBSET (0..N) /\ T # {}
    BY <2>2
  <2> QED BY <2>1, <2>3
<1>4. \A x, y \in T : y \subseteq x /\ y # x => <<y, x>> \in R
  BY DEF StrictSubsetOrdering
<1> HIDE DEF R
<1>5. PICK x \in T : \A y \in T : ~ (<<y, x>> \in R)
  BY <1>2, <1>3, WFMin
<1>6. PICK n \in S : x = n..N
  BY <1>5
<1>7. ASSUME NEW m \in S, m > n PROVE FALSE
  <2>1. m..N \subseteq n..N /\ n \in n..N /\ n \notin m..N
    BY <1>7
  <2> QED BY <1>4, <1>5, <1>6, <2>1
<1> QED BY <1>7

---------------------------------------------------------------------------
(* The largest prospect of each key.                                       *)

Coming(k) == {v \in docs \cap multipart : plan[v].key = k}
Largest == [k \in Keys |-> CHOOSE n \in Prospects(k) : \A m \in Prospects(k) : m <= n]

LargestKnown ==
  \A k \in Keys : /\ Largest[k] \in Prospects(k) /\ Prospects(k) \subseteq Nat
                  /\ \A m \in Prospects(k) : m <= Largest[k]

LEMMA ComingFinite ==
  ASSUME TypeInv, NEW S \in SUBSET docs
  PROVE  IsFiniteSet(S) /\ [u \in S |-> plan[u].size] \in [S -> Nat]
<1>1. S \subseteq UploadIds
  BY DEF TypeInv, TypeOK, StoresOK
<1>2. IsFiniteSet(S)
  BY <1>1, DriveAssumption, FS_Subset
<1> QED
  BY <1>1, <1>2 DEF TypeInv, TypeOK, StoresOK, Plan

LEMMA LargestIsKnown == TypeInv => LargestKnown
<1> SUFFICES ASSUME TypeInv, NEW k \in Keys
             PROVE  /\ Largest[k] \in Prospects(k) /\ Prospects(k) \subseteq Nat
                    /\ \A m \in Prospects(k) : m <= Largest[k]
  BY DEF LargestKnown
<1> DEFINE f == [u \in docs |-> plan[u].size]
           N == bucket[k].size + TotalBytes(f)
<1>1. IsFiniteSet(docs) /\ f \in [docs -> Nat] /\ \A u \in docs : f[u] = plan[u].size
  BY ComingFinite
<1> HIDE DEF f
<1>2. bucket[k].size \in Nat /\ TotalBytes(f) \in Nat
  BY <1>1, TotalBytesType DEF TypeInv, TypeOK, StoresOK, Object
<1>3. ASSUME NEW u \in docs PROVE plan[u].size \in 0..N
  <2>1. TotalBytes(f) - f[u] \in Nat
    BY <1>1, SumChange
  <2>2. f[u] \in Nat /\ f[u] = plan[u].size
    BY <1>1
  <2> QED BY <1>2, <2>1, <2>2
<1>4. bucket[k].size \in 0..N /\ N \in Nat
  BY <1>2
<1> HIDE DEF N
<1>5. Prospects(k) \subseteq 0..N /\ Prospects(k) # {}
  BY <1>3, <1>4 DEF Prospects
<1>6. \E n \in Prospects(k) : \A m \in Prospects(k) : m <= n
  BY <1>4, <1>5, LargestExists
<1>7. Largest[k] = CHOOSE n \in Prospects(k) : \A m \in Prospects(k) : m <= n
  BY DEF Largest
<1> QED
  BY <1>5, <1>6, <1>7

LEMMA LargestNext == TypeInv' => LargestKnown'
BY LargestIsKnown, PTL

LEMMA WorstCaseIs ==
  ASSUME TypeInv
  PROVE  WorstCase = TotalBytes(Largest) /\ IsFiniteSet(Keys) /\ Largest \in [Keys -> Nat]
<1>1. Largest \in [Keys -> Nat]
  <2>1. \A k \in Keys : Largest[k] \in Nat
    BY LargestIsKnown DEF LargestKnown
  <2>2. Largest = [k \in Keys |-> Largest[k]]
    BY DEF Largest
  <2> QED BY <2>1, <2>2
<1> QED
  BY <1>1, BytesTyped DEF WorstCase, Largest

WorstCaseKnown == WorstCase = TotalBytes(Largest) /\ IsFiniteSet(Keys) /\ Largest \in [Keys -> Nat]
LEMMA WorstCaseNext == TypeInv' => WorstCaseKnown'
<1>1. TypeInv => WorstCaseKnown
  BY WorstCaseIs DEF WorstCaseKnown
<1> QED BY <1>1, PTL

LEMMA WorstCaseTyped == TypeInv => WorstCase \in Nat
<1> SUFFICES ASSUME TypeInv PROVE WorstCase \in Nat
  OBVIOUS
<1> QED BY WorstCaseIs, TotalBytesType

\* As long as no key gets a prospect larger than it had, the worst case does
\* not get worse.
LEMMA WorstCaseKept ==
  ASSUME TypeInv, TypeInv', \A k \in Keys : \A m \in Prospects(k)' : \E n \in Prospects(k) : m <= n
  PROVE  WorstCase' <= WorstCase
<1> DEFINE f == Largest'
           c == [k \in Keys |-> k]
<1>1. f \in [Keys -> Nat] /\ WorstCase' = TotalBytes(f)
  BY WorstCaseNext DEF WorstCaseKnown
<1>2. Largest \in [Keys -> Nat] /\ WorstCase = TotalBytes(Largest) /\ IsFiniteSet(Keys)
  BY WorstCaseIs
<1>3. ASSUME NEW k \in Keys PROVE f[k] <= Largest[k]
  <2>1. f[k] \in Prospects(k)'
    BY LargestNext DEF LargestKnown
  <2>2. PICK n \in Prospects(k) : f[k] <= n
    BY <2>1
  <2>3. n <= Largest[k] /\ n \in Nat
    BY LargestIsKnown DEF LargestKnown
  <2> QED BY <1>1, <1>2, <2>2, <2>3
<1> HIDE DEF f
<1>4. c \in [Keys -> Keys] /\ (\A x, y \in Keys : c[x] = c[y] => x = y) /\ \A x \in Keys : f[x] <= Largest[c[x]]
  BY <1>3
<1> HIDE DEF c
<1>5. TotalBytes(f) <= TotalBytes(Largest)
  BY <1>1, <1>2, <1>4, SumOfSome
<1> QED
  BY <1>1, <1>2, <1>5

\* Without one of the keys, the worst case is no more than what is in the
\* bucket and what is to come.
LEMMA WorstElsewhere ==
  ASSUME TypeInv, NEW S \in SUBSET Keys
  PROVE  TotalBytes([k \in S |-> Largest[k]]) <= BytesIn(S) + TotalBytes([u \in docs |-> plan[u].size])
<1> DEFINE f == [k \in S |-> Largest[k]]
           A == {k \in S : Largest[k] = bucket[k].size}
           B == S \ A
           fA == [k \in A |-> f[k]]
           fB == [k \in B |-> f[k]]
           b == [k \in S |-> bucket[k].size]
           g == [u \in docs |-> plan[u].size]
           id == [k \in A |-> k]
           c == [k \in B |-> CHOOSE u \in Coming(k) : plan[u].size = Largest[k]]
<1>1. IsFiniteSet(S) /\ f \in [S -> Nat] /\ b \in [S -> Nat] /\ BytesIn(S) = TotalBytes(b)
  BY WorstCaseIs, BytesTyped DEF BytesIn
<1>2. IsFiniteSet(docs) /\ g \in [docs -> Nat]
  BY ComingFinite
<1>3. IsFiniteSet(A) /\ IsFiniteSet(B) /\ fA \in [A -> Nat] /\ fB \in [B -> Nat]
  BY <1>1, FS_Subset
<1>4. TotalBytes(f) = TotalBytes(fA) + TotalBytes(fB)
  <2>1. A \in SUBSET S /\ IsFiniteSet(S)
    BY <1>1
  <2> HIDE DEF f, A
  <2>2. \A h \in [S -> Nat], Z \in SUBSET S :
          TotalBytes(h) = TotalBytes([k \in Z |-> h[k]]) + TotalBytes([k \in S \ Z |-> h[k]])
    BY <2>1, SumOfTwo
  <2> QED BY <1>1, <2>1, <2>2
<1>5. TotalBytes(fA) <= TotalBytes(b)
  <2>1. id \in [A -> S] /\ (\A x, y \in A : id[x] = id[y] => x = y)
    OBVIOUS
  <2>2. \A x \in A : fA[x] <= b[id[x]]
    BY <1>1
  <2> HIDE DEF fA, b, id, A
  <2> QED BY <1>1, <1>3, <2>1, <2>2, SumOfSome
<1>6. ASSUME NEW k \in B PROVE c[k] \in docs /\ plan[c[k]].key = k /\ plan[c[k]].size = Largest[k]
  <2>1. k \in Keys /\ Largest[k] # bucket[k].size
    OBVIOUS
  <2>2. \E u \in Coming(k) : plan[u].size = Largest[k]
    BY <2>1, LargestIsKnown DEF LargestKnown, Prospects, Coming
  <2>3. c[k] = CHOOSE u \in Coming(k) : plan[u].size = Largest[k]
    OBVIOUS
  <2> HIDE DEF c
  <2> QED BY <2>2, <2>3 DEF Coming
<1>7. TotalBytes(fB) <= TotalBytes(g)
  <2>1. c \in [B -> docs]
    BY <1>6
  <2>2. \A x, y \in B : c[x] = c[y] => x = y
    BY <1>6
  <2>3. \A x \in B : fB[x] <= g[c[x]]
    <3>1. \A x \in B : fB[x] = Largest[x] /\ fB[x] \in Nat
      BY <1>3
    <3>2. \A x \in B : g[c[x]] = Largest[x]
      BY <1>6
    <3> QED BY <3>1, <3>2
  <2> HIDE DEF fB, c, B, g
  <2> QED BY <1>2, <1>3, <2>1, <2>2, <2>3, SumOfSome
<1>8. TotalBytes(fA) \in Nat /\ TotalBytes(fB) \in Nat /\ TotalBytes(b) \in Nat /\ TotalBytes(g) \in Nat
  BY <1>1, <1>2, <1>3, TotalBytesType
<1> HIDE DEF f, fA, fB, b, g
<1>9. TotalBytes(f) <= BytesIn(S) + TotalBytes(g)
  BY <1>1, <1>4, <1>5, <1>7, <1>8
<1> QED
  BY <1>9 DEF f, g

---------------------------------------------------------------------------
(* What the theorem assumes, and the inductive invariant.                  *)

\* One request at a time, none of them a rename, which holds its files twice
\* for a while; workers go on beside it.
Sequential == /\ Calm /\ Undisturbed /\ ~Allows("rename")
              /\ \A r, s \in Requests : r = s

NoRenames == \A p \in Procs : task[p].pc \notin RenamingSteps

\* What uploadInit has read covers the bucket, and what it has reserved is
\* within the quota together with all that it does not replace.
Priced(t) ==
  /\ t.pc \in {"initCheck", "initStat"} => BytesIn(Keys) <= t.old
  /\ t.pc = "initReserve" => BytesIn(Keys \ {t.path}) <= t.old
  /\ t.pc \in {"initMultipart", "initSave"} => BytesIn(Keys \ {t.path}) + reserved <= Quota
  /\ t.pc \in {"initSave", "completeStat", "completeS3"} => plan[t.up].key = t.path
PricedSteps == {"initCheck", "initStat", "initReserve", "initMultipart", "initSave",
                "completeStat", "completeS3"}

\* What each open upload was charged is forgotten as soon as it is saved: what
\* remains is that the worst case fits.
QuotaInv == QuotaRespected /\ NoRenames /\ \A r \in Requests : Priced(task[r])

LEMMA BytesLess ==
  ASSUME TypeInv, TypeInv', \A k \in Keys : bucket'[k].size <= bucket[k].size, NEW S \in SUBSET Keys
  PROVE  BytesIn(S)' <= BytesIn(S) /\ BytesIn(S)' \in Nat /\ BytesIn(S) \in Nat
<1> DEFINE f == [k \in S |-> bucket'[k].size]
           g == [k \in S |-> bucket[k].size]
           id == [k \in S |-> k]
<1>1. IsFiniteSet(S) /\ g \in [S -> Nat] /\ BytesIn(S) = TotalBytes(g)
  BY BytesTyped DEF BytesIn
<1>2. f \in [S -> Nat] /\ BytesIn(S)' = TotalBytes(f)
  BY DEF BytesIn, TypeInv, TypeOK, StoresOK, Object
<1>3. /\ id \in [S -> S] /\ \A x, y \in S : id[x] = id[y] => x = y
      /\ \A x \in S : f[x] <= g[id[x]]
  OBVIOUS
<1> HIDE DEF f, g, id
<1>4. TotalBytes(f) <= TotalBytes(g)
  BY <1>1, <1>2, <1>3, SumOfSome
<1> QED
  BY <1>1, <1>2, <1>4, TotalBytesType

\* A step that makes objects smaller, if anything, and opens no upload.
LEMMA ProspectsShrink ==
  ASSUME TypeInv, TypeInv', \A k \in Keys : bucket'[k].size <= bucket[k].size,
         \A u \in docs' \cap multipart' : u \in docs \cap multipart /\ plan'[u] = plan[u]
  PROVE  WorstCase' <= WorstCase
<1> SUFFICES ASSUME NEW k \in Keys, NEW m \in Prospects(k)' PROVE \E n \in Prospects(k) : m <= n
  BY WorstCaseKept
<1>1. Prospects(k) \subseteq Nat /\ Prospects(k)' \subseteq Nat
  BY LargestIsKnown, LargestNext DEF LargestKnown
<1>2. CASE m = bucket'[k].size
  BY <1>2 DEF Prospects
<1>3. ASSUME NEW u \in docs' \cap multipart', plan'[u].key = k, m = plan'[u].size
      PROVE  \E n \in Prospects(k) : m <= n
  <2>1. m \in Prospects(k)
    BY <1>3 DEF Prospects
  <2> QED BY <1>1, <2>1
<1> QED
  BY <1>2, <1>3 DEF Prospects

\* The object that an upload makes was a prospect of its key.
LEMMA CompleteShrinks ==
  ASSUME TypeInv, TypeInv', LedgerInv, QuotaInv, NEW r \in Requests, CompleteS3(r)
  PROVE  WorstCase' <= WorstCase
<1> SUFFICES ASSUME NEW k \in Keys, NEW m \in Prospects(k)' PROVE \E n \in Prospects(k) : m <= n
  BY WorstCaseKept
<1>1. Prospects(k) \subseteq Nat /\ Prospects(k)' \subseteq Nat
  BY LargestIsKnown, LargestNext DEF LargestKnown
<1>2. /\ bucket'[task[r].path] = Uploaded(task[r].up)
      /\ \A j \in Keys \ {task[r].path} : bucket'[j] = bucket[j]
      /\ task[r].pc = "completeS3"
  BY CompleteS3Writes DEF At
<1>3. task[r].up \in docs \cap multipart /\ plan[task[r].up].key = task[r].path
  BY <1>2 DEF CompleteS3, LedgerInv, Settled, FinishSteps, QuotaInv, Priced
<1>4. UNCHANGED <<docs, plan>> /\ multipart' \subseteq multipart
  BY DEF CompleteS3
<1>5. m \in Prospects(k)
  <2>1. CASE m = bucket'[k].size
    <3>1. CASE k = task[r].path
      BY <1>2, <1>3, <2>1, <3>1 DEF Prospects, Uploaded
    <3>2. CASE k # task[r].path
      BY <1>2, <2>1, <3>2 DEF Prospects
    <3> QED BY <3>1, <3>2
  <2>2. CASE m # bucket'[k].size
    BY <1>4, <2>2 DEF Prospects
  <2> QED BY <2>1, <2>2
<1> QED
  BY <1>1, <1>5

\* No document is new but that of an upload that init saves.
LEMMA UploadsShrink ==
  ASSUME TypeInv, [Next]_vars, \A r \in Requests : ~InitSave(r)
  PROVE  \A u \in docs' \cap multipart' : u \in docs \cap multipart /\ plan'[u] = plan[u]
<1>0. plan \in [UploadIds -> Plan] /\ docs \subseteq UploadIds
  BY DEF TypeInv, TypeOK, StoresOK
<1>1. ASSUME docs' \subseteq docs, multipart' \subseteq multipart, plan' = plan
      PROVE  \A u \in docs' \cap multipart' : u \in docs \cap multipart /\ plan'[u] = plan[u]
  BY <1>1
<1>2. CASE \E r \in Requests, u \in UploadIds : InitMultipart(r, u)
  <2>1. PICK r \in Requests, u \in UploadIds : InitMultipart(r, u)
    BY <1>2
  <2>2. u \notin docs
    BY <2>1, DriveAssumption DEF InitMultipart, TypeInv, Planned, NoPlan, Paths
  <2>3. docs' = docs /\ multipart' = multipart \cup {u} /\ \A v \in UploadIds \ {u} : plan'[v] = plan[v]
    BY <1>0, <2>1 DEF InitMultipart
  <2> QED BY <1>0, <2>2, <2>3
<1>3. ASSUME NEW r \in Requests, RequestSteps(r), \A u \in UploadIds : ~InitMultipart(r, u)
      PROVE  docs' \subseteq docs /\ multipart' \subseteq multipart /\ plan' = plan
  <2> USE DEF stores, uploads
  <2>1. CASE InitSteps(r)
    BY <1>3, <2>1 DEF InitSteps, InitBegin, InitCheck, InitStat, InitReserve, InitRefuse, InitRelease
  <2>2. CASE CompleteSteps(r) \/ AbortSteps(r)
    BY <2>2 DEF CompleteSteps, CompleteBegin, CompleteStat, CompleteS3, CompleteS3Error,
       CompleteRestat, CompleteUsed, CompleteRelease, CompleteDelete, AbortSteps, AbortBegin, AbortS3,
       AbortRelease, AbortDelete
  <2>3. CASE DeleteSteps(r) \/ RecomputeSteps(r)
    BY <2>3 DEF DeleteSteps, DeleteBegin, DeleteList, DeleteRemove, DeleteError, DeleteUsed,
       RecomputeSteps, RecomputeList, RecomputeSet
  <2>4. CASE RenameSteps(r)
    BY <2>4 DEF RenameSteps, RenameBegin, RenameCheck, RenameCollide, RenameMark, RenameCopy,
       RenameCopied, RenameRemove, RenamePublish, RenameUnmark
  <2> QED BY <1>3, <2>1, <2>2, <2>3, <2>4 DEF RequestSteps
<1>4. ASSUME NEW w \in Workers, PackSteps(w) PROVE UNCHANGED <<docs, multipart, plan>>
  BY <1>4 DEF PackSteps, Dequeue, PackCheck, PackDiskFull, PackMark, PackLoad, Pack, PackNothing,
     PackRequeue, PackStat, PackPut, PackUsed, PackUnmark, stores, uploads
<1>5. CASE SweepSteps \/ (\E u \in UploadIds : Expire(u)) \/ Restart \/ UNCHANGED vars
  <2>1. docs' \subseteq docs /\ multipart' \subseteq multipart /\ plan' = plan
    BY <1>5 DEF SweepSteps, SweepBegin, SweepAbort, SweepDelete, Expire, Restart, vars
  <2> QED BY <1>1, <2>1
<1> QED
  BY <1>1, <1>2, <1>3, <1>4, <1>5 DEF Next

LEMMA NoRenaming ==
  ASSUME Sequential, NoRenames, NEW r \in Requests
  PROVE  ~RenameSteps(r)
<1>1. task[r].pc \notin RenamingSteps
  BY DEF NoRenames, Procs
<1> QED
  BY <1>1 DEF Sequential, RenameSteps, RenameBegin, RenameCheck, RenameCollide, RenameMark, RenameCopy,
     RenameCopied, RenameRemove, RenamePublish, RenameUnmark, At, RenamingSteps

\* Deletes and recompression make objects smaller.
LEMMA ObjectsShrink ==
  ASSUME TypeInv, FilesInv, Sequential, NoRenames, [Next]_vars, \A r \in Requests : ~CompleteS3(r)
  PROVE  \A k \in Keys : bucket'[k].size <= bucket[k].size
<1>0. \A k \in Keys : bucket[k].size \in Nat
  BY DEF TypeInv, TypeOK, StoresOK, Object
<1>1. CASE UNCHANGED bucket
  BY <1>0, <1>1
<1>2. CASE \E r \in Requests, k \in Keys : DeleteRemove(r, k)
  BY <1>0, <1>2, DeleteRemoveWrites DEF NoObject
<1>3. CASE \E w \in Workers : PackPut(w)
  BY <1>0, <1>3, PackPutWrites
<1>4. \A r \in Requests, k \in Keys : ~RenameCopy(r, k) /\ ~RenameRemove(r, k)
  BY NoRenaming DEF RenameSteps
<1> QED
  BY <1>1, <1>2, <1>3, <1>4, Writers

\* The document of an upload is saved: its key may now come to hold it.  If
\* that makes the worst case worse, all that the upload does not replace is
\* within the quota together with it.
LEMMA SaveFits ==
  ASSUME TypeInv, TypeInv', LedgerInv, Sequential, QuotaInv, NEW r \in Requests, InitSave(r)
  PROVE  QuotaRespected'
<1>u. PICK u : u = task[r].up
  OBVIOUS
<1>k. PICK k : k = task[r].path
  OBVIOUS
<1>n. PICK n : n = task[r].n
  OBVIOUS
<1>1. /\ task[r] \in Task /\ task[r].pc = "initSave" /\ Fitted(task[r], plan)
      /\ docs' = docs \cup {u} /\ UNCHANGED <<bucket, multipart, plan, reserved>>
  BY <1>u, TaskTyped DEF InitSave, At, Procs, Sequential, Undisturbed, objects, accounts
<1>2. u \notin docs /\ plan[u].size = n /\ plan[u].key = k /\ k \in Keys /\ n \in Nat
  BY <1>u, <1>k, <1>n, <1>1 DEF LedgerInv, Settled, Fitted, UploadSteps, Planned, QuotaInv, Priced, Task
<1>3. \A j \in Keys \ {k} : Prospects(j)' = Prospects(j)
  BY <1>1, <1>2 DEF Prospects
<1>4. \A m \in Prospects(k)' : m \in Prospects(k) \/ m = n
  BY <1>1, <1>2 DEF Prospects
<1>5. LargestKnown /\ LargestKnown'
  BY LargestIsKnown, LargestNext
<1>6. CASE n <= Largest[k]
  <2>1. ASSUME NEW j \in Keys, NEW m \in Prospects(j)' PROVE \E x \in Prospects(j) : m <= x
    <3>1. Prospects(j)' \subseteq Nat /\ Largest[j] \in Prospects(j)
      BY <1>5 DEF LargestKnown
    <3>2. m \in Prospects(j) \/ (j = k /\ m = n)
      BY <1>3, <1>4
    <3> QED BY <1>6, <3>1, <3>2
  <2>2. WorstCase' <= WorstCase
    BY <2>1, WorstCaseKept
  <2>3. WorstCase' \in Nat /\ WorstCase \in Nat
    BY WorstCaseTyped, WorstCaseNext, TotalBytesType DEF WorstCaseKnown
  <2> QED BY <2>2, <2>3, DriveAssumption DEF QuotaRespected, QuotaInv
<1>7. CASE ~(n <= Largest[k])
  <2> DEFINE S == Keys \ {k}
             f == Largest'
             rest == [j \in S |-> f[j]]
             old == [j \in S |-> Largest[j]]
             id == [j \in S |-> j]
  <2>1. f \in [Keys -> Nat] /\ WorstCase' = TotalBytes(f) /\ IsFiniteSet(Keys)
    BY WorstCaseNext DEF WorstCaseKnown
  <2>2. Largest \in [Keys -> Nat]
    BY WorstCaseIs
  <2>3. f[k] <= n
    <3>1. f[k] \in Prospects(k)' /\ f[k] \in Nat
      BY <1>2, <1>5, <2>1 DEF LargestKnown
    <3>2. CASE f[k] \in Prospects(k)
      <4>1. f[k] <= Largest[k] /\ Largest[k] \in Nat
        BY <1>2, <1>5, <2>2, <3>2 DEF LargestKnown
      <4> HIDE DEF f
      <4> QED BY <1>2, <1>7, <3>1, <4>1
    <3>3. CASE f[k] = n
      BY <1>2, <3>3
    <3> QED BY <1>4, <3>1, <3>2, <3>3
  <2>4. \A j \in S : f[j] <= Largest[j]
    BY <1>3, <1>5 DEF LargestKnown
  <2> HIDE DEF f
  <2>5. TotalBytes(f) = f[k] + TotalBytes(rest)
    BY <1>2, <2>1, TotalBytesSplit
  <2>6. IsFiniteSet(S) /\ rest \in [S -> Nat] /\ old \in [S -> Nat]
    BY <2>1, <2>2, FS_Subset
  <2>7. TotalBytes(rest) <= TotalBytes(old)
    <3>1. /\ id \in [S -> S] /\ \A x, y \in S : id[x] = id[y] => x = y
          /\ \A x \in S : rest[x] <= old[id[x]]
      BY <2>4
    <3> HIDE DEF rest, old, id, S
    <3> QED BY <2>6, <3>1, SumOfSome
  <2>8. TotalBytes(old) <= BytesIn(S) + TotalBytes([v \in docs |-> plan[v].size])
    BY WorstElsewhere
  <2>9. HeldByUploads = TotalBytes([v \in docs |-> plan[v].size])
    <3>1. \A q \in Requests, v \in docs : ~Finishes(q, v)
      BY <1>1 DEF Finishes, Sequential
    <3>2. OpenUploads = docs
      BY <3>1 DEF OpenUploads
    <3> QED BY <3>2 DEF HeldByUploads
  <2>10. n <= HeldByRequests
    <3> DEFINE g == [q \in Holders |-> task[q].n]
    <3>1. IsFiniteSet(Holders) /\ g \in [Holders -> Nat] /\ HeldByRequests = TotalBytes(g)
      BY HoldersFinite DEF HeldByRequests
    <3>2. r \in Holders /\ g[r] = n
      BY <1>1, <1>n DEF Holders
    <3> HIDE DEF g
    <3>3. TotalBytes(g) - g[r] \in Nat
      BY <3>1, <3>2, SumChange
    <3> QED BY <1>2, <3>1, <3>2, <3>3, TotalBytesType
  <2>11. reserved = HeldByUploads + HeldByRequests /\ HeldByUploads \in Nat /\ HeldByRequests \in Nat
    BY HeldTyped DEF LedgerInv, ReservationLedger
  <2>12. BytesIn(S) + reserved <= Quota /\ BytesIn(S) \in Nat
    BY <1>k, <1>1, BytesTyped DEF QuotaInv, Priced
  <2>13. f[k] \in Nat /\ TotalBytes(rest) \in Nat /\ TotalBytes(old) \in Nat /\ WorstCase' = TotalBytes(f)
    BY <1>2, <2>1, <2>6, TotalBytesType
  <2> HIDE DEF S, rest, old
  <2>14. WorstCase' <= Quota
    <3> DEFINE b == BytesIn(S)
               h == HeldByUploads
               q == HeldByRequests
               w == TotalBytes(rest)
               o == TotalBytes(old)
    <3>1. TotalBytes(f) = f[k] + w /\ f[k] <= n /\ w <= o /\ o <= b + h /\ n <= q /\ b + (h + q) <= Quota
      BY <2>3, <2>5, <2>7, <2>8, <2>9, <2>10, <2>11, <2>12 DEF old
    <3>2. f[k] \in Nat /\ w \in Nat /\ o \in Nat /\ b \in Nat /\ h \in Nat /\ q \in Nat
      BY <2>11, <2>12, <2>13
    <3> HIDE DEF b, h, q, w, o
    <3> QED BY <1>2, <2>13, <3>1, <3>2, DriveAssumption
  <2> QED BY <2>14 DEF QuotaRespected
<1> QED
  BY <1>6, <1>7

\* With nobody else than workers at work, usedBytes covers the bucket: what
\* a worker has yet to count, it will subtract.
LEMMA UsedCovers ==
  ASSUME TypeInv, FilesInv, AllAccounted, UsageLedger, \A r \in Requests : task[r].pc = "idle"
  PROVE  BytesIn(Keys) <= usedBytes
<1> DEFINE f == [p \in Procs |-> Gained(p)]
           g == [p \in Procs |-> Lost(p)]
           id == [p \in Procs |-> p]
<1>1. IsFiniteSet(Procs) /\ f \in [Procs -> Nat]
  BY GainsBounded
<1>2. g \in [Procs -> Nat]
  BY LossesAreKnown DEF LossesKnown
<1>3. ASSUME NEW p \in Procs PROVE Gained(p) <= Lost(p)
  <2>1. task[p] \in Task /\ Sound(task[p]) /\ task[p].pc \in PackNames
    BY TaskTyped DEF FilesInv, AllSound, Ranged, Procs, PackNames
  <2>2. CASE task[p].pc = "packUsed"
    BY <2>1, <2>2, GainedCases, LostCases DEF Sound, PackSound, LossOf
  <2>3. CASE task[p].pc # "packUsed"
    BY <2>1, <2>3, GainedCases, LostCases DEF Copying, Replacing, PackNames, LossOf
  <2> QED BY <2>2, <2>3
<1>4. id \in [Procs -> Procs] /\ (\A x, y \in Procs : id[x] = id[y] => x = y) /\ \A x \in Procs : f[x] <= g[id[x]]
  BY <1>3
<1>5. usedBytes + TotalBytes(f) = BytesIn(Keys) + TotalBytes(g)
  BY DEF UsageLedger
<1> HIDE DEF f, g, id
<1>6. TotalBytes(f) <= TotalBytes(g)
  BY <1>1, <1>2, <1>4, SumOfSome
<1>7. TotalBytes(f) \in Nat /\ TotalBytes(g) \in Nat /\ BytesIn(Keys) \in Nat /\ usedBytes \in Nat
  BY <1>1, <1>2, TotalBytesType, AllBytesTyped DEF TypeInv, TypeOK, StoresOK
<1> QED
  BY <1>5, <1>6, <1>7

LEMMA Unpriced ==
  ASSUME NEW r, task'[r].pc \notin PricedSteps
  PROVE  Priced(task[r])'
BY DEF Priced, PricedSteps

\* init reads what is used, subtracts what it replaces, and reserves.
LEMMA InitsPriced ==
  ASSUME TypeInv, FilesInv, LedgerInv, UsageInv, Sequential, QuotaInv, NEW r \in Requests, InitSteps(r)
  PROVE  Priced(task[r])'
<1>0. /\ r \in Procs /\ task[r] \in Task /\ Fitted(task[r], plan) /\ Priced(task[r])
      /\ plan \in [UploadIds -> Plan] /\ reserved \in Nat
  BY TaskTyped DEF Procs, QuotaInv, TypeInv, TypeOK, StoresOK
<1>1. ASSUME NEW k \in Keys, NEW n \in Sizes, InitBegin(r, k, n) PROVE Priced(task[r])'
  <2> DEFINE t == [Idle EXCEPT !.pc = "initCheck", !.path = k, !.n = n, !.old = usedBytes]
  <2>1. Become(r, t) /\ t.pc = "initCheck" /\ t.old = usedBytes /\ task[r].pc = "idle" /\ UNCHANGED bucket
    BY <1>1 DEF InitBegin, At, Idle, stores, objects
  <2> HIDE DEF t
  <2>2. BytesIn(Keys) <= usedBytes
    BY <2>1, UsedCovers DEF UsageInv, Sequential
  <2>3. BytesIn(Keys)' = BytesIn(Keys)
    BY <2>1, BytesSame
  <2>4. task'[r].pc = "initCheck" /\ task'[r].old = usedBytes
    BY <1>0, <2>1, BecomeNext
  <2> QED BY <2>2, <2>3, <2>4 DEF Priced
<1>2. CASE InitCheck(r)
  <2> DEFINE t == [task[r] EXCEPT !.pc = "initStat"]
  <2>1. task[r].pc = "initCheck" /\ (Finish(r) \/ Become(r, t)) /\ UNCHANGED bucket
    BY <1>2 DEF InitCheck, At, Goto, stores, objects
  <2>2. CASE Finish(r)
    BY <1>0, <2>2, BecomeNext, Unpriced DEF PricedSteps
  <2>3. CASE Become(r, t)
    <3>1. t.pc = "initStat" /\ t.old = task[r].old
      BY <1>0 DEF Task
    <3> HIDE DEF t
    <3>2. task'[r] = t /\ BytesIn(Keys)' = BytesIn(Keys)
      BY <1>0, <2>1, <2>3, BecomeNext, BytesSame
    <3> QED BY <1>0, <2>1, <3>1, <3>2 DEF Priced
  <2> QED BY <2>1, <2>2, <2>3
<1>3. CASE InitStat(r)
  <2>k. PICK k : k = task[r].path
    OBVIOUS
  <2> DEFINE t == [task[r] EXCEPT !.pc = "initReserve", !.old = Floor0(@ - bucket[task[r].path].size)]
  <2>1. task[r].pc = "initStat" /\ Become(r, t) /\ UNCHANGED bucket
    BY <1>3 DEF InitStat, At, stores, objects, Sequential, Calm
  <2>2. t.pc = "initReserve" /\ t.path = k /\ t.old = Floor0(task[r].old - bucket[k].size)
    BY <1>0, <2>k DEF Task
  <2> HIDE DEF t
  <2>3. task'[r] = t /\ k \in Keys /\ BytesIn(Keys) <= task[r].old /\ task[r].old \in Nat
    BY <1>0, <2>k, <2>1, BecomeNext DEF Fitted, KeySteps, Priced, Task
  <2>4. BytesIn(Keys) = bucket[k].size + BytesIn(Keys \ {k}) /\ bucket[k].size \in Nat
    BY <2>3, BytesSplit
  <2>5. BytesIn(Keys \ {k}) \in Nat /\ BytesIn(Keys \ {k})' = BytesIn(Keys \ {k})
    BY <2>1, BytesTyped, BytesSame
  <2>6. BytesIn(Keys \ {k}) <= t.old
    BY <2>2, <2>3, <2>4, <2>5 DEF Floor0
  <2> QED BY <2>2, <2>3, <2>5, <2>6 DEF Priced
<1>4. CASE InitReserve(r)
  <2>k. PICK k : k = task[r].path
    OBVIOUS
  <2> DEFINE t == [task[r] EXCEPT !.pc = "initMultipart"]
  <2>1. /\ task[r].pc = "initReserve" /\ UNCHANGED bucket
        /\ Finish(r) \/ (Become(r, t) /\ Fits(task[r].old, task[r].n) /\ reserved' = reserved + task[r].n)
    BY <1>4 DEF InitReserve, At, Goto, objects
  <2>2. CASE Finish(r)
    BY <1>0, <2>2, BecomeNext, Unpriced DEF PricedSteps
  <2>3. CASE Become(r, t) /\ Fits(task[r].old, task[r].n) /\ reserved' = reserved + task[r].n
    <3>1. t.pc = "initMultipart" /\ t.path = k
      BY <1>0, <2>k DEF Task
    <3> HIDE DEF t
    <3>2. task'[r] = t /\ BytesIn(Keys \ {k}) <= task[r].old /\ task[r].old \in Nat /\ task[r].n \in Nat
      BY <1>0, <2>k, <2>1, <2>3, BecomeNext DEF Priced, Task
    <3>3. BytesIn(Keys \ {k}) \in Nat /\ BytesIn(Keys \ {k})' = BytesIn(Keys \ {k})
      BY <2>1, BytesTyped, BytesSame
    <3>4. BytesIn(Keys \ {k}) + reserved' <= Quota
      <4> DEFINE b == BytesIn(Keys \ {k})
      <4>1. b \in Nat /\ b <= task[r].old
        BY <3>2, <3>3
      <4> HIDE DEF b
      <4>2. b + reserved' <= Quota
        BY <1>0, <2>3, <3>2, <4>1, DriveAssumption DEF Fits
      <4> QED BY <4>2 DEF b
    <3> QED BY <3>1, <3>2, <3>3, <3>4 DEF Priced
  <2> QED BY <2>1, <2>2, <2>3
<1>5. CASE InitRefuse(r) \/ InitRelease(r) \/ InitSave(r)
  <2>1. Finish(r)
    BY <1>5 DEF InitRefuse, InitRelease, InitSave
  <2> QED BY <1>0, <2>1, BecomeNext, Unpriced DEF PricedSteps
<1>6. ASSUME NEW u \in UploadIds, InitMultipart(r, u) PROVE Priced(task[r])'
  <2>k. PICK k : k = task[r].path
    OBVIOUS
  <2> DEFINE t == [task[r] EXCEPT !.pc = "initSave", !.up = u]
  <2>1. /\ task[r].pc = "initMultipart" /\ UNCHANGED <<bucket, reserved>> /\ Become(r, t)
        /\ plan' = [plan EXCEPT ![u] = [key |-> task[r].path, size |-> task[r].n]]
    BY <1>6 DEF InitMultipart, At, objects, accounts, Sequential, Calm
  <2>2. t.pc = "initSave" /\ t.path = k /\ t.up = u
    BY <1>0, <2>k DEF Task
  <2> HIDE DEF t
  <2>3. task'[r] = t /\ plan'[u].key = k
    BY <1>0, <2>k, <2>1, BecomeNext
  <2>4. BytesIn(Keys \ {k}) + reserved <= Quota
    BY <1>0, <2>k, <2>1 DEF Priced
  <2>5. BytesIn(Keys \ {k})' = BytesIn(Keys \ {k})
    BY <2>1, BytesSame
  <2> QED BY <2>1, <2>2, <2>3, <2>4, <2>5 DEF Priced
<1> QED
  BY <1>1, <1>2, <1>3, <1>4, <1>5, <1>6 DEF InitSteps

\* complete writes to the path of its plan.
LEMMA CompletesPriced ==
  ASSUME TypeInv, Sequential, QuotaInv, NEW r \in Requests, CompleteSteps(r)
  PROVE  Priced(task[r])'
<1>0. r \in Procs /\ task[r] \in Task /\ Priced(task[r])
  BY TaskTyped DEF Procs, QuotaInv
<1>1. ASSUME NEW u \in UploadIds, CompleteBegin(r, u) PROVE Priced(task[r])'
  <2> DEFINE t == [Idle EXCEPT !.pc = "completeStat", !.path = plan[u].key, !.up = u]
  <2>1. Become(r, t) /\ t.pc = "completeStat" /\ t.path = plan[u].key /\ t.up = u /\ plan' = plan
    BY <1>1 DEF CompleteBegin, Idle, stores, uploads
  <2> HIDE DEF t
  <2>2. task'[r] = t
    BY <1>0, <2>1, BecomeNext
  <2> QED BY <2>1, <2>2 DEF Priced
<1>2. CASE CompleteStat(r)
  <2> DEFINE t == [task[r] EXCEPT !.pc = "completeS3", !.old = bucket[task[r].path].size]
  <2>1. Become(r, t) /\ task[r].pc = "completeStat" /\ plan' = plan
    BY <1>2 DEF CompleteStat, At, stores, uploads, Sequential, Calm
  <2>2. t.pc = "completeS3" /\ t.path = task[r].path /\ t.up = task[r].up
    BY <1>0 DEF Task
  <2> HIDE DEF t
  <2>3. task'[r] = t
    BY <1>0, <2>1, BecomeNext
  <2> QED BY <1>0, <2>1, <2>2, <2>3 DEF Priced
<1>3. ASSUME ~CompleteStat(r), \A u \in UploadIds : ~CompleteBegin(r, u)
      PROVE  Priced(task[r])'
  <2> DEFINE t == [task[r] EXCEPT !.pc = "completeUsed", !.obj = bucket[task[r].path]]
  <2>1. t.pc = "completeUsed"
    BY <1>0 DEF Task
  <2>2. \/ Finish(r) \/ Become(r, t)
        \/ \E pc \in {"completeRestat", "completeRelease", "completeDelete"} : Goto(r, pc)
    BY <1>3 DEF CompleteSteps, CompleteS3, CompleteS3Error, CompleteRestat, CompleteUsed, CompleteRelease,
       CompleteDelete
  <2> HIDE DEF t
  <2>3. task'[r].pc \in {"idle", "completeUsed", "completeRestat", "completeRelease", "completeDelete"}
    BY <1>0, <2>1, <2>2, BecomeNext
  <2> QED BY <2>3, Unpriced DEF PricedSteps
<1> QED
  BY <1>1, <1>2, <1>3

\* The only request takes a step.
LEMMA RequestsPriced ==
  ASSUME TypeInv, FilesInv, LedgerInv, UsageInv, Sequential, QuotaInv, NEW r \in Requests, RequestSteps(r)
  PROVE  NoRenames' /\ \A q \in Requests : Priced(task[q])'
<1> DEFINE names == InitNames \cup CompleteNames \cup AbortNames \cup DeleteNames \cup RecomputeNames
<1>0. r \in Procs /\ (\A q \in Requests : q = r) /\ ~RenameSteps(r)
  BY NoRenaming DEF Procs, Sequential, QuotaInv
<1>1. Moved(r, names)
  BY <1>0, InitMoves, CompleteMoves, AbortMoves, DeleteMoves, RecomputeMoves DEF RequestSteps, Moved
<1>2. names \cap RenamingSteps = {}
  BY DEF InitNames, CompleteNames, AbortNames, DeleteNames, RecomputeNames, RenamingSteps
<1> HIDE DEF names
<1>3. NoRenames'
  BY <1>0, <1>1, <1>2, OthersKept DEF NoRenames, QuotaInv, Moved
<1>4. CASE AbortSteps(r) \/ DeleteSteps(r) \/ RecomputeSteps(r)
  <2>1. task'[r].pc \in AbortNames \cup DeleteNames \cup RecomputeNames
    BY <1>4, AbortMoves, DeleteMoves, RecomputeMoves DEF Moved
  <2>2. task'[r].pc \notin PricedSteps
    BY <2>1 DEF AbortNames, DeleteNames, RecomputeNames, PricedSteps
  <2> QED BY <1>0, <1>3, <2>2, Unpriced
<1> QED
  BY <1>0, <1>3, <1>4, InitsPriced, CompletesPriced DEF RequestSteps

\* A worker takes a step, or nobody does.
LEMMA OthersPriced ==
  ASSUME TypeInv, TypeInv', FilesInv, LedgerInv, Sequential, QuotaInv, [Next]_vars,
         \A r \in Requests : ~RequestSteps(r)
  PROVE  NoRenames' /\ \A q \in Requests : Priced(task[q])'
<1>1. ASSUME \A q \in Requests : task'[q] = task[q], UNCHANGED <<plan, reserved>>, NEW q \in Requests
      PROVE  Priced(task[q])'
  <2>1. \A k \in Keys : bucket'[k].size <= bucket[k].size
    BY ObjectsShrink DEF RequestSteps, CompleteSteps, QuotaInv
  <2>2. Priced(task[q]) /\ task'[q] = task[q] /\ task[q].old \in Nat /\ reserved \in Nat /\ q \in Procs
    BY <1>1, TaskTyped DEF QuotaInv, Task, Procs, TypeInv, TypeOK, StoresOK
  <2>k. PICK k : k = task[q].path
    OBVIOUS
  <2> DEFINE b == BytesIn(Keys)
             c == BytesIn(Keys \ {k})
             e == BytesIn(Keys)'
             d == BytesIn(Keys \ {k})'
  <2>3. e <= b /\ d <= c /\ e \in Nat /\ b \in Nat /\ d \in Nat /\ c \in Nat
    BY <2>1, BytesLess
  <2>4. /\ task[q].pc \in {"initCheck", "initStat"} => b <= task[q].old
        /\ task[q].pc = "initReserve" => c <= task[q].old
        /\ task[q].pc \in {"initMultipart", "initSave"} => c + reserved <= Quota
    BY <2>2, <2>k DEF Priced
  <2> HIDE DEF b, c, e, d
  <2>5. /\ task[q].pc \in {"initCheck", "initStat"} => e <= task[q].old
        /\ task[q].pc = "initReserve" => d <= task[q].old
        /\ task[q].pc \in {"initMultipart", "initSave"} => d + reserved <= Quota
    BY <2>2, <2>3, <2>4, DriveAssumption
  <2>6. task[q].pc \in {"initSave", "completeStat", "completeS3"} => plan'[task[q].up].key = k
    BY <1>1, <2>2, <2>k DEF Priced
  <2>7. task'[q] = task[q] /\ k = task[q].path /\ reserved' = reserved
    BY <1>1, <2>k
  <2> QED BY <2>5, <2>6, <2>7 DEF Priced, d, e
<1>2. ASSUME NEW w \in Workers, PackSteps(w)
      PROVE  NoRenames' /\ UNCHANGED <<plan, reserved>> /\ \A q \in Requests : task'[q] = task[q]
  <2>1. Moved(w, PackNames) /\ w \in Procs /\ w \notin Requests
    BY <1>2, PackMoves, DriveAssumption DEF Procs
  <2>2. \A q \in Procs \ {w} : task'[q] = task[q]
    BY <2>1, OthersKept DEF Moved
  <2>3. PackNames \cap RenamingSteps = {}
    BY DEF PackNames, RenamingSteps
  <2>4. NoRenames'
    BY <2>1, <2>2, <2>3 DEF NoRenames, QuotaInv, Moved
  <2>5. UNCHANGED <<plan, reserved>>
    BY <1>2 DEF PackSteps, Dequeue, PackCheck, PackDiskFull, PackMark, PackLoad, Pack, PackNothing,
       PackRequeue, PackStat, PackPut, PackUsed, PackUnmark, stores, accounts, uploads
  <2> QED BY <2>1, <2>2, <2>4, <2>5 DEF Procs
<1>3. CASE UNCHANGED vars \/ SweepSteps \/ \E u \in UploadIds : Expire(u)
  <2>1. UNCHANGED <<task, plan, reserved>>
    BY <1>3 DEF vars, SweepSteps, SweepBegin, SweepAbort, SweepDelete, Expire, accounts
  <2> QED BY <1>1, <2>1 DEF NoRenames, QuotaInv
<1> QED
  BY <1>1, <1>2, <1>3 DEF Next, Restart, Sequential, Calm

LEMMA QuotaNext ==
  ASSUME TypeInv, FilesInv, LedgerInv, UsageInv, Sequential, QuotaInv, [Next]_vars, TypeInv'
  PROVE  QuotaInv'
<1>1. NoRenames' /\ \A q \in Requests : Priced(task[q])'
  BY RequestsPriced, OthersPriced
<1>2. ASSUME WorstCase' <= WorstCase PROVE QuotaRespected'
  <2>1. WorstCase' \in Nat /\ WorstCase \in Nat
    BY WorstCaseTyped, WorstCaseNext, TotalBytesType DEF WorstCaseKnown
  <2> QED BY <1>2, <2>1, DriveAssumption DEF QuotaRespected, QuotaInv
<1>3. ASSUME NEW r \in Requests, InitSave(r) PROVE QuotaRespected'
  BY <1>3, SaveFits
<1>4. ASSUME NEW r \in Requests, CompleteS3(r) PROVE QuotaRespected'
  BY <1>2, <1>4, CompleteShrinks
<1>5. ASSUME \A r \in Requests : ~InitSave(r) /\ ~CompleteS3(r) PROVE QuotaRespected'
  BY <1>2, <1>5, ObjectsShrink, UploadsShrink, ProspectsShrink DEF QuotaInv
<1> QED
  BY <1>1, <1>3, <1>4, <1>5 DEF QuotaInv

LEMMA QuotaInit ==
  ASSUME Init
  PROVE  QuotaInv
<1>0. TypeInv
  BY InitType
<1>1. (\A p \in Procs : task[p].pc = "idle") /\ docs = {} /\ bucket = [k \in Keys |-> NoObject]
  BY DEF Init, Idle
<1>2. \A k \in Keys : Prospects(k) = {0}
  BY <1>1 DEF Prospects, NoObject
<1>3. \A k \in Keys : Largest[k] = 0
  BY <1>0, <1>2, LargestIsKnown DEF LargestKnown
<1>4. WorstCase = 0
  BY <1>0, <1>3, WorstCaseIs, SumOfNothing
<1>5. NoRenames /\ \A r \in Requests : Priced(task[r])
  BY <1>1 DEF NoRenames, RenamingSteps, Priced, Procs
<1> QED
  BY <1>4, <1>5, DriveAssumption DEF QuotaInv, QuotaRespected

\* With one request at a time, no renames, and calls that succeed, the bucket
\* stays within the quota whichever of the open uploads complete, in whatever
\* order: the discount that uploadInit gives an upload for the object it
\* replaces never lets the files grow past the quota, whatever recompression
\* does beside it.
THEOREM QuotaIsRespected == Sequential => (Spec => []QuotaRespected)
<1> SUFFICES ASSUME Sequential PROVE Spec => []QuotaRespected
  OBVIOUS
<1>1. Calm /\ Separate
  BY DEF Sequential, Calm
<1>2. QuotaInv => [NoStaleRename]_vars
  BY DEF QuotaInv, NoRenames, NoStaleRename, At, RenamingSteps, Procs
<1>3. TypeInv /\ LedgerInv /\ [Next]_vars => LedgerInv'
  BY LedgerNext DEF Sequential
<1>4. TypeInv /\ FilesInv /\ QuotaInv /\ [Next]_vars => FilesInv'
  BY <1>1, <1>2, FilesNext
<1>5. TypeInv /\ FilesInv /\ Unfailed /\ [Next]_vars => Unfailed'
  BY <1>1, UnfailedNext
<1>6. TypeInv /\ FilesInv /\ Unfailed /\ UsageInv /\ [Next]_vars /\ TypeInv' /\ FilesInv' => UsageInv'
  BY <1>1, UsageNext
<1>7. TypeInv /\ FilesInv /\ LedgerInv /\ UsageInv /\ QuotaInv /\ [Next]_vars /\ TypeInv' => QuotaInv'
  BY QuotaNext
<1>8. Init => Unfailed /\ UsageInv /\ QuotaInv
  BY <1>1, StoreInit, UsageInit, QuotaInit
<1>9. QuotaInv => QuotaRespected
  BY DEF QuotaInv
<1> QED
  BY <1>3, <1>4, <1>5, <1>6, <1>7, <1>8, <1>9, InitType, NextType, FilesInit, LedgerInit, PTL DEF Spec

=============================================================================
