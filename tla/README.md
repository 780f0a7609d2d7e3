# Mist Drive in TLA+

TLA+ models of Mist Drive, model-checked with TLC, and theorems about them
checked with TLAPS. Mist Drive is a self-hosted file drive: a Go API process in
front of MinIO and a SQLite document store, a web client embedded in it, and a
desktop client that keeps local folders in sync. Paths below are relative to
`src/`.

Contents: 1 the system, 2 the modules, 3 state and actions against the code,
4 the abstraction, 5 the runs, 6 fairness, 7 the proofs, 8 what does not hold,
9 what is not modelled, 10 the plan.

## 1. The system

One API process serves all users. A user has one bucket in MinIO, one user
record, upload documents, refresh sessions, and in the memory of the process a
byte reservation, a set of paths being processed, a change counter and a cached
listing. Nothing is shared between users. There is no lock around a request:
every handler is a sequence of calls on stores that are atomic one by one, and
anything may happen between two of them.

| part | state | operations | what is hard, and what must hold |
|---|---|---|---|
| quota reservations (`api/internal/quota`) | bytes reserved per user, in memory | TryReserve, Release | parallel uploads; exactly one release on every exit; never above the quota |
| upload handlers (`httpx/handlers_upload.go`) | none | init, complete, abort | a stale user record; read size, complete, account in separate calls; an answer that is lost after the work was done; no upload that nobody will abort |
| upload documents and GC (`uploads`, `cmd/server/main.go`) | one document per open upload, in SQLite | Save, Get, Delete, WalkAll; a GC pass at boot and every hour | failing calls, restarts, uploads nobody finishes; every expired one is reclaimed |
| file handlers (`httpx/handlers_files.go`) | none | delete a file or folder, recount, rename a file or folder, mkdir, list, download | a rename goes on in a goroutine after its answer: copy all, then remove; partial failure must lose nothing; usage must follow the bucket |
| processing marks (`httpx/handlers.go`) | set of paths per user, in memory | add, remove, test | check and mark are separate; a set forgets who marked; every mark must go away |
| compression (`compress`) | queue in SQLite; workers | Enqueue, Dequeue, process an item | minutes pass between reading the object and replacing it; never undo an upload; crash with the item off the queue |
| user records (`users`) | login, password hash, token version, quota, used bytes | transactions for used bytes; Update of the whole record | read, change, write back by concurrent handlers |
| events hub, WebSocket (`events`, `httpx/handlers_ws.go`) | subscribers, pending event, version per user | Publish (coalesced), Subscribe, fanOut | drops on a full buffer; the last change must reach every client |
| listing cache (`httpx/listcache.go`) | last listing per user with its version | get, put, ETag | version read before listing; 304 must mean unchanged |
| accounts (`handlers_auth`, `_totp`, `_devices`, `_admin`) | the user record | login, change password, TOTP, devices, quota | lost updates between handlers |
| refresh sessions (`sessions`, `handlers_refresh.go`) | session records with hashed token | start, refresh (compare-and-swap), revoke, prune | two tabs refresh at once; revoke while refreshing; limit of ten |
| sync engine (`desktop/internal/sync`) | status, cancel, settings snapshot | Start, Stop, Nudge, passes | an old loop beside a new one; settings that change in the middle of a pass; a loop without a watcher, a transfer that never ends |
| API client (`desktop/internal/apiclient`) | access token, cookies | send with refresh on 401, Login, Logout, upload parts | refresh in flight during Logout; a pool of part uploads that stops at the first error |
| settings (`desktop/internal/settings`) | file and keyring | Save, UpdateSecrets, migrate | a crash between the two writes, or a second one that fails |
| event client (`desktop/internal/wsclient`) | cancel | Start, Stop, loop with backoff | concurrent Starts |
| web client (`web/src/lib`) | upload queue | upload, abort on any failure | an abort after a complete whose answer was lost |

Interaction: clients call handlers over HTTP; handlers, the goroutines of
renames and the workers call MinIO and SQLite, and share the reservations, the
marks and the hub by memory; uploads feed the queue; every change publishes an
event, which bumps the version the listing cache depends on and reaches clients
over the WebSocket, and the desktop engine by a nudge.

## 2. The modules

| module | what it is |
|---|---|
| `ByteTotals` | sums of byte counts, as the cardinality of a set of byte tokens, so that library facts about cardinalities apply to them in proofs |
| `DriveState` | variables, types, tasks and the operations of the stores |
| `UploadHandlers` | uploadInit, uploadComplete, uploadAbort, the upload GC |
| `FileHandlers` | deleteFile, recomputeUsage, renameFile with its goroutine |
| `CompressWorkers` | the compression workers |
| `FileStore` | the abstract specification: what the API promises about files |
| `Drive` | composition, restart, fairness, and the properties |
| `MCDrive`, `MCDrive*.cfg` | instances for TLC |
| `EventsHub`, `Listing` | the hub; writes, listings with the cache and conditional requests, events and connections |
| `Accounts` | the user record and the refresh sessions of one user, and every handler that writes them |
| `SyncEngine` | the desktop's sync engine on one mapped folder, with the users and the server around it |
| `DesktopSession` | the desktop's API clients, login and logout, secrets, event client |
| `MCListing`, `MCAccounts`, `MCSyncEngine`, `MCDesktopSession` | their instances for TLC |
| `DriveProofs`, `DriveSafetyProofs`, `DriveFilesProofs`, `DriveLedgerProofs` | proofs about `Drive`, each extending the one before: sums and types; what is safe; contents and the refinement of `FileStore`; the ledgers of reservations and of used bytes |
| `ListingProofs`, `AccountsProofs`, `SyncEngineProofs`, `DesktopSessionProofs` | proofs about the module they are named for |

`FileStore` knows nothing of handlers: a key holds an object or none, an upload
is stored at most once, a rename moves a file in one step, recompression keeps
key and content. `Drive` implements it under a refinement mapping
(`Files == INSTANCE FileStore WITH ...`): a copy made by a running rename does
not count as a file until its original is removed, so that the copies and
removals of a folder rename become one `Move` per file.

The modules meet in what they assume of one another. `Drive` shows that every
change of the bucket is followed by an event (`ChangesPublished`, without
faults); `Listing` starts from there (a handler writes and then publishes) and
shows that clients learn of it. `Accounts` has the stores' side of a refresh in
its steps; in `DesktopSession` the server answers in one. `SyncEngine` takes a
listing and a transfer as steps, and the server's recompression for one that
keeps the original size, as `CompressWorkers` does.

## 3. State and actions against the code

| variable | code |
|---|---|
| `usedBytes` | `users.User.UsedBytes` |
| `reserved` | `quota.Reservations.byU[user]` |
| `bucket` | the objects in the user's bucket; `NoObject` where there is none |
| `multipart`, `plan` | uploads open in MinIO; key and size each id was issued for |
| `docs`, `expired` | upload documents; those older than `UploadTTL` |
| `processing` | `Server.processing[user]` |
| `queue` | the document of `compress.Queue` |
| `task` | the local variables of every handler, goroutine and worker, and the call it makes next (`pc`) |
| `sweep` | the local variables of a running GC pass |
| `unpublished` | the bucket has changed since the last event; it stands for hub version and listing cache |

An action is one call on a store with the code around it up to the next call,
and is named for handler and call: `CompleteS3` is uploadComplete's
CompleteMultipart. There is one exception: `CompleteUsed` makes two,
AddUsedBytes and Enqueue. No step between the two would depend on which has been
made; a crash there, which would lose the item, is left out, and no property
that is checked with restarts depends on the queue. `PROJECT.json` maps each
action to its lines. Early returns are `Finish`. Where the code ignores an
error, the action has a disjunct for the failing call: a StatObject that fails
counts as an empty object in `InitStat`, `CompleteStat` and the collision check
of a rename.

The other modules:

| variable | code |
|---|---|
| `version`, `pending`, `subs`, `inbox` | `Hub.versions`, `.pending`, `.subs` and the channels in it; `firing` counts timer callbacks between their two locks |
| `cache`, `boot` | `Server.lists`, `listBootNonce` |
| `kept`, `due`, `call` | `apiclient.Client.listETag` and `lastList`; the nudge of the engine or the refetch of the page; a ListFiles in progress with listRoot inside |
| `user`, `rows` | the record (`TokenVersion`, `UsedBytes`, two-factor, devices) and the `refresh_sessions` collection; `Gone`, `NoRow` where there is none |
| `req` (Accounts) | a handler: the copies of the record it has yet to write, in order, and what follows them |
| `given`, `spent`, `made` | cookies handed to clients, tokens exchanged, tokens made |
| `disk`, `bucket` (SyncEngine) | sizes of the local files and of the objects, with `SourceSize` |
| `folder`, `gen`, `current`, `loop` | the mapping, `Store.gen`, `Engine.cancel`, and the local variables of each `loop()` goroutine |
| `client`, `app` | token, cookie and `refreshMu` of each `apiclient.Client`; `App.api`, `Engine.api`, the event client and its goroutines |
| `keyring`, `file`, `disk` | where the secrets are stored: the entry in the keyring, the fields of `Store.d`, and those in settings.json, which a failed flush leaves behind |
| `call`, `shell` (DesktopSession) | what each goroutine that got a 401, and Login or Logout, do next |
| `owed`, `counted`, `late`, `past`, `torn`, `spent` | history for the properties, and how much of each bound is used |

In `Accounts` a handler reads the record once, when it begins, and its effect is
a sequence of copies to write: a login with a backup code and a device to trust
writes three, a password change one or two and then revokes. The checks a
handler makes on what the user sent are not in the record and decide only
whether it goes on, so a handler that ends early is one that does not begin.

`Allowed` (Drive) says which requests clients make and what may disturb them; each
configuration chooses. Disturbances: `overlap` (requests on related paths or on
one upload interleave), `jobs` and `lateComplete` (requests, or completes,
arrive on a path a job has marked), `fault` (a call to MinIO fails), `checkFails`
(so does the collision check), `lostReply` (the call succeeds and is reported as
failed), `saveFails`, `diskFull`, `expiry`, `restart`. Without `overlap`, the
guards `Quiet`, `OnlyFinisher` and `AllQuiet` make clients wait: they are
assumptions about the environment, not code. In `Dequeue`, `Quiet` makes a
worker wait too, although `queue.go:95-113` waits for nobody: there it is a
restriction of the model, which leaves out that a worker takes up a path while a
request or a rename is at work on it. The properties that fail under a
disturbance, this one included, are listed in section 8; nothing is claimed there.

## 4. The abstraction

- One user: all the state is keyed by the user id.
- Content is named by the upload it came from; an ETag is the content and
  whether the server packed it, and a copy keeps it. Parts of an upload add up
  to the declared size.
- Listings, S3 completes, copies and puts are atomic in MinIO. Batch removal is
  one step per key. The copies of a folder rename may happen in any order,
  which is what its pool of workers allows.
- One level of folders; file and folder names are disjoint; the empty `.keep`
  objects of mkdir are left out.
- A GC pass takes the expired uploads of its first moment; one that expires
  during the pass waits for the next.
- SQLite writes succeed, except `Uploads.Save`, whose error init ignores.
- The quota does not change. There is a queue exactly when there are workers.
- Extraction, packing, verification and JPEG encoding change only private files
  and are one step: a result of some size, or none.
- Ids of uploads are used once; this bounds every run.
- `Listing`: the n-th write makes the bucket n, and every event means "list
  again". The tag of a listing is, as in the code, the nonce of the process, the
  version and the time at which the request began; what it lists is no part of
  it. The clock reads any of `Times`, in no order and the same as often as it
  likes, but for one assumption, `Unread`: two requests that list the bucket
  under one version in one process do not read the same nanosecond. A time that
  no cache, call or client remembers under this version may be read again, so
  that few times are enough. The nonce is a time of start, and two starts do not
  read the same. The marks of files being processed are left out of listings and
  tags (section 9).
- `Accounts`: password, email, quota and login history are left out of the
  record, the writes of them are not. Access tokens are left out: they are
  valid as long as the version they carry. SQLite calls succeed.
- `SyncEngine`: a content is its size, which is all the engine compares; 1 is
  the size of a recompressed object and of a partial download. One folder: a
  pass treats the folders one after the other by the same code. A loop that
  finds no watcher, or whose watcher's channels are closed, ends (`LoopFails`);
  what goes wrong in a watcher otherwise is only logged. A download is filled
  through its handle: a file that is renamed meanwhile is filled under its new
  name, and one that is deleted or replaced does not come back (`Refile`).
- `DesktopSession`: a cookie is a session and the number of its rotation; one
  server; the device cookie is left out; a keyring that refuses a write still
  deletes. The user waits for a login or logout to end before the next one. Any
  flush of settings.json may fail: a refresh goes on then, Login and Logout
  return at once, before or after the secrets were stored. Any later Save writes
  what is missing (`SaveSettings`). A process that cannot write settings.json
  when it has to migrate does not start; then nothing has changed but where the
  secrets are, and the model lets it start when it can.

## 5. The runs

CHECK_DEADLOCK is off everywhere: when the ids or the bounds are used up the
system rests.

| run | instance | what it shows |
|---|---|---|
| `drive_files` | 2 requests, 2 folders x 2 names, 2 uploads of size 1 or 2, quota 4; upload, abort, delete, recompute, rename, `jobs`; 0.95 M states | two requests interleave between any two calls, and beside a rename's goroutine: `TypeOK`; `UsageLedger`, usage is exact at every step, up to what running tasks still have to add; `UploadsTracked`; `ChangesPublished`; `JobsApart`: nothing that a rename is moving is taken up by another; `FileStoreImplemented` |
| `drive_faults` | 1 request with its goroutine, 2 x 2 files, 2 uploads, quota 3; `fault`, `lostReply`, `diskFull`; 0.96 M states | every call fails or loses its reply: `ReservationLedger`, reservations balance on all paths; `ContentKept`, no content is lost |
| `drive_compress` | 1 request, 1 worker, a zip and a jpg, 3 uploads, quota 3; `jobs`, `lateComplete`, `diskFull`; 0.25 M states | a worker beside uploads, deletes and recounts of its own file: `QuotaRespected`, whichever open uploads complete; `UsageLedger`; `PackKeepsContent`; `FileStoreImplemented` |
| `drive_recovery` | 2 requests, 1 worker, 2 folders with a zip, 1 upload, `FairSpec`; all faults, `expiry`, `restart`; 0.18 M states | `ReservedWithinQuota`, `MarksOwned`; `ExpiredReclaimed` and `MarksReleased`: once the process stays up, expired uploads go and marked paths come back |
| `drive_quota_race`, `drive_late_complete`, `drive_gc_fault`, `drive_pack_race` | the smallest instances | counterexamples, section 8 |
| `listing` | one client with a page and a sync engine, channel of 1, 2 writes or restarts, 2 times; symmetry in the times; 4.7 M states | `ListingFresh`, a listing shows every change published before it was asked for; `NotModifiedExact`, a 304 is for the very listing the client holds; `NoNewsLost`, a connected client learns of the last change |
| `accounts` | 2 handlers at once, 4 in all, 3 session ids, limit of 1 session, 1 backup code, 1 device; symmetry; 1.3 M states | `UsageKept`, stale copies do not undo the usage; `RecordCoherent`, no codes and no devices without two-factor; `NewestCookieGood`, refreshes at once leave a good cookie; `SessionsBounded`; `DeletedForGood`, what is deleted stays so |
| `sync` | 2 files, sizes 2 and 3, 2 loops, 2 edits or failures, 1 change of settings or stop; liveness; 0.6 M states | `LoopsOwned`, no loop that Stop cannot stop; `LateTransfers`, at most one transfer begins after a change of the settings; `Converges`, folder and bucket come to agree, unless a transfer of the running loop stalls for ever; `Settles`, transfers come to an end |
| `session` | 2 callers, 3 client objects, 2 logins, tokens expire once, 2 faults (lost messages, refusing keyring, failed flush, revocation, restart); 2.4 M states | `ReuseExplained`, the client's own cookie counts as stolen only for a lost answer or an overlap; `RotationsEarned`, one rotation for all callers; `SecretsKept`, what is stored is what is in use, and a restart finds it where settings.json was written; `WsOwned`, `WsNewest`, the event client |

Bounds. Two requests are enough for the pairwise races of handlers; a third
would repeat one of them. Two files in one folder and a second folder are the
least that make a folder rename partial and give it a target with something in
it. Sizes 1 and 2 tell growing from shrinking replacements and let an upload
just fit or just exceed the quota. Three uploads in `drive_compress` give one to
recompress, one to replace it and one that competes for the quota. One upload
in `drive_recovery` is enough there, as partial renames make a second object of
it.

`listing`: a channel of 1 is full after one event, so events are dropped; two
writes give one that is listed and one that comes during the listing, a write
and a restart give an ETag of another process, with the same version and, as two
times are often reused, the same time; without the nonce, the version or the
time in the tag `NotModifiedExact` fails in this run. `accounts`: a limit of 1 and
three ids make two logins at once exceed it; four handlers in all suffice for a
handler that writes what it read before two others. `sync`: two edits make a
rename or two failures, or change a file during its transfer; a second loop
exists only beside one that was stopped. `session`: two faults make a refusing
keyring followed by a failed flush or a restart, or an answer lost before one.

`drive_compress` has an action constraint, `NoUploadInWindow`: no upload
completes between the last call with which a worker reads the ETag and its
put, while its own completing handler has read the old size. In that window the
code has no protection and the properties fail; `drive_pack_race` shows it.
`drive_files` has another, `NoStaleRename`: no rename passes the check of the
marks with a list of files that a job has meanwhile moved away. With 2 x 2 names
the properties hold without it too; with three names in a folder they do not
(section 8), and the theorems have it as a hypothesis.
Symmetry (ids, requests, and folders and names where no name is an archive) is
used in safety runs only, and no property names an element of those sets.

## 6. Fairness

`WF(SweepSteps)`: the GC runs at boot and on an hourly ticker for as long as the
process lives, and each pass ends. `WF(JobStep(p))` for each process: the
goroutine of a rename and a worker that has begun go on, since every call they
make returns (a worker's calls have a timeout of 30 minutes). Nothing is assumed
of clients, of request handlers before their answer, of workers that have not
begun, or of calls to succeed. A restart may interrupt everything, so the two
liveness properties are conditional on `StaysUp`: from some time on there is no
restart.

`SyncEngine`: `WF(LoopSteps(l))` for each loop. A goroutine that is in a pass
goes on: calls of the API have a deadline of 30 seconds, and so has the first
byte of any answer (`client.go:168-191`); one that waits is woken by its ticker
every 30 seconds, or ends when it was stopped. `LoopSteps` leaves out
`Transfers`, the ends of an upload and of a download: the body of a transfer has
no deadline, and `client.go:188` says that one which stalls hangs for ever. So a
pass may stay in a transfer for good. `Converges` makes an exception for just
that, when it happens to the loop that is running; a stopped loop that hangs
must do no harm, and may still write when its transfer ends. Nothing is assumed
of users, of the server, of Start, or of calls to succeed: `Converges` speaks of
an engine whose loop runs (`Runs`), and the bounds on edits and failures say
that users leave the files alone and the network works in the end. An engine
that was started and whose loop has failed has none until it is stopped and
started again; Start alone does not help (section 8). `Settles` holds whether or
not transfers end. The other modules need no fairness: their properties are
invariants, and `NoNewsLost` says at every moment what is on its way.

## 7. The proofs

Each theorem holds for every value of the constants that satisfies the named
assumptions of the modules, which ask for no more than finite sets where
something is counted, sizes and limits that are natural numbers, distinct names
for distinct things (a folder is no key, `None` is no value) and, in
`DesktopSession`, that there is a client and a login. That no two requests which
list under one version read the same time is a guard of the model (`Unread`,
section 4). Invariants are proved by an inductive strengthening, with one lemma
per action or per handler; what a
part of a step does (a record that is updated, a store that is written) is a
lemma of its own, so that definitions are unfolded once.

**`Drive`.** The first three hold for every `Allowed`, overlap and all faults
included; the others have the disturbances that the code does not stand as
named hypotheses.

- `TypeCorrect`: `Spec => []TypeOK`. Not inductive by itself: that a handler
  finds an object under its path, and a plan under its upload, depends on where
  it is. `TypeInv` adds what `path` and `up` are at each step of a task, and
  that each document has a plan.
- `ReservationsBounded`: `Spec => []ReservedWithinQuota`. Only TryReserve adds,
  and it compares with a usage that is not negative (this is where type
  correctness enters); every other step leaves the reservations or lowers them.
- `MarksAlwaysOwned`: `Spec => []MarksOwned`. A step of a task either leaves the
  marks alone and is not a job's, or stays in the job on the same path, or
  marks as it enters the job, or unmarks as it leaves.
- `JobsStayApart`: `Ordered => (Spec => []JobsApart)`. The converse, that a job
  has its mark, needs that no two jobs share one, and this needs that marks are
  checked; neither is inductive alone, `JobsInv` has both. It speaks of tasks
  that are about to begin a job too: one that has passed the check of the marks
  has them set in a later step, and what keeps a second out in between is that
  it waits (no `overlap`), or still has the check before it, which the mark
  fails. `Ordered` allows requests that arrive while a job runs (`jobs`), unless
  there are workers, who do not look at the marks (section 8).
- `UploadsStayTracked`: `Reliable => (Spec => []UploadsTracked)`. `Reliable`
  excludes failing calls, lost replies, failing saves and restarts, each of which
  leaves an upload without a document; overlap and expiry may happen, so that two
  requests and the GC may finish one upload. `TrackInv` says that whoever is about
  to delete a document knows the upload gone, and that one that is gone stays so.
- `ChangesGetPublished`: `FaultFree => (Spec => []ChangesPublished)`. While a call
  that fails ends deleteFile without an event (section 8), the rest may overlap,
  be refused or restarted in any way. `PublishInv` says which steps owe an event,
  and that a delete whose calls succeed comes to its own.
- `ReservationsBalance`: `Undisturbed => (Spec => []ReservationLedger)`. The
  assumption excludes `overlap`, `expiry`, `saveFails` and `restart`, with which
  the ledger does not hold (section 8); `fault`, `lostReply`, `diskFull` and all
  the others may happen. The strengthening `LedgerInv` says that an upload is
  the business of one request at most (`Alone`: else two could release it), that
  a request between the first and the last step of complete or abort still finds
  the document, that the size in the plan is the size reserved (`Settled`), and
  that the GC has nothing to do. A step moves bytes between the two halves of
  the ledger (save), adds to one half (reserve) or takes from one (refuse,
  release), and for each there is a lemma; all other steps leave both sums
  alone. The sums are cardinalities of sets of byte tokens, and `DriveProofs`
  begins with what is needed of them: a sum is a natural number, and splits off
  any of its terms.
- `ContentIsKept` and `PackingKeepsContent`:
  `Separate => (Spec /\ [][NoStaleRename]_vars => ContentKept)`, and the same of
  `PackKeepsContent`. Any call may fail or lose its reply, the process may
  restart, uploads expire and the disk fill up. `Separate` makes requests on
  related paths wait for one another, all but those that arrive under a job where
  there are no workers; `lateComplete`, a failing collision check and the stale
  list of `NoStaleRename` are excluded, as each loses a file or breaks a promise
  (section 8). `FilesInv` has two halves. One is about pairs of tasks: two that
  work on files are on unrelated paths (`Clear`), or one is a rename that came
  under the other's job and has not yet found that job's paths free (`Late`). The
  other is about a task and the bucket (`Sound`): the object a complete has
  written is there until it is counted, what a delete or rename has listed is
  there until it is removed, each copy equals its original, and a worker's result
  is made of the object under its path, no larger. The halves meet in
  `WritesElsewhere`: what one task writes lies outside what another counts on (its
  `Zone`). So every step needs only its own task to be looked at. `Genuine` says
  that an object has the size of its upload unless it was packed: this is what
  makes the worker's comparison of ETags a comparison of sizes too.
- `FilesAreStored`: `Calm => (Spec /\ [][NoStaleRename]_vars =>
  FileStoreImplemented)`, the refinement: initial states are mapped to initial
  states and each step to one step of `FileStore` or none. `Calm` adds to
  `Separate` that no call fails and the process stays up, since a rename that
  gives up leaves its copies. The copies of different renames are different keys
  and nobody else writes them (`CopiesApart`, `WritesNoCopy`), so a copy is no
  step at all and the removal of an original is a `Move`.
- `UsageIsExact`: `Calm => (Spec /\ [][NoStaleRename]_vars => []UsageLedger)`.
  `UsageInv` adds that a complete knows the size it replaces, that a delete has
  counted what it still has to remove, and that a recount runs alone. A step
  changes one term of each sum and one object (`UsageStep`), and the handlers
  show that both sides change alike (`Balances`). `AddUsedBytes` clamps at 0, and
  to show that it never has to needs the sum over all tasks: what they have added
  to the bucket lies under different keys, hence is at most all that is in it
  (`SumOfParts`, `GainsBounded`), so that whatever one task is going to subtract
  was counted before.
- `QuotaIsRespected`: `Sequential => (Spec => []QuotaRespected)`. `Sequential` is
  `Calm` and `Undisturbed` with one request at a time and without renames, which
  hold a file twice for a while; two requests at once do exceed the quota
  (section 8). Workers, uploads left open and uploads to one key any number of
  times remain. `QuotaInv` says of an init that what it has read covers the bucket,
  then without the object it replaces, and once it has reserved, that this and all
  reservations are within the quota (`Priced`). When a document is saved its key
  may come to hold more. If it does not, the worst case stays; if it does, the
  worst case is at most the new upload, the bytes under the other keys and the
  reservations (`WorstElsewhere`, `SaveFits`). Every other step gives no key a
  larger prospect (`WorstCaseKept`). Both ledgers are needed, that of usage where
  an init begins and that of reservations where it ends. That a key has a largest
  prospect at all is `LargestExists`, from the well-foundedness of strict
  inclusion between finite sets.

**`Listing`**, for any clients, callers, size of the channels and bound:

- `ListingTypes`: `Spec => []TypeOK`.
- `ListingsFresh`: `Spec => []ListingFresh`, and `NotModifiedIsExact`:
  `Spec => []NotModifiedExact`. Neither is inductive. `ListingInv` adds that a
  cache entry under the current version holds every announced write
  (`CacheRecent`), and, for a call at each of its steps, that what it is about
  to store or show does so too, as long as its version is current (`CallRecent`).
  For `NotModifiedIsExact`, `TagsExact` says that whatever is shown under one tag,
  by the cache, by a call that has listed or by what a client keeps, shows the
  same; that a listing still being made will have a tag of its own; and that no
  tag is from a later process. All three parts of the tag are used: the nonce
  where a restart counts versions from 0 again, the version where an event lets
  a time be read once more, the time where two requests list under one version.
  `ListingInv` survives a publication because publishing raises the version, and a
  listing because the version was read before the bucket: with the order
  reversed, the step that stores an entry cannot be proved.
- `NewsArrives`: `Spec => []NoNewsLost`. `NewsInv` follows the obligation to show
  a change from the publication on: a caller who owes it is connected and has
  the event on its way (collected, handed out, in the channel), or has heard of
  it and has yet to list, or is in a call whose entry is recent. A full channel
  drops an event only where another is in it.

**`Accounts`**, for any number of requests, session ids, codes and devices and
any limit:

- `AccountsTypes`, `NothingWithoutTotp`: `[]TypeOK`, `[]RecordCoherent`. That the
  record is coherent needs the same of every copy that a handler still has to
  write, down to the tail of its sequence (`Good`).
- `UsageSurvivesUpdates`: `[]UsageKept`, from Update's merge.
- `OneRefreshWins`: `[]NewestCookieGood`. Inductive, given the types: a swap spends
  the token that it replaces, finds it there or does nothing, and a new session
  takes an id that no cookie names. `DeletedStaysDeleted` follows from the same
  lemmas.
- `SessionsLimited`: `[]SessionsBounded`, at most the limit and one more for each
  further login at the same time. The bound is on an imagined future: for any set
  of the logins that have listed what to evict, the sessions left if they did,
  with those about to be created, stay below it (`Room`). This is what a login
  that lists while others have listed and not deleted leaves true.
- `DeletedStaysDeleted`: the action property `DeletedForGood`, also of a user.

**`SyncEngine`**, for any files, sizes and loops:

- `EngineTypes`; `OneLoopGoesOn`: `[]LoopsOwned`; `TransfersInTime`:
  `[]LateTransfers`. `EngineInv` says that a pass whose generation is current has
  the current settings, as it reads the generation first, and that one which has
  begun a transfer late is out of date, so that it decides on no other. A
  download that follows its file to another name, or loses it, changes nothing
  of this (`Refiled`).

**`DesktopSession`**, for any callers, clients, logins and faults:

- `DesktopTypes`; `OneRotationEach`: `[]RotationsEarned`. `Sound` says
  of every token and cookie that are held, stored or on the way that the server
  made them, and that where the cookie is the newest of its session, the token is
  still good or there was an expiry for which the session was not yet rotated
  (`Earned`). It is what the check under `refreshMu` keeps true: a caller who
  finds another token than the one refused takes it instead of the cookie.
- `OnlyLossesLookLikeTheft`: `[]ReuseExplained`; `StoreFollowsClient`:
  `[]SecretsKept`; `NoStrayLoop`: `[]WsOwned`; `EventsFollowToken`: `[]WsNewest`.
  `InOrder` describes each step of a refresh, a login and a logout without
  overlap: which of token, cookie, keyring, file and event loop are already
  those that the step before obtained. A login that has not stored its secrets
  yet (`Asking`) and a logout that has not dropped them (`Parting`) may still
  return, so that there (`Early`) client, store and event loop must be as they
  are at rest; `torn` marks where a login has returned in between. A flush that
  fails leaves `disk` behind, and `StoresSound` says that what is there was issued
  too. `AllFresh` adds that every cookie which may be sent or restored is the one
  its session expects.

Only model-checked: `QuotaRespected`, `PackKeepsContent`, `UsageLedger` and the
refinement with `jobs` and `lateComplete` beside a worker, as `drive_compress`
has them under its own constraint (section 10); and liveness (`ExpiredReclaimed`,
`MarksReleased`, `Converges`, `Settles`), which the prover cannot treat.

## 8. What does not hold

Shown by a run, each against a sentence of the repository:

- Parallel uploads can exceed the quota (`drive_quota_race`): `uploadInit`
  compares with the used bytes it read before another upload completed.
- A late upload is lost (`drive_late_complete`): it completes on a path whose
  rename has copied and not yet removed.
- A failed abort is never retried (`drive_gc_fault`): the GC deletes the
  document whatever AbortMultipart answered.
- A newer upload is overwritten by the recompressed older one
  (`drive_pack_race`): ETag check and put are two calls.

Met while modelling, without a run of their own: a restart forgets the
reservations of uploads that survive it; the GC reclaims an upload of a running
process without releasing its reservation; abort and complete of one upload at
once release twice; a collision check that fails lets a rename overwrite its
target; a rename between init and complete of a replacing upload breaks the
quota; overlapping requests on one path make the usage drift until a recount; a
folder delete that fails half way, and a complete whose reply is lost, leave
usage wrong and publish nothing; two jobs on one path share a mark, which the
first to end removes: two renames that pass the check together, or a worker that
takes up a file while a rename is copying it, since workers do not look at the
marks (an instance with an archive renamed to another, one worker and `jobs`
reaches this); and a folder is not refused when a file in it is marked. renameFile lists what it
will move before it looks at the marks. A rename that has its list when a job
moves those files away, and finds the mark gone, goes on with the list: copies of
what is gone fail and nothing is lost, but if a third rename has put files there
in between, it copies those beside it, onto a key that others count on. It takes
one folder with three names and two requests, one of which comes while the job of
its predecessor still runs; with two names there is nothing to mix up.

Accounts. `Update` merges the usage and nothing else: a handler that read the
record before a revocation and writes it afterwards restores the old token
version, and a backup code can be used by two logins at once. `accounts` claims
nothing of either. Revoke-all ends at a user who was deleted meanwhile.

Sync engine. A file of a folder with both directions that is deleted or renamed
in the client is downloaded again. A partial download may be uploaded over its
original. A download of a recompressed object is uploaded again, and two
desktops on one prefix can go on like this for ever. The old loop clears the
status of the new one, and reads `e.api` while it is swapped; the status is not
modelled. A transfer whose body stalls keeps its pass, and with it the folder,
from going on until the next login or start of the program. A loop that gets no
watcher, or whose watcher's channels are closed, ends while the engine still
counts as started (`current` names a loop that is off): Start then does nothing,
and no folder is synced until somebody calls Stop, which only Logout, Login and
quitting do. `Settings.Get` hands out the slice of folders that RemoveSyncFolder
and the switches then change in place, while a pass may read it.

Session of the desktop. A refresh in flight while the user logs in or out may
store its credentials after them, restart the event client after it was stopped,
and give two clients one cookie; the frontend calls Logout without waiting for
it when the session expires. `past.overlap` notes such overlaps, and the
properties leave them out. An answer to a refresh that is lost, or a quit before
it was saved, ends the session when the grace is over (`past.lost`, which also
notes a restart from a settings.json that is behind). A login whose second write
fails returns with the secrets of the new session stored and the client of the
old one in use: what is stored is then not what is in use (`torn`), until a
refresh or a restart, and `SecretsKept` leaves this out. Where the file could
not be written, a restart may find older secrets in it and prefer them to those
in the keyring: those of one refresh went to settings.json as the keyring
refused them, the keyring took the next, and the flush that blanks the file
failed; a crash between the two writes does the same. `SecretsKept` says nothing
of a restart while `disk` is behind. A logout that cannot write the settings
returns with the engine and the event client running, and if it was the first
write that failed, with the secrets still stored.

Those that contradict a sentence of the repository (a comment, a doc or a test)
are listed with it under "findings" in `PROJECT.json`; for the others we know of
none.

## 9. What is not modelled

Downloads, previews, zip streaming and tickets (read-only), JPEG quality
estimation, presigning, configuration, logging, mail, static files, tray and
desktop entry, the imports of legacy files at first boot, and the rendering of
both user interfaces. mkdir is a `Write` of `Listing`, and otherwise left out.

Of parts that have a module: creation of users; rate limits and mails of the
account handlers; the processing marks inside a listing (a rename publishes and
then unmarks, so a listing between the two shows the mark until the next event);
the pool of part uploads and transfers picked by hand in the desktop client; its
environments for several servers; status, history and notifications of the
engine; the payload of events, where a rename error is overwritten by a later
change of the same burst.

External: MinIO, the document store (transactions on one document are atomic),
the auth library (`CheckRefresh`, `RefreshSessionsToEvict`), the keyring.

## 10. The plan

Done: the drive's core, listings and events, accounts and sessions, the sync
engine, the desktop's session, and the proofs of section 7. Left is a proof about
`Drive`: `PackKeepsContent` beside late completes, under `NoUploadInWindow`. What a
worker has loaded need not be what is there when it puts, so that the comparison
of ETags has to carry more than in `FilesInv`; `UsageLedger`, `QuotaRespected` and
the refinement would follow with it.
