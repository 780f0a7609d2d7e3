----------------------------- MODULE SyncEngine -----------------------------
(***************************************************************************)
(* The sync engine of the desktop client on one mapped folder: its loop is *)
(* started at login and stopped at logout, and makes passes that compare   *)
(* the disk with the bucket and transfer files, while the user, the        *)
(* settings screen, another client and the server's recompression go on.   *)
(* A content is its size, which is all that the engine compares.           *)
(***************************************************************************)
EXTENDS Naturals

CONSTANTS Files,      \* names in the folder, the same under its remote prefix
          Sizes,      \* sizes that users write, all above Small
          Loops,      \* goroutines running loop(), reused when they have ended
          MaxEdits,   \* bound: edits of users here and elsewhere, and calls that fail
          MaxChanges, \* bound: changes of the settings, and stops of the engine
          None

\* The size of a recompressed file, and of a download that is not complete.
Small == 1

ASSUME SizesAssumption == Sizes \subseteq Nat /\ \A n \in Sizes : n > Small
ASSUME NoneAssumption == None \notin Files \cup Loops

VARIABLES disk,    \* size of each local file, 0 if there is none
          bucket,  \* objects under the prefix
          folder,  \* the mapping in the settings
          gen,     \* Store.gen
          current, \* Engine.cancel: the loop that Stop would stop
          loop,    \* state of each loop
          spent    \* how much of each bound is used

fileVars == <<disk, bucket>>
confVars == <<folder, gen>>
vars == <<fileVars, confVars, current, loop, spent>>

\* An object, with the size it had before the server recompressed it, or 0.
Object(n, source) == [size |-> n, source |-> source]
Absent == Object(0, 0)

NewFolder == [listed |-> TRUE, enabled |-> TRUE, upload |-> TRUE, download |-> FALSE]
TwoWay    == [NewFolder EXCEPT !.download = TRUE]
NoFolder  == [listed |-> FALSE, enabled |-> FALSE, upload |-> FALSE, download |-> FALSE]

\* A loop: its settings are from the beginning of the pass; late counts the
\* transfers that the pass began after they changed, or after Stop.
Off == [pc |-> "off", live |-> FALSE, gen |-> 0, folder |-> NoFolder,
        listing |-> [f \in Files |-> Absent], local |-> [f \in Files |-> 0],
        todo |-> {}, file |-> None, size |-> 0, late |-> 0]
Resting(live) == [Off EXCEPT !.pc = "wait", !.live = live]

At(l, pc) == loop[l].pc = pc
Become(l, new) == loop' = [loop EXCEPT ![l] = new]
Goto(l, pc) == loop' = [loop EXCEPT ![l].pc = pc]
EndPass(l) == Become(l, Resting(loop[l].live))
NextFile(l, late) ==
  Become(l, [loop[l] EXCEPT !.pc = "walk", !.file = None, !.size = 0, !.late = late])
Spend(what, max) == spent[what] < max /\ spent' = [spent EXCEPT ![what] = @ + 1]

Init ==
  /\ disk = [f \in Files |-> 0] /\ bucket = [f \in Files |-> Absent]
  /\ folder \in {NoFolder, TwoWay} /\ gen = 0
  /\ current = None /\ loop = [l \in Loops |-> Off]
  /\ spent = [edits |-> 0, changes |-> 0]

---------------------------------------------------------------------------
(* The user, other clients and the server.                                 *)

\* A download fills a file through its handle, which follows it to its new name,
\* if it has one: to[f] is the name of what was f.
Refile(to) ==
  loop' = [l \in Loops |->
    IF At(l, "fill") /\ loop[l].file # None THEN [loop[l] EXCEPT !.file = to[@]] ELSE loop[l]]
Without(f) == [h \in Files |-> IF h = f THEN None ELSE h]

\* The user writes a file of the folder, in place or by another one that takes
\* its name, or deletes it.
EditLocal(f, n) ==
  /\ disk[f] # n /\ Spend("edits", MaxEdits)
  /\ disk' = [disk EXCEPT ![f] = n]
  /\ Refile(Without(f)) \/ (n # 0 /\ UNCHANGED loop)
  /\ UNCHANGED <<bucket, confVars, current>>

\* Another client uploads or deletes an object under the prefix.
EditRemote(f, n) ==
  /\ bucket[f].size # n /\ Spend("edits", MaxEdits)
  /\ bucket' = [bucket EXCEPT ![f] = Object(n, 0)]
  /\ UNCHANGED <<disk, confVars, current, loop>>

\* The server recompresses an object and notes its original size.
\* Mutant: it does so again and again.
RecompressAgain(f) ==
  /\ bucket[f] # Absent
  /\ bucket' = [bucket EXCEPT ![f] = Object(Small, bucket[f].size)]
  /\ UNCHANGED <<disk, confVars, current, loop, spent>>
Recompress(f) ==
  /\ bucket[f].size > Small /\ bucket[f].source = 0
  /\ bucket' = [bucket EXCEPT ![f] = Object(Small, bucket[f].size)]
  /\ UNCHANGED <<disk, confVars, current, loop, spent>>

\* findUploadingFolderForKey: here the app changes the disk, elsewhere the
\* bucket, and leaves the rest to a pass.
Uploading == folder.enabled /\ folder.upload

DeleteFile(f) ==
  /\ Spend("edits", MaxEdits)
  /\ IF Uploading
     THEN /\ disk[f] # 0
          /\ disk' = [disk EXCEPT ![f] = 0] /\ Refile(Without(f)) /\ UNCHANGED bucket
     ELSE /\ bucket[f] # Absent
          /\ bucket' = [bucket EXCEPT ![f] = Absent] /\ UNCHANGED <<disk, loop>>
  /\ UNCHANGED <<confVars, current>>

RenameFile(f, g) ==
  /\ f # g /\ Spend("edits", MaxEdits)
  /\ IF Uploading
     THEN /\ disk[f] # 0
          /\ disk' = [disk EXCEPT ![g] = disk[f], ![f] = 0] /\ UNCHANGED bucket
          /\ Refile([Without(g) EXCEPT ![f] = g])
     ELSE /\ bucket[f] # Absent /\ bucket[g] = Absent
          /\ bucket' = [bucket EXCEPT ![g] = bucket[f], ![f] = Absent] /\ UNCHANGED <<disk, loop>>
  /\ UNCHANGED <<confVars, current>>

---------------------------------------------------------------------------
(* The settings screen.  Every Save counts a generation.                   *)

Save(new) ==
  /\ Spend("changes", MaxChanges)
  /\ folder' = new /\ gen' = gen + 1
  /\ UNCHANGED <<fileVars, current, loop>>

AddSyncFolder    == ~folder.listed /\ Save(NewFolder)
RemoveSyncFolder == folder.listed /\ Save(NoFolder)
SetFolderEnabled(on) == folder.listed /\ Save([folder EXCEPT !.enabled = on])
SetFolderDirections(up, down) ==
  folder.listed /\ Save([folder EXCEPT !.upload = up, !.download = down])

---------------------------------------------------------------------------
(* Start and Stop, and the loop.                                           *)

Begun == [Off EXCEPT !.pc = "start", !.live = TRUE]

\* Mutant: a loop is started beside the one there is.
StartAnyway ==
  /\ \E l \in Loops : At(l, "off") /\ current' = l /\ Become(l, Begun)
  /\ UNCHANGED <<fileVars, confVars, spent>>
Start ==
  /\ current = None
  /\ \E l \in Loops : At(l, "off") /\ current' = l /\ Become(l, Begun)
  /\ UNCHANGED <<fileVars, confVars, spent>>

\* Stop cancels the context and does not wait.
Stop ==
  /\ current # None /\ Spend("changes", MaxChanges)
  /\ loop' = [loop EXCEPT ![current].live = FALSE]
  /\ current' = None
  /\ UNCHANGED <<fileVars, confVars>>

\* The loop has its watcher, and makes a pass at once.
LoopStart(l) ==
  /\ At(l, "start")
  /\ Goto(l, "pass")
  /\ UNCHANGED <<fileVars, confVars, current, spent>>

\* A tick, a file event or a nudge; select may choose it over a cancelled
\* context.
Wake(l) ==
  /\ At(l, "wait")
  /\ Goto(l, "pass")
  /\ UNCHANGED <<fileVars, confVars, current, spent>>

LoopEnds(l) ==
  /\ At(l, "wait") /\ ~loop[l].live
  /\ Become(l, Off)
  /\ UNCHANGED <<fileVars, confVars, current, spent>>

\* There is no watcher to be had, or its channels were closed: the loop is gone,
\* and the engine still counts as started.
LoopFails(l) ==
  /\ At(l, "start") \/ At(l, "wait")
  /\ Spend("edits", MaxEdits)
  /\ Become(l, Off)
  /\ UNCHANGED <<fileVars, confVars, current>>

---------------------------------------------------------------------------
(* One pass: reconcileAll and reconcileOne.                                *)

\* The generation is read before the settings.
\* Mutant: the settings are read first.
PassSettingsFirst(l) ==
  /\ \/ At(l, "pass") /\ Become(l, [loop[l] EXCEPT !.pc = "settings", !.folder = folder])
     \/ At(l, "settings") /\ Become(l, [loop[l] EXCEPT !.pc = "list", !.gen = gen])
  /\ UNCHANGED <<fileVars, confVars, current, spent>>
PassBegin(l) ==
  /\ \/ At(l, "pass") /\ Become(l, [loop[l] EXCEPT !.pc = "settings", !.gen = gen])
     \/ At(l, "settings") /\ Become(l, [loop[l] EXCEPT !.pc = "list", !.folder = folder])
  /\ UNCHANGED <<fileVars, confVars, current, spent>>

List(l) ==
  /\ At(l, "list")
  /\ Become(l, [loop[l] EXCEPT !.pc = "scan", !.listing = bucket])
  /\ UNCHANGED <<fileVars, confVars, current, spent>>

\* The settings of the pass are still the settings, and nobody called Stop.
UpToDate(l) == loop[l].live /\ loop[l].gen = gen

Scan(l) ==
  /\ At(l, "scan")
  /\ IF UpToDate(l) /\ loop[l].folder.enabled
     THEN Become(l, [loop[l] EXCEPT !.pc = "walk", !.local = disk,
            !.todo = {f \in Files : disk[f] # 0 \/ loop[l].listing[f] # Absent}])
     ELSE EndPass(l)
  /\ UNCHANGED <<fileVars, confVars, current, spent>>

\* The size that a local file is compared with.
\* Mutant: the size of the recompressed object.
RemoteSizeOnly(o) == o.size
RemoteSize(o) == IF o.source > 0 THEN o.source ELSE o.size

\* What to do about a file: local wins, only an upload-only folder mirrors a
\* deletion, and without a direction the file is skipped.
\* Mutant: an object of that name is taken for the file.
DecisionByName(l, f) ==
  LET n  == loop[l].local[f]
      o  == loop[l].listing[f]
      up == loop[l].folder.upload
      dn == loop[l].folder.download IN
    IF n # 0 THEN IF o = Absent /\ up THEN "open" ELSE "walk"
    ELSE IF up /\ ~dn THEN "delete" ELSE IF dn THEN "download" ELSE "walk"
Decision(l, f) ==
  LET n  == loop[l].local[f]
      o  == loop[l].listing[f]
      up == loop[l].folder.upload
      dn == loop[l].folder.download IN
    IF n # 0 THEN IF n # RemoteSize(o) /\ up THEN "open" ELSE "walk"
    ELSE IF up /\ ~dn THEN "delete" ELSE IF dn THEN "download" ELSE "walk"

\* The files on the disk come first.
NextFiles(l) ==
  LET onDisk == {f \in loop[l].todo : loop[l].local[f] # 0} IN
    IF onDisk # {} THEN onDisk ELSE loop[l].todo

Walk(l) ==
  /\ At(l, "walk")
  /\ IF loop[l].todo = {} \/ ~UpToDate(l) THEN EndPass(l)
     ELSE \E f \in NextFiles(l) :
            LET next == Decision(l, f) IN
              Become(l, [loop[l] EXCEPT !.pc = next, !.file = IF next = "walk" THEN None ELSE f,
                !.todo = @ \ {f}, !.listing[f] = Absent, !.local[f] = 0])
  /\ UNCHANGED <<fileVars, confVars, current, spent>>

---------------------------------------------------------------------------
(* Transfers.  A failed one is counted and the pass goes on.               *)

Late(l) == IF loop[l].live /\ loop[l].folder = folder THEN loop[l].late ELSE loop[l].late + 1

\* The size of the upload is taken when the file is opened; a file that is gone
\* by then is an error.
UploadOpen(l) ==
  LET f == loop[l].file IN
    /\ At(l, "open")
    /\ IF disk[f] = 0 THEN NextFile(l, loop[l].late)
       ELSE Become(l, [loop[l] EXCEPT !.pc = "upload", !.size = disk[f], !.late = Late(l)])
    /\ UNCHANGED <<fileVars, confVars, current, spent>>

UploadComplete(l) ==
  /\ At(l, "upload")
  /\ bucket' = [bucket EXCEPT ![loop[l].file] = Object(loop[l].size, 0)]
  /\ NextFile(l, loop[l].late)
  /\ UNCHANGED <<disk, confVars, current, spent>>

DeleteRemote(l) ==
  /\ At(l, "delete")
  /\ bucket' = [bucket EXCEPT ![loop[l].file] = Absent]
  /\ NextFile(l, Late(l))
  /\ UNCHANGED <<disk, confVars, current, spent>>

\* An object that is gone is an error; else the file is created, or truncated,
\* and from then on filled through its handle: file is then where it is by now.
DownloadStart(l) ==
  LET f == loop[l].file IN
    /\ At(l, "download")
    /\ IF bucket[f] = Absent THEN NextFile(l, loop[l].late) /\ UNCHANGED disk
       ELSE /\ disk' = [disk EXCEPT ![f] = Small]
            /\ Become(l, [loop[l] EXCEPT !.pc = "fill", !.size = bucket[f].size, !.late = Late(l)])
    /\ UNCHANGED <<bucket, confVars, current, spent>>

\* What the user wrote in place may be longer.
DownloadDone(l) ==
  LET f == loop[l].file
      n == loop[l].size IN
    /\ At(l, "fill")
    /\ disk' = IF f = None THEN disk ELSE [disk EXCEPT ![f] = IF @ > n THEN @ ELSE n]
    /\ NextFile(l, loop[l].late)
    /\ UNCHANGED <<bucket, confVars, current, spent>>

\* The server cannot be reached, or a transfer breaks off where it is.
PassFails(l) ==
  /\ Spend("edits", MaxEdits)
  /\ \/ At(l, "list") /\ EndPass(l)
     \/ loop[l].pc \in {"open", "upload", "delete", "download", "fill"} /\ NextFile(l, loop[l].late)
  /\ UNCHANGED <<fileVars, confVars, current>>

---------------------------------------------------------------------------
Edits ==
  \/ \E f \in Files : DeleteFile(f) \/ Recompress(f)
  \/ \E f, g \in Files : RenameFile(f, g)
  \/ \E f \in Files, n \in Sizes \cup {0} : EditLocal(f, n) \/ EditRemote(f, n)

Changes ==
  \/ AddSyncFolder \/ RemoveSyncFolder
  \/ \E on \in BOOLEAN : SetFolderEnabled(on)
  \/ \E up, down \in BOOLEAN : SetFolderDirections(up, down)

\* What a loop does in bounded time: calls of the API have a deadline.
LoopSteps(l) ==
  \/ LoopStart(l) \/ Wake(l) \/ LoopEnds(l)
  \/ PassBegin(l) \/ List(l) \/ Scan(l) \/ Walk(l)
  \/ UploadOpen(l) \/ DeleteRemote(l) \/ DownloadStart(l)

\* The body of a transfer has none.
Transfers(l) == UploadComplete(l) \/ DownloadDone(l)
Transferring(l) == loop[l].pc \in {"upload", "fill"}

Next ==
  \/ Edits \/ Changes \/ Start \/ Stop
  \/ \E l \in Loops : LoopSteps(l) \/ Transfers(l) \/ PassFails(l) \/ LoopFails(l)

\* A goroutine that can go on does so, and the ticker wakes it; a transfer may
\* stall for ever.
Fairness == \A l \in Loops : WF_vars(LoopSteps(l))

Spec == Init /\ [][Next]_vars /\ Fairness

---------------------------------------------------------------------------
Objects == {Object(n, s) : n \in Sizes \cup {0, Small}, s \in Sizes \cup {0}}

TypeOK ==
  /\ disk \in [Files -> Sizes \cup {0, Small}] /\ bucket \in [Files -> Objects]
  /\ folder \in [listed : BOOLEAN, enabled : BOOLEAN, upload : BOOLEAN, download : BOOLEAN]
  /\ gen \in Nat /\ current \in Loops \cup {None}
  /\ \A l \in Loops : loop[l].todo \subseteq Files /\ loop[l].file \in Files \cup {None}

\* A loop that nobody has stopped is the one that Stop would stop, however
\* Start and Stop follow on one another while old loops finish their pass.
LoopsOwned == \A l \in Loops : loop[l].live => current = l

\* After the folder was removed, paused or redirected, or the engine stopped, a
\* pass that is under way begins no transfer but the one it had decided on.
LateTransfers == \A l \in Loops : loop[l].late <= 1

\* The object holds what the file holds, before or after recompression.
Same(f) == disk[f] = IF bucket[f].source > 0 THEN bucket[f].source ELSE bucket[f].size

Agreement ==
  /\ folder.upload => \A f \in Files : Same(f)
  /\ folder.download => \A f \in Files : bucket[f] # Absent => disk[f] # 0

\* Once users leave the files and the settings alone, an engine whose loop runs
\* brings the folder and its prefix into agreement, for good, unless one of its
\* transfers stalls: one of a loop that was stopped does no harm, whenever it
\* ends.  A loop that failed does not run, and Start does not replace it.
Runs == current # None /\ ~At(current, "off")
Converges ==
  \/ \E l \in Loops : <>[](current = l /\ Transferring(l))
  \/ <>[](Runs /\ folder.enabled => Agreement)

\* Then transfers end: an object that the server recompresses is not uploaded
\* again for having changed its size.
Settles == <>[][UNCHANGED fileVars]_vars

=============================================================================
