-------------------------- MODULE SyncEngineProofs --------------------------
(***************************************************************************)
(* Proofs about SyncEngine: types, at most one loop that goes on, and no   *)
(* transfer begun on old settings but the one that was decided on.         *)
(***************************************************************************)
EXTENDS SyncEngine, TLAPS

---------------------------------------------------------------------------
(* The inductive invariant.                                                *)

Bytes   == Sizes \cup {0, Small}
Mapping == [listed : BOOLEAN, enabled : BOOLEAN, upload : BOOLEAN, download : BOOLEAN]

\* Steps of a pass: before it has its settings, while it prepares, at a file it
\* has decided on, and in between or in the middle of a transfer.
Resters   == {"off", "start", "wait", "pass", "settings"}
Preparing == {"list", "scan"}
Decided   == {"open", "delete", "download"}
Walking   == {"walk", "upload", "fill"}
Loop == [pc : Resters \cup Preparing \cup Decided \cup Walking, live : BOOLEAN, gen : Nat,
         folder : Mapping, listing : [Files -> Objects], local : [Files -> Bytes],
         todo : SUBSET Files, file : Files \cup {None}, size : Bytes, late : {0, 1}]

Types ==
  /\ TypeOK
  /\ loop \in [Loops -> Loop]
  /\ \A l \in Loops : loop[l].pc \in Decided \cup {"upload"} => loop[l].file \in Files

\* The generation was read before the settings: while it is current, so are they.
SettingsKnown(l) ==
  /\ At(l, "settings") => loop[l].gen <= gen
  /\ loop[l].pc \in Preparing \cup Decided \cup Walking =>
       loop[l].gen <= gen /\ (loop[l].gen = gen => loop[l].folder = folder)

\* A pass that has begun a transfer late is no longer up to date, and so will
\* decide on no other.
LateOnce(l) ==
  loop[l].late = 1 => loop[l].pc \in Walking /\ ~UpToDate(l)

EngineInv == Types /\ LoopsOwned /\ \A l \in Loops : SettingsKnown(l) /\ LateOnce(l)

---------------------------------------------------------------------------
(* Types of what the engine handles.                                       *)

LEMMA ObjectTypes ==
  /\ Absent \in Objects
  /\ \A n \in Bytes, m \in Sizes \cup {0} :
       /\ Object(n, m) \in Objects
       /\ Object(n, m).size = n /\ Object(n, m).source = m
  /\ \A o \in Objects : o.size \in Bytes /\ o.source \in Sizes \cup {0}
  /\ \A n \in Bytes : n > Small => n \in Sizes
BY SizesAssumption DEF Objects, Object, Absent, Bytes, Small

LEMMA MappingTypes ==
  /\ NoFolder \in Mapping /\ TwoWay \in Mapping /\ NewFolder \in Mapping
  /\ \A m \in Mapping, on, down \in BOOLEAN :
       /\ [m EXCEPT !.enabled = on] \in Mapping
       /\ [m EXCEPT !.upload = on, !.download = down] \in Mapping
BY DEF NoFolder, TwoWay, NewFolder, Mapping

LEMMA LoopTypes ==
  /\ Off \in Loop /\ Off.pc = "off" /\ Off.live = FALSE /\ Off.late = 0
  /\ \A on \in BOOLEAN :
       /\ Resting(on) \in Loop /\ Resting(on).pc = "wait"
       /\ Resting(on).live = on /\ Resting(on).late = 0
<1>1. /\ [f \in Files |-> Absent] \in [Files -> Objects]
      /\ [f \in Files |-> 0] \in [Files -> Bytes]
  BY ObjectTypes DEF Bytes
<1>2. Off \in Loop
  BY <1>1, MappingTypes DEF Off, Loop, Resters, Bytes
<1> QED
  BY <1>2 DEF Off, Resting, Loop, Resters

LEMMA InitEngine == Init => EngineInv
<1> SUFFICES ASSUME Init PROVE EngineInv
  OBVIOUS
<1>1. TypeOK
  <2>1. disk \in [Files -> Sizes \cup {0, Small}] /\ bucket \in [Files -> Objects]
    BY ObjectTypes DEF Init
  <2>2. folder \in Mapping
    BY MappingTypes DEF Init
  <2>3. \A l \in Loops : loop[l].todo \subseteq Files /\ loop[l].file \in Files \cup {None}
    BY DEF Init, Off
  <2> QED
    BY <2>1, <2>2, <2>3 DEF Init, TypeOK, Mapping
<1>2. \A l \in Loops : loop[l] = Off
  BY DEF Init
<1>3. Types
  BY <1>1, <1>2, LoopTypes DEF Init, Types, Decided
<1>4. LoopsOwned
  BY <1>2, LoopTypes DEF LoopsOwned
<1>5. \A l \in Loops : SettingsKnown(l) /\ LateOnce(l)
  BY <1>2, LoopTypes DEF SettingsKnown, LateOnce, At, Preparing, Decided, Walking
<1> QED
  BY <1>3, <1>4, <1>5 DEF EngineInv

---------------------------------------------------------------------------
(* Steps of the users and of the server, which leave the engine alone.     *)

\* Downloads follow their files.
Refiled ==
  /\ loop' = [l \in Loops |-> loop'[l]]
  /\ \A l \in Loops : loop'[l] = loop[l] \/
       (At(l, "fill") /\ \E g \in Files \cup {None} : loop'[l] = [loop[l] EXCEPT !.file = g])

LEMMA Refiling ==
  ASSUME EngineInv
  PROVE  /\ UNCHANGED loop => Refiled
         /\ \A f \in Files : Refile(Without(f)) => Refiled
         /\ \A f, g \in Files : Refile([Without(g) EXCEPT ![f] = g]) => Refiled
<1>1. loop \in [Loops -> Loop]
  BY DEF EngineInv, Types
<1>2. ASSUME NEW to \in [Files -> Files \cup {None}], Refile(to) PROVE Refiled
  <2>1. ASSUME NEW l \in Loops, At(l, "fill"), loop[l].file # None PROVE to[loop[l].file] \in Files \cup {None}
    BY <1>1, <2>1 DEF Loop
  <2> QED
    BY <1>2, <2>1 DEF Refile, Refiled
<1>3. \A f \in Files : Without(f) \in [Files -> Files \cup {None}]
  BY DEF Without
<1>4. \A f, g \in Files : [Without(g) EXCEPT ![f] = g] \in [Files -> Files \cup {None}]
  BY DEF Without
<1>5. UNCHANGED loop => Refiled
  BY <1>1 DEF Refiled
<1> QED
  BY <1>2, <1>3, <1>4, <1>5

LEMMA FilesStep ==
  ASSUME EngineInv,
         disk' \in [Files -> Bytes], bucket' \in [Files -> Objects],
         UNCHANGED <<confVars, current>>, Refiled
  PROVE  EngineInv'
<1>1. loop' \in [Loops -> Loop]
      /\ \A l \in Loops : loop'[l].pc \in Decided \cup {"upload"} => loop'[l].file \in Files
  <2>1. ASSUME NEW l \in Loops
        PROVE  loop'[l] \in Loop /\ (loop'[l].pc \in Decided \cup {"upload"} => loop'[l].file \in Files)
    <3>1. loop[l] \in Loop /\ (loop[l].pc \in Decided \cup {"upload"} => loop[l].file \in Files)
      BY DEF EngineInv, Types
    <3>2. CASE loop'[l] = loop[l]
      BY <3>1, <3>2
    <3>3. CASE loop'[l] # loop[l]
      <4>1. PICK g \in Files \cup {None} : At(l, "fill") /\ loop'[l] = [loop[l] EXCEPT !.file = g]
        BY <3>3 DEF Refiled
      <4> QED
        BY <3>1, <4>1 DEF At, Loop, Decided
    <3> QED
      BY <3>2, <3>3
  <2> QED
    BY <2>1 DEF Refiled
<1>2. \A l \in Loops : /\ loop'[l].pc = loop[l].pc /\ loop'[l].live = loop[l].live
                       /\ loop'[l].gen = loop[l].gen /\ loop'[l].folder = loop[l].folder
                       /\ loop'[l].late = loop[l].late
  BY DEF Refiled, EngineInv, Types, Loop
<1>3. TypeOK'
  BY <1>1 DEF EngineInv, Types, TypeOK, confVars, Bytes, Loop
<1>4. Types' /\ LoopsOwned'
  BY <1>1, <1>2, <1>3 DEF EngineInv, Types, LoopsOwned
<1>5. ASSUME NEW l \in Loops PROVE SettingsKnown(l)' /\ LateOnce(l)'
  BY <1>2 DEF EngineInv, SettingsKnown, LateOnce, UpToDate, At, confVars
<1> QED
  BY <1>4, <1>5 DEF EngineInv

LEMMA EditsStep ==
  ASSUME EngineInv, Edits
  PROVE  EngineInv'
<1>1. disk \in [Files -> Bytes] /\ bucket \in [Files -> Objects]
  BY DEF EngineInv, Types, TypeOK, Bytes
<1>2. ASSUME NEW f \in Files, DeleteFile(f) PROVE EngineInv'
  <2>1. disk' \in [Files -> Bytes] /\ bucket' \in [Files -> Objects]
    BY <1>1, <1>2, ObjectTypes DEF DeleteFile, Bytes
  <2> QED
    BY <1>2, <2>1, Refiling, FilesStep DEF DeleteFile
<1>3. ASSUME NEW f \in Files, Recompress(f) PROVE EngineInv'
  <2>1. bucket[f].size \in Sizes
    BY <1>1, <1>3, ObjectTypes DEF Recompress
  <2>2. Object(Small, bucket[f].size) \in Objects
    BY <2>1, ObjectTypes DEF Bytes
  <2>3. disk' \in [Files -> Bytes] /\ bucket' \in [Files -> Objects]
    BY <1>1, <1>3, <2>2 DEF Recompress
  <2> QED
    BY <1>3, <2>3, Refiling, FilesStep DEF Recompress
<1>4. ASSUME NEW f \in Files, NEW g \in Files, RenameFile(f, g) PROVE EngineInv'
  <2>1. disk' \in [Files -> Bytes] /\ bucket' \in [Files -> Objects]
    BY <1>1, <1>4, ObjectTypes DEF RenameFile, Bytes
  <2> QED
    BY <1>4, <2>1, Refiling, FilesStep DEF RenameFile
<1>5. ASSUME NEW f \in Files, NEW n \in Sizes \cup {0}, EditLocal(f, n) \/ EditRemote(f, n)
      PROVE  EngineInv'
  <2>1. n \in Bytes /\ Object(n, 0) \in Objects
    BY ObjectTypes DEF Bytes
  <2>2. disk' \in [Files -> Bytes] /\ bucket' \in [Files -> Objects]
    BY <1>1, <1>5, <2>1 DEF EditLocal, EditRemote
  <2> QED
    BY <1>5, <2>2, Refiling, FilesStep DEF EditLocal, EditRemote
<1> QED
  BY <1>2, <1>3, <1>4, <1>5 DEF Edits

\* Saving makes every pass out of date.
LEMMA SaveStep ==
  ASSUME EngineInv, NEW new \in Mapping, Save(new)
  PROVE  EngineInv'
<1>1. gen \in Nat /\ gen' = gen + 1 /\ folder' = new /\ UNCHANGED <<fileVars, current, loop>>
  BY DEF EngineInv, Types, TypeOK, Save
<1>2. TypeOK'
  BY <1>1 DEF EngineInv, Types, TypeOK, Mapping, fileVars
<1>3. Types' /\ LoopsOwned'
  BY <1>1, <1>2 DEF EngineInv, Types, LoopsOwned
<1>4. ASSUME NEW l \in Loops PROVE SettingsKnown(l)' /\ LateOnce(l)'
  <2>1. loop[l].gen \in Nat /\ loop[l].late \in {0, 1} /\ loop[l].pc \in Resters \cup Preparing \cup Decided \cup Walking
    BY DEF EngineInv, Types, Loop
  <2>2. SettingsKnown(l) /\ LateOnce(l)
    BY DEF EngineInv
  <2>3. loop[l].gen <= gen => loop[l].gen # gen'
    BY <1>1, <2>1
  <2>4. SettingsKnown(l)'
    BY <1>1, <2>1, <2>2 DEF SettingsKnown, At
  <2>5. LateOnce(l)'
    BY <1>1, <2>2, <2>3 DEF LateOnce, SettingsKnown, UpToDate
  <2> QED
    BY <2>4, <2>5
<1> QED
  BY <1>3, <1>4 DEF EngineInv

LEMMA ChangesStep ==
  ASSUME EngineInv, Changes
  PROVE  EngineInv'
<1>1. folder \in Mapping
  BY DEF EngineInv, Types, TypeOK, Mapping
<1>2. \E new \in Mapping : Save(new)
  BY <1>1, MappingTypes, Zenon DEF Changes, AddSyncFolder, RemoveSyncFolder, SetFolderEnabled,
                                   SetFolderDirections
<1> QED
  BY <1>2, SaveStep

---------------------------------------------------------------------------
(* Steps of the engine.                                                    *)

\* One loop changes, and the settings do not.
LEMMA LoopStep ==
  ASSUME EngineInv, NEW l \in Loops, NEW new \in Loop,
         loop' = [loop EXCEPT ![l] = new],
         disk' \in [Files -> Bytes], bucket' \in [Files -> Objects],
         UNCHANGED confVars,
         current' \in Loops \cup {None}, LoopsOwned',
         new.pc \in Decided \cup {"upload"} => new.file \in Files,
         SettingsKnown(l)', LateOnce(l)'
  PROVE  EngineInv'
<1>1. loop' \in [Loops -> Loop] /\ loop'[l] = new /\ \A j \in Loops : j # l => loop'[j] = loop[j]
  BY DEF EngineInv, Types
<1>2. \A j \in Loops : loop'[j].todo \subseteq Files /\ loop'[j].file \in Files \cup {None}
  BY <1>1 DEF Loop
<1>3. TypeOK'
  BY <1>2 DEF EngineInv, Types, TypeOK, confVars, Bytes
<1>4. Types'
  BY <1>1, <1>3 DEF EngineInv, Types
<1>5. ASSUME NEW j \in Loops, j # l PROVE SettingsKnown(j)' /\ LateOnce(j)'
  BY <1>1, <1>5 DEF EngineInv, SettingsKnown, LateOnce, UpToDate, At, confVars
<1> QED
  BY <1>4, <1>5 DEF EngineInv

LEMMA StartStep ==
  ASSUME EngineInv, Start
  PROVE  EngineInv'
<1>1. PICK l \in Loops : At(l, "off") /\ current' = l /\ Become(l, Begun)
  BY DEF Start
<1> DEFINE new == Begun
<1>2. new \in Loop /\ new.pc = "start" /\ new.late = 0
  BY LoopTypes DEF Begun, Loop, Resters
<1>3. /\ loop' = [loop EXCEPT ![l] = new] /\ loop'[l] = new
      /\ \A j \in Loops : j # l => loop'[j] = loop[j]
  BY <1>1 DEF Become, EngineInv, Types
<1> HIDE DEF new
<1>4. current = None /\ UNCHANGED <<fileVars, confVars>> /\ current' = l
  BY <1>1 DEF Start
<1>5. LoopsOwned'
  BY <1>3, <1>4, NoneAssumption DEF EngineInv, LoopsOwned
<1>6. SettingsKnown(l)' /\ LateOnce(l)'
  BY <1>2, <1>3 DEF SettingsKnown, LateOnce, At, Preparing, Decided, Walking
<1>7. disk' \in [Files -> Bytes] /\ bucket' \in [Files -> Objects]
  BY <1>4 DEF EngineInv, Types, TypeOK, Bytes, fileVars
<1> QED
  BY <1>2, <1>3, <1>4, <1>5, <1>6, <1>7, LoopStep DEF Decided

\* Stop cancels the one loop that goes on, so that none does.
LEMMA StopStep ==
  ASSUME EngineInv, Stop
  PROVE  EngineInv'
<1>1. PICK l \in Loops : l = current
  BY DEF Stop, EngineInv, Types, TypeOK
<1> DEFINE new == [loop[l] EXCEPT !.live = FALSE]
<1>2. loop[l] \in Loop
  BY DEF EngineInv, Types
<1>3. /\ new \in Loop /\ new.live = FALSE /\ new.pc = loop[l].pc /\ new.late = loop[l].late
      /\ new.gen = loop[l].gen /\ new.folder = loop[l].folder /\ new.file = loop[l].file
  BY <1>2 DEF Loop
<1>4. loop' = [loop EXCEPT ![l] = new] /\ current' = None /\ UNCHANGED <<fileVars, confVars>>
  BY <1>1 DEF Stop
<1>5. loop'[l] = new /\ \A j \in Loops : j # l => loop'[j] = loop[j]
  BY <1>4 DEF EngineInv, Types
<1> HIDE DEF new
<1>6. LoopsOwned'
  BY <1>1, <1>3, <1>5 DEF EngineInv, LoopsOwned
<1>7. SettingsKnown(l)' /\ LateOnce(l)'
  BY <1>3, <1>4, <1>5 DEF EngineInv, SettingsKnown, LateOnce, UpToDate, At, confVars
<1>8. disk' \in [Files -> Bytes] /\ bucket' \in [Files -> Objects]
  BY <1>4 DEF EngineInv, Types, TypeOK, Bytes, fileVars
<1>9. new.pc \in Decided \cup {"upload"} => new.file \in Files
  BY <1>3 DEF EngineInv, Types
<1> QED
  BY <1>3, <1>4, <1>6, <1>7, <1>8, <1>9, LoopStep

---------------------------------------------------------------------------
(* Steps of one loop.                                                      *)

\* The next state of a loop that nobody starts or stops.
Follows(l, new) ==
  /\ new.live => loop[l].live
  /\ new.pc \in Decided \cup {"upload"} => new.file \in Files
  /\ new.pc = "settings" => new.gen <= gen
  /\ new.pc \in Preparing \cup Decided \cup Walking =>
       new.gen <= gen /\ (new.gen = gen => new.folder = folder)
  /\ new.late = 1 => new.pc \in Walking /\ ~(new.live /\ new.gen = gen)

LEMMA PassStep ==
  ASSUME EngineInv, NEW l \in Loops, NEW new \in Loop, Follows(l, new),
         loop' = [loop EXCEPT ![l] = new],
         disk' \in [Files -> Bytes], bucket' \in [Files -> Objects],
         UNCHANGED <<confVars, current>>
  PROVE  EngineInv'
<1>1. loop'[l] = new /\ \A j \in Loops : j # l => loop'[j] = loop[j]
  BY DEF EngineInv, Types
<1>2. LoopsOwned'
  BY <1>1 DEF EngineInv, LoopsOwned, Follows
<1>3. SettingsKnown(l)'
  BY <1>1 DEF SettingsKnown, At, confVars, Follows
<1>4. LateOnce(l)'
  BY <1>1 DEF LateOnce, UpToDate, confVars, Follows
<1>5. current' \in Loops \cup {None}
  BY DEF EngineInv, Types, TypeOK
<1>6. new.pc \in Decided \cup {"upload"} => new.file \in Files
  BY DEF Follows
<1>7. UNCHANGED confVars
  OBVIOUS
<1> QED
  BY <1>2, <1>3, <1>4, <1>5, <1>6, <1>7, LoopStep

\* A loop that keeps its settings, and is late no more than it was.
LEMMA Following ==
  ASSUME EngineInv, NEW l \in Loops, loop[l].pc \in Preparing \cup Decided \cup Walking,
         NEW new, new.live = loop[l].live, new.gen = loop[l].gen, new.folder = loop[l].folder,
         new.pc \in Preparing \cup Decided \cup Walking,
         new.pc \in Decided \cup {"upload"} => new.file \in Files,
         new.late = 1 => new.pc \in Walking /\ ~UpToDate(l)
  PROVE  Follows(l, new)
<1>1. new.live => loop[l].live
  BY Zenon
<1>2. new.gen <= gen /\ (new.gen = gen => new.folder = folder)
  BY DEF EngineInv, SettingsKnown
<1>3. new.pc # "settings"
  BY DEF Preparing, Decided, Walking
<1>4. new.late = 1 => new.pc \in Walking /\ ~(new.live /\ new.gen = gen)
  BY Zenon DEF UpToDate
<1> QED
  BY <1>1, <1>2, <1>3, <1>4, Zenon DEF Follows

\* A loop that has no settings yet.
LEMMA FollowingFresh ==
  ASSUME NEW l \in Loops, NEW new, new.live = loop[l].live, new.late = 0,
         new.pc \in Resters, new.pc = "settings" => new.gen <= gen
  PROVE  Follows(l, new)
<1>1. new.live => loop[l].live
  BY Zenon
<1>2. new.pc \notin Preparing \cup Decided \cup Walking /\ new.pc \notin Decided \cup {"upload"}
  BY DEF Preparing, Decided, Walking, Resters
<1>3. new.late # 1
  OBVIOUS
<1> QED
  BY <1>1, <1>2, <1>3, Zenon DEF Follows

LEMMA QuietFiles ==
  ASSUME EngineInv, UNCHANGED fileVars
  PROVE  disk' \in [Files -> Bytes] /\ bucket' \in [Files -> Objects]
BY DEF EngineInv, Types, TypeOK, Bytes, fileVars

\* A pass ends.
LEMMA EndPassStep ==
  ASSUME EngineInv, NEW l \in Loops, EndPass(l), UNCHANGED <<fileVars, confVars, current>>
  PROVE  EngineInv'
<1> DEFINE new == Resting(loop[l].live)
<1>1. loop[l].live \in BOOLEAN
  BY DEF EngineInv, Types, Loop
<1>2. new \in Loop /\ new.pc = "wait" /\ new.live = loop[l].live /\ new.late = 0
  BY <1>1, LoopTypes
<1>3. loop' = [loop EXCEPT ![l] = new]
  BY DEF EndPass, Become
<1> HIDE DEF new
<1>4. new.pc \in Resters /\ new.pc # "settings"
  BY <1>2 DEF Resters
<1>5. Follows(l, new)
  BY <1>2, <1>4, FollowingFresh, Zenon
<1> QED
  BY <1>2, <1>3, <1>5, QuietFiles, PassStep, Zenon

\* A pass goes on to its next file.
LEMMA NextFileStep ==
  ASSUME EngineInv, NEW l \in Loops, NEW n \in {0, 1}, NextFile(l, n),
         loop[l].pc \in Decided \cup Walking,
         n = 1 => ~UpToDate(l),
         disk' \in [Files -> Bytes], bucket' \in [Files -> Objects],
         UNCHANGED <<confVars, current>>
  PROVE  EngineInv'
<1> DEFINE new == [loop[l] EXCEPT !.pc = "walk", !.file = None, !.size = 0, !.late = n]
<1>1. loop[l] \in Loop
  BY DEF EngineInv, Types
<1>2. /\ new \in Loop /\ new.pc = "walk" /\ new.live = loop[l].live /\ new.late = n
      /\ new.gen = loop[l].gen /\ new.folder = loop[l].folder
  BY <1>1 DEF Loop, Walking, Bytes
<1>3. loop' = [loop EXCEPT ![l] = new]
  BY DEF NextFile, Become
<1> HIDE DEF new
<1>4. new.pc \in Walking /\ new.pc \notin Decided \cup {"upload"}
  BY <1>2 DEF Walking, Decided
<1>5. Follows(l, new)
  BY <1>2, <1>4, Following, Zenon
<1> QED
  BY <1>2, <1>3, <1>5, PassStep, Zenon

\* Nothing is late before the first transfer of a pass.
LEMMA NotLate ==
  ASSUME EngineInv, NEW l \in Loops, loop[l].pc \notin Walking \/ UpToDate(l)
  PROVE  loop[l].late = 0
BY DEF EngineInv, Types, Loop, LateOnce

\* A transfer that begins late does so in a pass that is not up to date.
LEMMA LateKnown ==
  ASSUME EngineInv, NEW l \in Loops, loop[l].pc \in Decided
  PROVE  loop[l].late = 0 /\ Late(l) \in {0, 1} /\ (Late(l) = 1 => ~UpToDate(l))
<1>1. loop[l].late = 0
  BY NotLate DEF Decided, Walking
<1>2. loop[l].gen = gen => loop[l].folder = folder
  BY DEF EngineInv, SettingsKnown
<1> QED
  BY <1>1, <1>2 DEF Late, UpToDate

LEMMA WakeStep ==
  ASSUME EngineInv, NEW l \in Loops, LoopStart(l) \/ Wake(l) \/ LoopEnds(l) \/ LoopFails(l)
  PROVE  EngineInv'
<1>1. UNCHANGED <<fileVars, confVars, current>>
  BY DEF LoopStart, Wake, LoopEnds, LoopFails
<1>2. loop[l] \in Loop /\ loop[l].pc \in {"start", "wait"}
  BY DEF EngineInv, Types, LoopStart, Wake, LoopEnds, LoopFails, At
<1>3. loop[l].late = 0
  BY <1>2, NotLate DEF Walking
<1>4. CASE LoopStart(l) \/ Wake(l)
  <2> DEFINE new == [loop[l] EXCEPT !.pc = "pass"]
  <2>1. loop' = [loop EXCEPT ![l] = new]
    BY <1>4 DEF LoopStart, Wake, Goto
  <2>2. new \in Loop /\ new.pc = "pass" /\ new.live = loop[l].live /\ new.late = 0
    BY <1>2, <1>3 DEF Loop, Resters
  <2> HIDE DEF new
  <2>3. new.pc \in Resters /\ new.pc # "settings"
    BY <2>2 DEF Resters
  <2>4. Follows(l, new)
    BY <2>2, <2>3, FollowingFresh, Zenon
  <2> QED
    BY <1>1, <2>1, <2>2, <2>4, QuietFiles, PassStep, Zenon
<1>5. CASE LoopEnds(l) \/ LoopFails(l)
  <2>1. loop' = [loop EXCEPT ![l] = Off]
    BY <1>5 DEF LoopEnds, LoopFails, Become
  <2>2. Off.pc \in Resters /\ Off.pc # "settings" /\ Off.live = FALSE /\ Off.late = 0 /\ Off \in Loop
    BY LoopTypes DEF Resters
  <2>3. Off.pc \notin Preparing \cup Decided \cup Walking /\ Off.pc \notin Decided \cup {"upload"}
    BY <2>2 DEF Preparing, Decided, Walking, Resters
  <2>4. Off.late # 1
    BY <2>2
  <2>5. Follows(l, Off)
    BY <2>2, <2>3, <2>4, Zenon DEF Follows
  <2> QED
    BY <1>1, <2>1, <2>2, <2>5, QuietFiles, PassStep, Zenon
<1> QED
  BY <1>4, <1>5

\* The generation is read, and then the settings.
LEMMA PassBeginStep ==
  ASSUME EngineInv, NEW l \in Loops, PassBegin(l)
  PROVE  EngineInv'
<1>1. UNCHANGED <<fileVars, confVars, current>>
  BY DEF PassBegin
<1>2. loop[l] \in Loop /\ loop[l].pc \in {"pass", "settings"} /\ SettingsKnown(l)
  BY DEF EngineInv, Types, PassBegin, At
<1>3. gen \in Nat /\ folder \in Mapping
  BY DEF EngineInv, Types, TypeOK, Mapping
<1>4. loop[l].late = 0
  BY <1>2, NotLate DEF Walking
<1>5. CASE loop[l].pc = "pass"
  <2> DEFINE new == [loop[l] EXCEPT !.pc = "settings", !.gen = gen]
  <2>1. loop' = [loop EXCEPT ![l] = new]
    BY <1>5 DEF PassBegin, Become, At
  <2>2. new \in Loop /\ new.pc = "settings" /\ new.live = loop[l].live /\ new.late = 0 /\ new.gen = gen
    BY <1>2, <1>3, <1>4 DEF Loop, Resters
  <2> HIDE DEF new
  <2>3. new.pc \in Resters /\ new.gen <= gen
    BY <1>3, <2>2 DEF Resters
  <2>4. Follows(l, new)
    BY <2>2, <2>3, FollowingFresh, Zenon
  <2> QED
    BY <1>1, <2>1, <2>2, <2>4, QuietFiles, PassStep, Zenon
<1>6. CASE loop[l].pc = "settings"
  <2> DEFINE new == [loop[l] EXCEPT !.pc = "list", !.folder = folder]
  <2>1. loop' = [loop EXCEPT ![l] = new]
    BY <1>6 DEF PassBegin, Become, At
  <2>2. /\ new \in Loop /\ new.pc = "list" /\ new.live = loop[l].live /\ new.late = 0
        /\ new.gen = loop[l].gen /\ new.folder = folder
    BY <1>2, <1>3, <1>4 DEF Loop, Preparing
  <2> HIDE DEF new
  <2>3. new.live => loop[l].live
    BY <2>2, Zenon
  <2>4. new.gen <= gen
    BY <1>2, <1>6, <2>2 DEF SettingsKnown, At
  <2>5. new.pc \notin Decided \cup {"upload"} /\ new.pc # "settings" /\ new.late # 1
    BY <2>2 DEF Decided
  <2>6. Follows(l, new)
    BY <2>2, <2>3, <2>4, <2>5, Zenon DEF Follows
  <2> QED
    BY <1>1, <2>1, <2>2, <2>6, QuietFiles, PassStep, Zenon
<1> QED
  BY <1>2, <1>5, <1>6

LEMMA ListStep ==
  ASSUME EngineInv, NEW l \in Loops, List(l)
  PROVE  EngineInv'
<1> DEFINE new == [loop[l] EXCEPT !.pc = "scan", !.listing = bucket]
<1>1. UNCHANGED <<fileVars, confVars, current>> /\ loop' = [loop EXCEPT ![l] = new]
  BY DEF List, Become
<1>2. loop[l] \in Loop /\ loop[l].pc = "list" /\ bucket \in [Files -> Objects]
  BY DEF EngineInv, Types, TypeOK, List, At
<1>3. loop[l].late = 0 /\ loop[l].pc \in Preparing
  BY <1>2, NotLate DEF Walking, Preparing
<1>4. /\ new \in Loop /\ new.pc = "scan" /\ new.live = loop[l].live /\ new.late = 0
      /\ new.gen = loop[l].gen /\ new.folder = loop[l].folder
  BY <1>2, <1>3 DEF Loop, Preparing
<1> HIDE DEF new
<1>5. new.pc \in Preparing /\ new.pc \notin Decided \cup {"upload"} /\ new.late # 1
  BY <1>4 DEF Preparing, Decided
<1>6. Follows(l, new)
  BY <1>3, <1>4, <1>5, Following, Zenon
<1> QED
  BY <1>1, <1>4, <1>6, QuietFiles, PassStep, Zenon

LEMMA ScanStep ==
  ASSUME EngineInv, NEW l \in Loops, Scan(l)
  PROVE  EngineInv'
<1>1. UNCHANGED <<fileVars, confVars, current>>
  BY DEF Scan
<1>2. CASE EndPass(l)
  BY <1>1, <1>2, EndPassStep
<1>3. CASE ~EndPass(l)
  <2> DEFINE new == [loop[l] EXCEPT !.pc = "walk", !.local = disk,
                       !.todo = {f \in Files : disk[f] # 0 \/ loop[l].listing[f] # Absent}]
  <2>1. loop' = [loop EXCEPT ![l] = new]
    BY <1>3 DEF Scan, Become
  <2>2. loop[l] \in Loop /\ loop[l].pc = "scan" /\ disk \in [Files -> Bytes]
    BY DEF EngineInv, Types, TypeOK, Bytes, Scan, At
  <2>3. loop[l].late = 0 /\ loop[l].pc \in Preparing
    BY <2>2, NotLate DEF Walking, Preparing
  <2>4. /\ new \in Loop /\ new.pc = "walk" /\ new.live = loop[l].live /\ new.late = 0
        /\ new.gen = loop[l].gen /\ new.folder = loop[l].folder
    BY <2>2, <2>3 DEF Loop, Walking
  <2> HIDE DEF new
  <2>5. new.pc \in Walking /\ new.pc \notin Decided \cup {"upload"} /\ new.late # 1
    BY <2>4 DEF Walking, Decided
  <2>6. Follows(l, new)
    BY <2>3, <2>4, <2>5, Following, Zenon
  <2> QED
    BY <1>1, <2>1, <2>4, <2>6, QuietFiles, PassStep, Zenon
<1> QED
  BY <1>2, <1>3

\* A decision is made by a pass that is up to date.
LEMMA WalkStep ==
  ASSUME EngineInv, NEW l \in Loops, Walk(l)
  PROVE  EngineInv'
<1>1. UNCHANGED <<fileVars, confVars, current>>
  BY DEF Walk
<1>2. CASE EndPass(l)
  BY <1>1, <1>2, EndPassStep
<1>3. CASE ~EndPass(l)
  <2>1. loop[l] \in Loop /\ loop[l].pc = "walk" /\ UpToDate(l)
    BY <1>3 DEF EngineInv, Types, Walk, At
  <2>2. PICK f \in NextFiles(l) :
          Become(l, [loop[l] EXCEPT !.pc = Decision(l, f),
                                    !.file = IF Decision(l, f) = "walk" THEN None ELSE f,
                                    !.todo = @ \ {f}, !.listing[f] = Absent, !.local[f] = 0])
    BY <1>3 DEF Walk
  <2> DEFINE next == Decision(l, f)
             new  == [loop[l] EXCEPT !.pc = next, !.file = IF next = "walk" THEN None ELSE f,
                                     !.todo = @ \ {f}, !.listing[f] = Absent, !.local[f] = 0]
  <2>3. next \in Decided \cup {"walk"}
    BY DEF Decision, Decided
  <2>4. loop' = [loop EXCEPT ![l] = new]
    BY <2>2 DEF Become
  <2> HIDE DEF next
  <2>5. loop[l].late = 0 /\ loop[l].pc \in Walking
    BY <2>1, NotLate DEF Walking
  <2>6. f \in Files
    BY <2>1 DEF NextFiles, Loop
  <2>7. /\ [loop[l].listing EXCEPT ![f] = Absent] \in [Files -> Objects]
        /\ [loop[l].local EXCEPT ![f] = 0] \in [Files -> Bytes]
        /\ loop[l].todo \ {f} \in SUBSET Files
    BY <2>1, <2>6, ObjectTypes DEF Loop, Bytes
  <2>8. /\ new.pc = next /\ new.live = loop[l].live /\ new.late = 0
        /\ new.gen = loop[l].gen /\ new.folder = loop[l].folder
        /\ (next # "walk" => new.file = f)
    BY <2>1, <2>5 DEF Loop
  <2>9. new \in Loop
    BY <2>1, <2>3, <2>6, <2>7 DEF Loop, Walking, Decided
  <2> HIDE DEF new
  <2>10. new.pc \in Preparing \cup Decided \cup Walking /\ new.late # 1
    BY <2>3, <2>8 DEF Walking, Decided
  <2>11. new.pc \in Decided \cup {"upload"} => new.file \in Files
    BY <2>6, <2>8 DEF Decided
  <2>12. Follows(l, new)
    BY <2>5, <2>8, <2>10, <2>11, Following, Zenon
  <2> QED
    BY <1>1, <2>4, <2>9, <2>12, QuietFiles, PassStep, Zenon
<1> QED
  BY <1>2, <1>3

---------------------------------------------------------------------------
(* Transfers.                                                              *)

\* A transfer begins.
LEMMA TransferStep ==
  ASSUME EngineInv, NEW l \in Loops, loop[l].pc \in Decided,
         NEW pc \in {"upload", "fill"}, NEW n \in Bytes,
         Become(l, [loop[l] EXCEPT !.pc = pc, !.size = n, !.late = Late(l)]),
         disk' \in [Files -> Bytes], bucket' \in [Files -> Objects],
         UNCHANGED <<confVars, current>>
  PROVE  EngineInv'
<1> DEFINE late == Late(l)
           new  == [loop[l] EXCEPT !.pc = pc, !.size = n, !.late = late]
<1>1. loop[l] \in Loop /\ loop[l].file \in Files
  BY DEF EngineInv, Types
<1>2. late \in {0, 1} /\ (late = 1 => ~UpToDate(l))
  BY LateKnown
<1>3. loop' = [loop EXCEPT ![l] = new]
  BY DEF Become
<1> HIDE DEF late
<1>4. /\ new \in Loop /\ new.pc = pc /\ new.live = loop[l].live /\ new.late = late
      /\ new.gen = loop[l].gen /\ new.folder = loop[l].folder /\ new.file \in Files
  BY <1>1, <1>2 DEF Loop, Walking
<1> HIDE DEF new
<1>5. new.pc \in Walking
  BY <1>4 DEF Walking
<1>6. Follows(l, new)
  BY <1>2, <1>4, <1>5, Following, Zenon
<1> QED
  BY <1>3, <1>4, <1>6, PassStep, Zenon

\* A pass that has decided on a file, or is transferring one, leaves it.
LEMMA LeaveStep ==
  ASSUME EngineInv, NEW l \in Loops, loop[l].pc \in Decided \cup Walking,
         NextFile(l, loop[l].late),
         disk' \in [Files -> Bytes], bucket' \in [Files -> Objects],
         UNCHANGED <<confVars, current>>
  PROVE  EngineInv'
<1>1. loop[l].late \in {0, 1} /\ (loop[l].late = 1 => ~UpToDate(l))
  BY DEF EngineInv, Types, Loop, LateOnce
<1> QED
  BY <1>1, NextFileStep

LEMMA UploadStep ==
  ASSUME EngineInv, NEW l \in Loops, UploadOpen(l) \/ UploadComplete(l)
  PROVE  EngineInv'
<1>1. loop[l].pc \in Decided \cup Walking /\ loop[l].file \in Files /\ loop[l].size \in Bytes
  BY DEF EngineInv, Types, Loop, UploadOpen, UploadComplete, At, Decided, Walking
<1>2. disk \in [Files -> Bytes] /\ bucket \in [Files -> Objects]
  BY DEF EngineInv, Types, TypeOK, Bytes
<1>3. UNCHANGED <<confVars, current>>
  BY DEF UploadOpen, UploadComplete
<1>4. CASE UploadOpen(l)
  <2>1. disk' \in [Files -> Bytes] /\ bucket' \in [Files -> Objects]
    BY <1>2, <1>4 DEF UploadOpen, fileVars
  <2>2. CASE disk[loop[l].file] = 0
    BY <1>1, <1>3, <1>4, <2>1, <2>2, LeaveStep DEF UploadOpen
  <2>3. CASE disk[loop[l].file] # 0
    <3>1. loop[l].pc \in Decided /\ disk[loop[l].file] \in Bytes
      BY <1>1, <1>2, <1>4 DEF UploadOpen, At, Decided
    <3>2. Become(l, [loop[l] EXCEPT !.pc = "upload", !.size = disk[loop[l].file], !.late = Late(l)])
      BY <1>4, <2>3 DEF UploadOpen
    <3> QED
      BY <1>3, <2>1, <3>1, <3>2, TransferStep
  <2> QED
    BY <2>2, <2>3
<1>5. CASE UploadComplete(l)
  <2>1. Object(loop[l].size, 0) \in Objects
    BY <1>1, ObjectTypes
  <2>2. disk' \in [Files -> Bytes] /\ bucket' \in [Files -> Objects]
    BY <1>2, <1>5, <2>1 DEF UploadComplete
  <2> QED
    BY <1>1, <1>3, <1>5, <2>2, LeaveStep DEF UploadComplete
<1> QED
  BY <1>4, <1>5

LEMMA DeleteRemoteStep ==
  ASSUME EngineInv, NEW l \in Loops, DeleteRemote(l)
  PROVE  EngineInv'
<1>1. loop[l].pc \in Decided /\ UNCHANGED <<confVars, current>>
  BY DEF DeleteRemote, At, Decided
<1>2. Late(l) \in {0, 1} /\ (Late(l) = 1 => ~UpToDate(l))
  BY <1>1, LateKnown
<1>3. disk' \in [Files -> Bytes] /\ bucket' \in [Files -> Objects]
  BY ObjectTypes DEF DeleteRemote, EngineInv, Types, TypeOK, Bytes
<1> QED
  BY <1>1, <1>2, <1>3, NextFileStep DEF DeleteRemote

LEMMA DownloadStep ==
  ASSUME EngineInv, NEW l \in Loops, DownloadStart(l) \/ DownloadDone(l)
  PROVE  EngineInv'
<1>1. /\ loop[l].pc \in Decided \cup Walking /\ loop[l].size \in Bytes
      /\ loop[l].file \in Files \cup {None}
      /\ DownloadStart(l) => loop[l].file \in Files
  BY DEF EngineInv, Types, Loop, DownloadStart, DownloadDone, At, Decided, Walking
<1>2. disk \in [Files -> Bytes] /\ bucket \in [Files -> Objects]
  BY DEF EngineInv, Types, TypeOK, Bytes
<1>3. UNCHANGED <<confVars, current>>
  BY DEF DownloadStart, DownloadDone
<1>4. disk' \in [Files -> Bytes] /\ bucket' \in [Files -> Objects]
  BY <1>1, <1>2 DEF DownloadStart, DownloadDone, Bytes
<1>5. CASE DownloadStart(l)
  <2>1. CASE bucket[loop[l].file] = Absent
    BY <1>1, <1>3, <1>4, <1>5, <2>1, LeaveStep DEF DownloadStart
  <2>2. CASE bucket[loop[l].file] # Absent
    <3>1. loop[l].pc \in Decided /\ bucket[loop[l].file].size \in Bytes
      BY <1>1, <1>2, <1>5, ObjectTypes DEF DownloadStart, At, Decided
    <3>2. Become(l, [loop[l] EXCEPT !.pc = "fill", !.size = bucket[loop[l].file].size, !.late = Late(l)])
      BY <1>5, <2>2 DEF DownloadStart
    <3> QED
      BY <1>3, <1>4, <3>1, <3>2, TransferStep
  <2> QED
    BY <2>1, <2>2
<1>6. CASE DownloadDone(l)
  BY <1>1, <1>3, <1>4, <1>6, LeaveStep DEF DownloadDone
<1> QED
  BY <1>5, <1>6

LEMMA PassFailsStep ==
  ASSUME EngineInv, NEW l \in Loops, PassFails(l)
  PROVE  EngineInv'
<1>1. UNCHANGED <<fileVars, confVars, current>>
  BY DEF PassFails
<1>2. CASE EndPass(l)
  BY <1>1, <1>2, EndPassStep
<1>3. CASE ~EndPass(l)
  <2>1. loop[l].pc \in Decided \cup Walking /\ NextFile(l, loop[l].late)
    BY <1>3 DEF PassFails, Decided, Walking
  <2> QED
    BY <1>1, <2>1, QuietFiles, LeaveStep
<1> QED
  BY <1>2, <1>3

---------------------------------------------------------------------------
LEMMA EngineStep ==
  ASSUME EngineInv, [Next]_vars
  PROVE  EngineInv'
<1>1. CASE UNCHANGED vars
  BY <1>1, QuietFiles, Refiling, FilesStep DEF vars
<1>2. ASSUME NEW l \in Loops, LoopSteps(l) \/ Transfers(l) \/ PassFails(l) \/ LoopFails(l) PROVE EngineInv'
  BY <1>2, WakeStep, PassBeginStep, ListStep, ScanStep, WalkStep, UploadStep, DeleteRemoteStep,
     DownloadStep, PassFailsStep DEF LoopSteps, Transfers
<1> QED
  BY <1>1, <1>2, EditsStep, ChangesStep, StartStep, StopStep DEF Next

LEMMA EngineInvHolds == Spec => []EngineInv
<1>1. EngineInv /\ [Next]_vars => EngineInv'
  BY EngineStep
<1> QED
  BY <1>1, InitEngine, PTL DEF Spec

\* Sizes, objects, settings and what loops have to do keep their types, for any
\* files, sizes and loops.
THEOREM EngineTypes == Spec => []TypeOK
<1>1. EngineInv => TypeOK
  BY DEF EngineInv, Types
<1> QED
  BY <1>1, EngineInvHolds, PTL

\* However Start and Stop follow on one another while old loops finish their
\* pass, a loop that nobody has stopped is the one that Stop would stop, and so
\* at most one goes on.
THEOREM OneLoopGoesOn == Spec => [](LoopsOwned /\ \A j, l \in Loops : loop[j].live /\ loop[l].live => j = l)
<1>1. EngineInv => LoopsOwned /\ \A j, l \in Loops : loop[j].live /\ loop[l].live => j = l
  BY DEF EngineInv, LoopsOwned
<1> QED
  BY <1>1, EngineInvHolds, PTL

\* After the settings changed or the engine was stopped, a pass that is under
\* way begins one transfer at most: the generation is read before the settings
\* and compared before each decision.
THEOREM TransfersInTime == Spec => []LateTransfers
<1>1. EngineInv => LateTransfers
  BY DEF EngineInv, Types, Loop, LateTransfers
<1> QED
  BY <1>1, EngineInvHolds, PTL

=============================================================================
