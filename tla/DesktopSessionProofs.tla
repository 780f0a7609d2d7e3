------------------------ MODULE DesktopSessionProofs ------------------------
(***************************************************************************)
(* Proofs about DesktopSession: who rotates the session how often, when a  *)
(* cookie is taken for stolen, and what a login and a refresh leave behind *)
(* in the keyring and in the event client, for any number of callers.      *)
(***************************************************************************)
EXTENDS DesktopSession, TLAPS

---------------------------------------------------------------------------
(* The inductive invariant: types.                                         *)

Sec == [jwt : Nat, cookie : Cookies]

Quiet  == {"idle", "refresh"}        \* steps of a call that hold no refreshMu
Saving == {"save", "wsStop", "wsStart"}
Locked == {"post", "answer", "reject"} \cup Saving
Entering == {"loginSettings", "loginSave", "loginAPI", "loginStop", "loginStart", "loginEngine"}
Leaving  == {"logoutPost", "logoutSettings", "logoutSave", "logoutAPI", "logoutStop"}

SessionRec == [live : BOOLEAN, rotation : Nat, grace : BOOLEAN]
ClientRec  == [token : Nat, cookie : Cookies, lock : Callers \cup {None}]
AppRec     == [api : Clients, engineApi : Clients, running : BOOLEAN, ws : Nat, loops : SUBSET Nat]
CallRec    == [pc : Quiet \cup Locked, on : Clients \cup {None}, got : Sec]
ShellRec   == [pc : {"idle"} \cup Entering \cup Leaving, on : {None}, got : Sec]
PastRec    == [reuse : BOOLEAN, lost : BOOLEAN, overlap : BOOLEAN]

Types ==
  /\ sessions \in [Logins -> SessionRec]
  /\ tokens \in [issued : Nat, expired : Nat] /\ tokens.expired <= tokens.issued
  /\ keyring \in Sec \cup {None} /\ file \in Sec /\ disk \in Sec /\ torn \in BOOLEAN
  /\ client \in [Clients -> ClientRec]
  /\ app \in AppRec /\ app.loops \subseteq 1..tokens.issued
  /\ call \in [Callers -> CallRec]
  /\ \A p \in Callers : ~At(p, "idle") => call[p].on \in Clients
  /\ shell \in ShellRec
  /\ spent \in [logins : Logins, expiries : Nat, faults : Nat]
  /\ past \in PastRec

---------------------------------------------------------------------------
(* Who holds which secrets.                                                *)

\* Secrets that the server has issued.  Where the access token has expired, the
\* cookie with it is old, or its session may be rotated once more.
Rotation(k) == sessions[k.session].rotation
Earned(sec) ==
  /\ sec.cookie.session \in 1..spent.logins
  /\ sec.cookie.rotation <= Rotation(sec.cookie)
  /\ sec.cookie.rotation = Rotation(sec.cookie) =>
       sec.jwt > tokens.expired \/ Rotation(sec.cookie) < spent.expiries
Issued(sec) == sec \in Sec /\ sec.jwt \in 1..tokens.issued /\ Earned(sec)

\* What client c sends, and what the client of the screens does.
Pair(c) == Secrets(client[c].token, client[c].cookie)
Sent == Pair(app.api)

StoresSound ==
  /\ keyring = None \/ Issued(keyring)
  /\ file = Blank \/ (Issued(file) /\ keyring = None)
  /\ disk = Blank \/ Issued(disk)
ClientSound(c) == client[c].cookie = NoCookie \/ Issued(Pair(c))
CallSound(p) ==
  /\ call[p].pc \in Locked => client[call[p].on].lock = p
  /\ call[p].pc \in {"answer"} \cup Saving => Issued(call[p].got)
  /\ At(p, "refresh") => call[p].got.jwt <= tokens.expired
  /\ At(p, "post") => Earned(Secrets(0, call[p].got.cookie))
ShellSound ==
  /\ shell.pc \in Entering => Issued(shell.got)
  /\ ShellAt("logoutPost") => shell.got.cookie = NoCookie \/ shell.got.cookie.session \in Logins

Sound ==
  /\ StoresSound
  /\ \A c \in Clients : ClientSound(c)
  /\ \A p \in Callers : CallSound(p)
  /\ ShellSound

---------------------------------------------------------------------------
(* As long as no refresh overlaps with a login or logout.                  *)

Busy(pcs) == \E p \in Callers : call[p].pc \in pcs

\* Where a login has not stored its secrets yet, and a logout not dropped them:
\* each may still end there and leave the client and the event loop as they were.
Asking  == {"loginSettings", "loginSave"}
Parting == {"logoutPost", "logoutSettings", "logoutSave"}
Early   == {"idle"} \cup Asking \cup Parting

\* All calls are made on the client of the screens, and none while the shell
\* is between two steps.
OneClient ==
  /\ \A p \in Callers : ~At(p, "idle") => ShellAt("idle") /\ call[p].on = app.api
  /\ shell.pc \in Early /\ app.running => app.engineApi = app.api

\* What has been received is in the client, then in the store, and then the
\* event client has it.
CallOrder(p) ==
  /\ At(p, "post") => Sent.cookie = call[p].got.cookie
  /\ call[p].pc \in Saving => Sent = call[p].got
  /\ call[p].pc \in {"wsStop", "wsStart"} => ReadSecrets = call[p].got
  /\ At(p, "wsStart") => app.loops = {}
ShellOrder ==
  /\ shell.pc \in Entering \ Asking => ReadSecrets = shell.got
  /\ shell.pc \in Entering \ (Asking \cup {"loginAPI"}) => Sent = shell.got
  /\ ShellAt("loginStart") => app.loops = {}
  /\ ShellAt("loginEngine") => app.ws = shell.got.jwt
  /\ shell.pc \in Parting => Sent.cookie = NoCookie
  /\ shell.pc \in {"logoutAPI", "logoutStop"} => ReadSecrets = Blank
  /\ ShellAt("logoutStop") => Sent = Blank
RestOrder ==
  shell.pc \in Early =>
    /\ ~torn /\ ~Busy({"save"}) /\ Sent.cookie # NoCookie => ReadSecrets = Sent
    /\ ~Busy(Saving) /\ app.running => app.ws = Sent.jwt

InOrder ==
  ~past.overlap =>
    /\ OneClient /\ ShellOrder /\ RestOrder
    /\ app.loops \subseteq {app.ws}
    /\ \A p \in Callers : CallOrder(p)

\* As long as no answer is lost either, every cookie that may be sent is the one
\* that its session expects, except while its successor is on the way.
Fresh(k) == k = NoCookie \/ ~sessions[k.session].live \/ k.rotation = Rotation(k)

AllFresh ==
  ~past.overlap /\ ~past.lost =>
    /\ ~past.reuse
    /\ \A p \in Callers : call[p].pc \in {"post", "answer", "save"} => Fresh(call[p].got.cookie)
    /\ ~Busy({"answer"}) => Fresh(Sent.cookie)
    /\ ~Busy({"answer", "save"}) => Fresh(ReadSecrets.cookie)
    /\ shell.pc \in Asking => Fresh(shell.got.cookie)

SessionInv == Types /\ RotationsEarned /\ Sound /\ InOrder /\ AllFresh

---------------------------------------------------------------------------
(* What the parts of a step do.                                            *)

LEMMA SecretTypes ==
  /\ NoCookie \in Cookies /\ Blank \in Sec /\ Blank.jwt = 0 /\ Blank.cookie = NoCookie
  /\ \A s \in Logins, n \in Nat :
       /\ Cookie(s, n) \in Cookies /\ Cookie(s, n) # NoCookie
       /\ Cookie(s, n).session = s /\ Cookie(s, n).rotation = n
  /\ \A k \in Cookies : k # NoCookie /\ k.rotation = 0 => k.session \in Logins
  /\ \A jwt \in Nat, k \in Cookies :
       Secrets(jwt, k) \in Sec /\ Secrets(jwt, k).jwt = jwt /\ Secrets(jwt, k).cookie = k
  /\ \A sec \in Sec : sec # None /\ sec = Secrets(sec.jwt, sec.cookie)
  /\ 1 \in Logins /\ Logins \subseteq Nat /\ Clients # {}
BY BoundsAssumption, NoneAssumption DEF NoCookie, Cookies, Blank, Sec, Secrets, Cookie, Logins

\* The bounds: only a login counts as one, and an expiry.
LEMMA SpendTypes ==
  ASSUME spent \in [logins : Logins, expiries : Nat, faults : Nat]
  PROVE  /\ \A fails \in BOOLEAN : MayFail(fails) =>
              /\ spent' \in [logins : Logins, expiries : Nat, faults : Nat]
              /\ spent'.logins = spent.logins /\ spent'.expiries = spent.expiries
         /\ Spend("faults", MaxFaults) =>
              /\ spent' \in [logins : Logins, expiries : Nat, faults : Nat]
              /\ spent'.logins = spent.logins /\ spent'.expiries = spent.expiries
         /\ Spend("expiries", MaxExpiries) =>
              /\ spent' \in [logins : Logins, expiries : Nat, faults : Nat]
              /\ spent'.logins = spent.logins /\ spent'.expiries = spent.expiries + 1
         /\ Spend("logins", MaxLogins) =>
              /\ spent' \in [logins : Logins, expiries : Nat, faults : Nat]
              /\ spent'.logins = spent.logins + 1 /\ spent'.expiries = spent.expiries
<1>1. MaxLogins \in Nat
  BY BoundsAssumption
<1> QED
  BY <1>1 DEF Spend, MayFail, Logins

\* Notes are only added.
LEMMA PastEdits ==
  ASSUME NEW r \in PastRec, NEW a \in BOOLEAN, NEW b \in BOOLEAN
  PROVE  /\ [r EXCEPT !.overlap = @ \/ a] \in PastRec
         /\ [r EXCEPT !.overlap = @ \/ a].overlap <=> r.overlap \/ a
         /\ [r EXCEPT !.overlap = @ \/ a].lost <=> r.lost
         /\ [r EXCEPT !.overlap = @ \/ a].reuse <=> r.reuse
         /\ [r EXCEPT !.lost = @ \/ a] \in PastRec
         /\ [r EXCEPT !.lost = @ \/ a].overlap <=> r.overlap
         /\ [r EXCEPT !.lost = @ \/ a].lost <=> r.lost \/ a
         /\ [r EXCEPT !.lost = @ \/ a].reuse <=> r.reuse
         /\ [r EXCEPT !.lost = @ \/ a, !.reuse = @ \/ b] \in PastRec
         /\ [r EXCEPT !.lost = @ \/ a, !.reuse = @ \/ b].overlap <=> r.overlap
         /\ [r EXCEPT !.lost = @ \/ a, !.reuse = @ \/ b].lost <=> r.lost \/ a
         /\ [r EXCEPT !.lost = @ \/ a, !.reuse = @ \/ b].reuse <=> r.reuse \/ b
<1>1. ASSUME NEW x \in BOOLEAN, NEW y \in BOOLEAN
      PROVE  /\ [r EXCEPT !.overlap = x] \in PastRec
             /\ [r EXCEPT !.overlap = x].overlap = x
             /\ [r EXCEPT !.overlap = x].lost = r.lost
             /\ [r EXCEPT !.overlap = x].reuse = r.reuse
             /\ [r EXCEPT !.lost = x] \in PastRec
             /\ [r EXCEPT !.lost = x].overlap = r.overlap
             /\ [r EXCEPT !.lost = x].lost = x
             /\ [r EXCEPT !.lost = x].reuse = r.reuse
             /\ [r EXCEPT !.lost = x, !.reuse = y] \in PastRec
             /\ [r EXCEPT !.lost = x, !.reuse = y].overlap = r.overlap
             /\ [r EXCEPT !.lost = x, !.reuse = y].lost = x
             /\ [r EXCEPT !.lost = x, !.reuse = y].reuse = y
  BY DEF PastRec
<1>2. (r.overlap \/ a) \in BOOLEAN /\ (r.lost \/ a) \in BOOLEAN /\ (r.reuse \/ b) \in BOOLEAN
  OBVIOUS
<1> QED
  BY <1>1, <1>2, ZenonT(60)

LEMMA Overlaps ==
  ASSUME Types, NEW a \in BOOLEAN, Overlapping(a)
  PROVE  /\ past' \in PastRec /\ (past'.overlap <=> past.overlap \/ a)
         /\ (past'.lost <=> past.lost) /\ (past'.reuse <=> past.reuse)
BY PastEdits, Zenon DEF Types, Overlapping

LEMMA Loses ==
  ASSUME Types, NEW a \in BOOLEAN, past' = [past EXCEPT !.lost = @ \/ a]
  PROVE  /\ past' \in PastRec /\ (past'.overlap <=> past.overlap)
         /\ (past'.lost <=> past.lost \/ a) /\ (past'.reuse <=> past.reuse)
BY PastEdits, Zenon DEF Types

LEMMA LosesOrReuses ==
  ASSUME Types, NEW a \in BOOLEAN, NEW b \in BOOLEAN,
         past' = [past EXCEPT !.lost = @ \/ a, !.reuse = @ \/ b]
  PROVE  /\ past' \in PastRec /\ (past'.overlap <=> past.overlap)
         /\ (past'.lost <=> past.lost \/ a) /\ (past'.reuse <=> past.reuse \/ b)
BY PastEdits, Zenon DEF Types

\* What is saved is what is read from then on, and is in one place; where the
\* flush fails, settings.json is as it was.
Saves(sec) == \E flushed \in BOOLEAN : UpdateSecrets(sec, flushed)

LEMMA StoreWrites ==
  ASSUME Types, NEW sec \in Sec, Saves(sec)
  PROVE  /\ keyring' \in Sec \cup {None} /\ file' \in Sec /\ disk' \in Sec /\ ReadSecrets' = sec
         /\ keyring' = None \/ (keyring' = sec /\ sec # Blank)
         /\ file' = Blank \/ (file' = sec /\ keyring' = None)
         /\ disk' \in {disk, file'}
         /\ spent' \in [logins : Logins, expiries : Nat, faults : Nat]
         /\ spent'.logins = spent.logins /\ spent'.expiries = spent.expiries
<1>1. PICK flushed \in BOOLEAN, fails \in BOOLEAN :
        /\ MayFail(fails \/ ~flushed)
        /\ keyring' = KeyringAfter(sec, fails) /\ file' = FileAfter(sec, fails)
        /\ disk' = IF flushed THEN file' ELSE disk
  BY DEF Saves, UpdateSecrets
<1>2. /\ spent' \in [logins : Logins, expiries : Nat, faults : Nat]
      /\ spent'.logins = spent.logins /\ spent'.expiries = spent.expiries
  <2>1. (fails \/ ~flushed) \in BOOLEAN
    OBVIOUS
  <2> QED
    BY <1>1, <2>1, SpendTypes DEF Types
<1> QED
  BY <1>1, <1>2, SecretTypes DEF Types, KeyringAfter, FileAfter, ReadSecrets

\* A client that nobody uses is made anew from the store.
LEMMA NewClients ==
  ASSUME Types, NewAPI
  PROVE  /\ client' \in [Clients -> ClientRec] /\ app' \in AppRec
         /\ app'.engineApi = app.engineApi /\ app'.running = app.running
         /\ app'.ws = app.ws /\ app'.loops = app.loops
         /\ app'.api \notin InUse
         /\ client'[app'.api].token = ReadSecrets.jwt /\ client'[app'.api].cookie = ReadSecrets.cookie
         /\ \A d \in Clients : d = app'.api \/ client'[d] = client[d]
                                \/ (d \notin InUse /\ client'[d].cookie = NoCookie)
<1> DEFINE free == Clients \ InUse
           c == CHOOSE d \in free : TRUE
<1>1. /\ free # {}
      /\ client' = [d \in Clients |-> IF d = c THEN NewClient(ReadSecrets)
                                     ELSE IF d \in free THEN NewClient(Blank) ELSE client[d]]
      /\ app' = [app EXCEPT !.api = c]
  BY DEF NewAPI
<1>2. c \in free
  BY <1>1
<1> HIDE DEF c
<1>3. ReadSecrets \in Sec
  BY DEF Types, ReadSecrets
<1>4. \A sec \in Sec : /\ NewClient(sec) \in ClientRec
                       /\ NewClient(sec).token = sec.jwt /\ NewClient(sec).cookie = sec.cookie
  BY DEF NewClient, ClientRec, Sec
<1>5. /\ app' \in AppRec /\ app'.api = c /\ app'.engineApi = app.engineApi /\ app'.running = app.running
      /\ app'.ws = app.ws /\ app'.loops = app.loops
  BY <1>1, <1>2 DEF Types, AppRec
<1>6. client' \in [Clients -> ClientRec]
  BY <1>1, <1>3, <1>4, SecretTypes DEF Types
<1>7. client'[c] = NewClient(ReadSecrets)
  BY <1>1, <1>2
<1>8. ASSUME NEW d \in Clients
      PROVE  d = c \/ client'[d] = client[d] \/ (d \notin InUse /\ client'[d].cookie = NoCookie)
  BY <1>1, <1>4, SecretTypes
<1> QED
  BY <1>2, <1>3, <1>4, <1>5, <1>6, <1>7, <1>8

\* The next start takes over what is stored, or what was being stored, or what
\* settings.json still holds: where it holds anything, that.
LEMMA Restarting ==
  ASSUME Types, StoresSound, Restart
  PROVE  /\ \E sec \in Sec :
              /\ sec \in {ReadSecrets, Blank, disk} \cup Pending
              /\ disk = file => sec \in {ReadSecrets, Blank} \cup Pending
              /\ ReadSecrets' = sec /\ Started(sec)
              /\ keyring' \in {keyring, None} \/ (keyring' = sec /\ sec # Blank)
              /\ file' = Blank \/ (file' = sec /\ keyring' = None)
              /\ disk' \in {Blank, sec}
         /\ keyring' \in Sec \cup {None} /\ file' \in Sec /\ disk' \in Sec /\ torn' = FALSE
         /\ past' \in PastRec /\ (past'.overlap <=> past.overlap) /\ (past'.reuse <=> past.reuse)
         /\ (past'.lost <=> past.lost \/ CutShort \/ disk # file)
         /\ UNCHANGED serverVars
         /\ spent' \in [logins : Logins, expiries : Nat, faults : Nat]
         /\ spent'.logins = spent.logins /\ spent'.expiries = spent.expiries
<1>1. PICK k \in {keyring} \cup {KeyringAfter(sec, fails) : sec \in Pending, fails \in BOOLEAN} :
        LET sec == Migrated(k, disk) IN
          /\ IF disk = Blank THEN keyring' = k /\ file' = Blank /\ UNCHANGED disk
             ELSE \E fails \in BOOLEAN :
                    /\ keyring' = KeyringAfter(sec, fails) /\ file' = FileAfter(sec, fails)
                    /\ disk' = file'
          /\ Started(sec)
  BY DEF Restart
<1> DEFINE sec == Migrated(k, disk)
<1>2. Pending \subseteq Sec
  BY SecretTypes DEF Pending, Types, CallRec, ShellRec
<1>3. /\ k \in Sec \cup {None}
      /\ k = keyring \/ k = None \/ (k \in Pending /\ k # Blank)
  BY <1>1, <1>2, SecretTypes DEF Types, KeyringAfter
<1>4. /\ disk # Blank => disk \in Sec /\ disk.jwt # 0 /\ disk.cookie # NoCookie
      /\ file # Blank => keyring = None
  BY SecretTypes DEF StoresSound, Issued, Earned, Types, NoCookie
<1>5. /\ sec \in Sec /\ sec \in {ReadSecrets, Blank, disk} \cup Pending
      /\ disk = file => sec \in {ReadSecrets, Blank} \cup Pending
  <2>1. CASE disk = Blank
    <3>1. sec = IF k = None THEN Blank ELSE k
      BY <2>1 DEF Migrated
    <3>2. k = keyring /\ k # None => k = ReadSecrets
      BY DEF ReadSecrets
    <3> HIDE DEF sec
    <3> QED
      BY <1>2, <1>3, <3>1, <3>2, SecretTypes
  <2>2. CASE disk # Blank
    <3>1. sec = disk
      BY <1>4, <2>2, SecretTypes DEF Migrated
    <3>2. disk = file => disk = ReadSecrets
      BY <1>4, <2>2 DEF ReadSecrets
    <3> QED
      BY <1>4, <2>2, <3>1, <3>2
  <2> QED
    BY <2>1, <2>2
<1>6. /\ keyring' \in Sec \cup {None} /\ file' \in Sec /\ ReadSecrets' = sec
      /\ keyring' \in {keyring, None} \/ (keyring' = sec /\ sec # Blank)
      /\ file' = Blank \/ (file' = sec /\ keyring' = None)
      /\ disk' \in {Blank, sec} /\ disk' \in Sec
  <2>1. CASE disk = Blank
    <3>1. sec = IF k = None THEN Blank ELSE k
      BY <2>1 DEF Migrated
    <3>2. keyring' = k /\ file' = Blank /\ disk' = Blank
      BY <1>1, <2>1
    <3> HIDE DEF sec
    <3> QED
      BY <1>3, <3>1, <3>2, SecretTypes DEF ReadSecrets
  <2>2. CASE disk # Blank
    <3>1. PICK fails \in BOOLEAN :
            /\ keyring' = KeyringAfter(sec, fails) /\ file' = FileAfter(sec, fails)
            /\ disk' = file'
      BY <1>1, <2>2
    <3> HIDE DEF sec
    <3> QED
      BY <1>5, <3>1, SecretTypes DEF KeyringAfter, FileAfter, ReadSecrets
  <2> QED
    BY <2>1, <2>2
<1>7. /\ spent' \in [logins : Logins, expiries : Nat, faults : Nat]
      /\ spent'.logins = spent.logins /\ spent'.expiries = spent.expiries
      /\ UNCHANGED serverVars /\ torn' = FALSE
  BY SpendTypes DEF Restart, Types
<1>8. /\ past' \in PastRec /\ (past'.overlap <=> past.overlap) /\ (past'.reuse <=> past.reuse)
      /\ (past'.lost <=> past.lost \/ CutShort \/ disk # file)
  <2> DEFINE a == CutShort \/ disk # file
  <2>1. a \in BOOLEAN
    OBVIOUS
  <2>2. past' = [past EXCEPT !.lost = @ \/ a]
    BY DEF Restart
  <2> HIDE DEF a
  <2>3. /\ past' \in PastRec /\ (past'.overlap <=> past.overlap) /\ (past'.reuse <=> past.reuse)
        /\ (past'.lost <=> past.lost \/ a)
    BY <2>1, <2>2, Loses
  <2>4. (past'.lost <=> past.lost \/ a) => (past'.lost <=> past.lost \/ CutShort \/ disk # file)
    BY DEF a
  <2> QED
    BY <2>3, <2>4
<1>9. Started(sec)
  BY <1>1
<1> HIDE DEF sec
<1> QED
  BY <1>5, <1>6, <1>7, <1>8, <1>9

---------------------------------------------------------------------------
(* Edits of the records.                                                   *)

\* How a step leaves the call of p and client c.
Called(p, pc, on, got) ==
  /\ call' \in [Callers -> CallRec]
  /\ call'[p].pc = pc /\ call'[p].on = on /\ call'[p].got = got
  /\ \A q \in Callers \ {p} : call'[q] = call[q]
Changed(c, token, cookie, lock) ==
  /\ client' \in [Clients -> ClientRec]
  /\ client'[c].token = token /\ client'[c].cookie = cookie /\ client'[c].lock = lock
  /\ \A d \in Clients \ {c} : client'[d] = client[d]

LEMMA CallEdits ==
  ASSUME Types, NEW p \in Callers
  PROVE  /\ \A pc \in Quiet \cup Locked : Go(p, pc) => Called(p, pc, call[p].on, call[p].got)
         /\ call' = [call EXCEPT ![p] = Idle] => Called(p, "idle", None, Blank)
         /\ \A pc \in Quiet \cup Locked, sec \in Sec :
              call' = [call EXCEPT ![p] = [@ EXCEPT !.pc = pc, !.got = sec]]
                => Called(p, pc, call[p].on, sec)
         /\ \A pc \in Quiet \cup Locked, k \in Cookies :
              call' = [call EXCEPT ![p].pc = pc, ![p].got.cookie = k]
                => Called(p, pc, call[p].on, Secrets(call[p].got.jwt, k))
         /\ \A pc \in Quiet \cup Locked, c \in Clients, sec \in Sec :
              call' = [call EXCEPT ![p] = [pc |-> pc, on |-> c, got |-> sec]] => Called(p, pc, c, sec)
<1>1. call \in [Callers -> CallRec] /\ call[p] \in CallRec
  BY DEF Types
<1>2. ASSUME NEW new \in CallRec, call' = [call EXCEPT ![p] = new]
      PROVE  Called(p, new.pc, new.on, new.got)
  BY <1>1, <1>2 DEF Called
<1>3. ASSUME NEW pc \in Quiet \cup Locked, NEW sec \in Sec
      PROVE  /\ [call[p] EXCEPT !.pc = pc] \in CallRec
             /\ [call[p] EXCEPT !.pc = pc, !.got = sec] \in CallRec
             /\ \A c \in Clients : [pc |-> pc, on |-> c, got |-> sec] \in CallRec
  BY <1>1 DEF CallRec, Sec, Secrets
<1>4. Idle \in CallRec /\ Idle.pc = "idle" /\ Idle.on = None /\ Idle.got = Blank
  BY SecretTypes DEF Idle, CallRec, Quiet
<1>5. call' = [call EXCEPT ![p] = Idle] => Called(p, "idle", None, Blank)
  BY <1>2, <1>4
<1>6. ASSUME NEW pc \in Quiet \cup Locked, Go(p, pc) PROVE Called(p, pc, call[p].on, call[p].got)
  <2> DEFINE new == [call[p] EXCEPT !.pc = pc]
  <2>1. new \in CallRec /\ new.pc = pc /\ new.on = call[p].on /\ new.got = call[p].got
    BY <1>1, <1>3, SecretTypes DEF CallRec
  <2>2. call' = [call EXCEPT ![p] = new]
    BY <1>6 DEF Go
  <2> HIDE DEF new
  <2> QED
    BY <1>2, <2>1, <2>2
<1>7. ASSUME NEW pc \in Quiet \cup Locked, NEW sec \in Sec,
             call' = [call EXCEPT ![p] = [@ EXCEPT !.pc = pc, !.got = sec]]
      PROVE  Called(p, pc, call[p].on, sec)
  <2> DEFINE new == [call[p] EXCEPT !.pc = pc, !.got = sec]
  <2>1. new \in CallRec /\ new.pc = pc /\ new.on = call[p].on /\ new.got = sec
    BY <1>1, <1>3, SecretTypes DEF CallRec
  <2>2. call' = [call EXCEPT ![p] = new]
    BY <1>7
  <2> HIDE DEF new
  <2> QED
    BY <1>2, <2>1, <2>2
<1>8. ASSUME NEW pc \in Quiet \cup Locked, NEW k \in Cookies,
             call' = [call EXCEPT ![p].pc = pc, ![p].got.cookie = k]
      PROVE  Called(p, pc, call[p].on, Secrets(call[p].got.jwt, k))
  <2> DEFINE new == [call[p] EXCEPT !.pc = pc, !.got.cookie = k]
  <2>1. call' = [call EXCEPT ![p] = new]
    BY <1>1, <1>8
  <2>2. /\ new \in CallRec /\ new.pc = pc /\ new.on = call[p].on
        /\ new.got = Secrets(call[p].got.jwt, k)
    BY <1>1, <1>8 DEF CallRec, Sec, Secrets
  <2> HIDE DEF new
  <2> QED
    BY <1>2, <2>1, <2>2
<1>9. ASSUME NEW pc \in Quiet \cup Locked, NEW c \in Clients, NEW sec \in Sec,
             call' = [call EXCEPT ![p] = [pc |-> pc, on |-> c, got |-> sec]]
      PROVE  Called(p, pc, c, sec)
  <2> DEFINE new == [pc |-> pc, on |-> c, got |-> sec]
  <2>1. new \in CallRec /\ new.pc = pc /\ new.on = c /\ new.got = sec
    BY <1>3, SecretTypes
  <2> HIDE DEF new
  <2> QED
    BY <1>2, <1>9, <2>1 DEF new
<1> QED
  BY <1>5, <1>6, <1>7, <1>8, <1>9, Zenon

LEMMA ClientEdits ==
  ASSUME Types, NEW c \in Clients, NEW lock \in Callers \cup {None}, NEW token \in Nat,
         NEW cookie \in Cookies
  PROVE  /\ client' = [client EXCEPT ![c].lock = lock]
              => Changed(c, client[c].token, client[c].cookie, lock)
         /\ client' = [client EXCEPT ![c].token = token, ![c].cookie = cookie]
              => Changed(c, token, cookie, client[c].lock)
         /\ client' = [client EXCEPT ![c].cookie = cookie]
              => Changed(c, client[c].token, cookie, client[c].lock)
         /\ client' = [client EXCEPT ![c].cookie = cookie, ![c].lock = lock]
              => Changed(c, client[c].token, cookie, lock)
<1>1. client \in [Clients -> ClientRec] /\ client[c] \in ClientRec
  BY DEF Types
<1>2. ASSUME NEW new \in ClientRec, client' = [client EXCEPT ![c] = new]
      PROVE  Changed(c, new.token, new.cookie, new.lock)
  BY <1>1, <1>2 DEF Changed
<1>3. ASSUME client' = [client EXCEPT ![c].lock = lock]
      PROVE  Changed(c, client[c].token, client[c].cookie, lock)
  <2> DEFINE new == [client[c] EXCEPT !.lock = lock]
  <2>1. /\ new \in ClientRec /\ client' = [client EXCEPT ![c] = new]
        /\ new.token = client[c].token /\ new.cookie = client[c].cookie /\ new.lock = lock
    BY <1>1, <1>3 DEF ClientRec
  <2> HIDE DEF new
  <2> QED
    BY <1>2, <2>1
<1>4. ASSUME client' = [client EXCEPT ![c].token = token, ![c].cookie = cookie]
      PROVE  Changed(c, token, cookie, client[c].lock)
  <2> DEFINE new == [client[c] EXCEPT !.token = token, !.cookie = cookie]
  <2>1. /\ new \in ClientRec /\ client' = [client EXCEPT ![c] = new]
        /\ new.token = token /\ new.cookie = cookie /\ new.lock = client[c].lock
    BY <1>1, <1>4 DEF ClientRec
  <2> HIDE DEF new
  <2> QED
    BY <1>2, <2>1
<1>5. ASSUME client' = [client EXCEPT ![c].cookie = cookie]
      PROVE  Changed(c, client[c].token, cookie, client[c].lock)
  <2> DEFINE new == [client[c] EXCEPT !.cookie = cookie]
  <2>1. /\ new \in ClientRec /\ client' = [client EXCEPT ![c] = new]
        /\ new.token = client[c].token /\ new.cookie = cookie /\ new.lock = client[c].lock
    BY <1>1, <1>5 DEF ClientRec
  <2> HIDE DEF new
  <2> QED
    BY <1>2, <2>1
<1>6. ASSUME client' = [client EXCEPT ![c].cookie = cookie, ![c].lock = lock]
      PROVE  Changed(c, client[c].token, cookie, lock)
  <2> DEFINE new == [client[c] EXCEPT !.cookie = cookie, !.lock = lock]
  <2>1. /\ new \in ClientRec /\ client' = [client EXCEPT ![c] = new]
        /\ new.token = client[c].token /\ new.cookie = cookie /\ new.lock = lock
    BY <1>1, <1>6 DEF ClientRec
  <2> HIDE DEF new
  <2> QED
    BY <1>2, <2>1
<1> QED
  BY <1>3, <1>4, <1>5, <1>6

\* What remains of the shell's fields when the event client stops or starts.
AppSet(ws, loops) ==
  /\ app' \in AppRec /\ app'.ws = ws /\ app'.loops = loops
  /\ app'.api = app.api /\ app'.engineApi = app.engineApi /\ app'.running = app.running
ShellSet(pc, got) ==
  shell' \in ShellRec /\ shell'.pc = pc /\ shell'.got = got

LEMMA WsEdits ==
  ASSUME Types
  PROVE  /\ app' = WsStopped => AppSet(0, app.loops \ {app.ws})
         /\ \A jwt \in Nat : jwt # 0 /\ app' = WsStarted(jwt) => AppSet(jwt, app.loops \cup {jwt})
<1>1. app \in AppRec
  BY DEF Types
<1>2. ASSUME NEW ws \in Nat, NEW loops \in SUBSET Nat, app' = [app EXCEPT !.ws = ws, !.loops = loops]
      PROVE  AppSet(ws, loops)
  BY <1>1, <1>2 DEF AppSet, AppRec
<1>3. ASSUME app' = WsStopped PROVE AppSet(0, app.loops \ {app.ws})
  <2>1. 0 \in Nat /\ app.loops \ {app.ws} \in SUBSET Nat
    BY <1>1 DEF AppRec
  <2> QED
    BY <1>2, <1>3, <2>1 DEF WsStopped
<1>4. ASSUME NEW jwt \in Nat, jwt # 0, app' = WsStarted(jwt) PROVE AppSet(jwt, app.loops \cup {jwt})
  <2>1. app.loops \cup {jwt} \in SUBSET Nat
    BY <1>1 DEF AppRec
  <2> QED
    BY <1>2, <1>4, <2>1 DEF WsStarted
<1> QED
  BY <1>3, <1>4

LEMMA ShellEdits ==
  ASSUME Types
  PROVE  /\ \A pc \in {"idle"} \cup Entering \cup Leaving : ShellGo(pc) => ShellSet(pc, shell.got)
         /\ shell' = Idle => ShellSet("idle", Blank)
         /\ \A pc \in {"idle"} \cup Entering \cup Leaving, sec \in Sec :
              shell' = [pc |-> pc, on |-> None, got |-> sec] => ShellSet(pc, sec)
<1>1. shell \in ShellRec
  BY DEF Types
<1>2. ASSUME NEW pc \in {"idle"} \cup Entering \cup Leaving, ShellGo(pc) PROVE ShellSet(pc, shell.got)
  BY <1>1, <1>2 DEF ShellGo, ShellSet, ShellRec
<1>3. ASSUME shell' = Idle PROVE ShellSet("idle", Blank)
  BY <1>3, SecretTypes DEF Idle, ShellSet, ShellRec
<1>4. ASSUME NEW pc \in {"idle"} \cup Entering \cup Leaving, NEW sec \in Sec,
             shell' = [pc |-> pc, on |-> None, got |-> sec]
      PROVE  ShellSet(pc, sec)
  BY <1>4 DEF ShellSet, ShellRec
<1> QED
  BY <1>2, <1>3, <1>4

---------------------------------------------------------------------------
(* What each step of a call changes.                                       *)

LEMMA CallEffect ==
  ASSUME Types, NEW p \in Callers, Call(p)
  PROVE  /\ At(p, "idle") /\ UNCHANGED <<serverVars, storeVars, client, app, shell, spent>>
         /\ \E c \in Clients :
              /\ c = app.api \/ (c = app.engineApi /\ app.running)
              /\ client[c].token <= tokens.expired
              /\ Called(p, "refresh", c, Secrets(client[c].token, NoCookie))
         /\ past' \in PastRec /\ (past'.overlap <=> past.overlap \/ shell.pc # "idle")
         /\ (past'.lost <=> past.lost) /\ (past'.reuse <=> past.reuse)
<1> DEFINE c == IF p = Engine THEN app.engineApi ELSE app.api
<1>1. c \in Clients /\ client[c].token \in Nat /\ "refresh" \in Quiet \cup Locked
  BY DEF Types, AppRec, ClientRec, Quiet
<1>2. Secrets(client[c].token, NoCookie) \in Sec
  BY <1>1, SecretTypes
<1>3. call' = [call EXCEPT ![p] = [pc |-> "refresh", on |-> c, got |-> Secrets(client[c].token, NoCookie)]]
  BY DEF Call
<1>4. c = app.api \/ (c = app.engineApi /\ app.running)
  BY DEF Call
<1>5. /\ At(p, "idle") /\ UNCHANGED <<serverVars, storeVars, client, app, shell, spent>>
      /\ client[c].token <= tokens.expired /\ Overlapping(shell.pc # "idle")
  BY DEF Call
<1> HIDE DEF c
<1>6. Called(p, "refresh", c, Secrets(client[c].token, NoCookie))
  BY <1>1, <1>2, <1>3, CallEdits
<1>7. (shell.pc # "idle") \in BOOLEAN
  OBVIOUS
<1>8. /\ past' \in PastRec /\ (past'.overlap <=> past.overlap \/ shell.pc # "idle")
      /\ (past'.lost <=> past.lost) /\ (past'.reuse <=> past.reuse)
  BY <1>5, <1>7, Overlaps
<1> QED
  BY <1>1, <1>4, <1>5, <1>6, <1>8

LEMMA RefreshEffect ==
  ASSUME Types, NEW p \in Callers, Refresh(p)
  PROVE  LET c == call[p].on IN
         /\ At(p, "refresh") /\ c \in Clients /\ client[c].lock = None
         /\ UNCHANGED <<serverVars, storeVars, app, shell, spent, past>>
         /\ \/ /\ client[c].token = call[p].got.jwt /\ client[c].cookie # NoCookie
               /\ Changed(c, client[c].token, client[c].cookie, p)
               /\ Called(p, "post", c, Secrets(call[p].got.jwt, client[c].cookie))
            \/ Called(p, "idle", None, Blank) /\ UNCHANGED client
<1> DEFINE c == call[p].on
<1>1. At(p, "refresh") /\ UNCHANGED <<serverVars, storeVars, app, shell, spent, past>> /\ client[c].lock = None
  BY DEF Refresh
<1>2. c \in Clients /\ client[c] \in ClientRec
  BY <1>1 DEF Types, At
<1>3. client[c].token \in Nat /\ client[c].cookie \in Cookies /\ "post" \in Quiet \cup Locked
  BY <1>2 DEF ClientRec, Locked
<1>4. CASE Stale(p) /\ client[c].cookie # NoCookie
  <2>1. /\ client' = [client EXCEPT ![c].lock = p]
        /\ call' = [call EXCEPT ![p].pc = "post", ![p].got.cookie = client[c].cookie]
    BY <1>4 DEF Refresh
  <2>2. client[c].token = call[p].got.jwt
    BY <1>4 DEF Stale
  <2>3. Changed(c, client[c].token, client[c].cookie, p)
    BY <1>2, <1>3, <2>1, ClientEdits
  <2>4. Called(p, "post", c, Secrets(call[p].got.jwt, client[c].cookie))
    BY <1>3, <2>1, CallEdits
  <2> QED
    BY <1>1, <1>2, <1>4, <2>2, <2>3, <2>4
<1>5. CASE ~(Stale(p) /\ client[c].cookie # NoCookie)
  <2>1. call' = [call EXCEPT ![p] = Idle] /\ UNCHANGED client
    BY <1>5 DEF Refresh
  <2>2. Called(p, "idle", None, Blank)
    BY <2>1, CallEdits
  <2> QED
    BY <1>1, <1>2, <2>1, <2>2
<1> QED
  BY <1>4, <1>5

\* refreshMu is let go.
LEMMA Unlocks ==
  ASSUME Types, NEW p \in Callers, call[p].on \in Clients, client' = Unlocked(p)
  PROVE  Changed(call[p].on, client[call[p].on].token, client[call[p].on].cookie, None)
<1> DEFINE c == call[p].on
<1>1. client[c].token \in Nat /\ client[c].cookie \in Cookies
  BY DEF Types, ClientRec
<1> QED
  BY <1>1, ClientEdits DEF Unlocked

LEMMA UnreachableEffect ==
  ASSUME Types, NEW p \in Callers, Unreachable(p)
  PROVE  LET c == call[p].on IN
         /\ At(p, "post") /\ c \in Clients
         /\ UNCHANGED <<serverVars, storeVars, app, shell, past>>
         /\ Called(p, "idle", None, Blank)
         /\ Changed(c, client[c].token, client[c].cookie, None)
         /\ spent' \in [logins : Logins, expiries : Nat, faults : Nat]
         /\ spent'.logins = spent.logins /\ spent'.expiries = spent.expiries
<1>1. call[p].on \in Clients
  BY DEF Types, Unreachable, At
<1>2. client' = Unlocked(p) /\ call' = [call EXCEPT ![p] = Idle]
  BY DEF Unreachable
<1>3. Called(p, "idle", None, Blank)
  BY <1>2, CallEdits
<1>4. /\ spent' \in [logins : Logins, expiries : Nat, faults : Nat]
      /\ spent'.logins = spent.logins /\ spent'.expiries = spent.expiries
  BY SpendTypes DEF Types, Unreachable
<1>5. At(p, "post") /\ UNCHANGED <<serverVars, storeVars, app, shell, past>>
  BY DEF Unreachable
<1>6. Changed(call[p].on, client[call[p].on].token, client[call[p].on].cookie, None)
  BY <1>1, <1>2, Unlocks
<1> QED
  BY <1>1, <1>3, <1>4, <1>5, <1>6

LEMMA AnsweredEffect ==
  ASSUME Types, NEW p \in Callers, Answered(p)
  PROVE  LET c == call[p].on
             got == call[p].got IN
         /\ c \in Clients /\ UNCHANGED <<serverVars, storeVars, app, shell, spent, past>>
         /\ \/ /\ At(p, "answer") /\ Called(p, "save", c, got)
               /\ Changed(c, got.jwt, got.cookie, client[c].lock)
            \/ /\ At(p, "reject") /\ Called(p, "idle", None, Blank)
               /\ Changed(c, client[c].token, NoCookie, None)
<1> DEFINE c == call[p].on
           got == call[p].got
<1>1. c \in Clients /\ got \in Sec /\ client[c] \in ClientRec /\ "save" \in Quiet \cup Locked
  BY DEF Types, Answered, At, CallRec, Locked, Saving
<1>2. UNCHANGED <<serverVars, storeVars, app, shell, spent, past>>
  BY DEF Answered
<1>3. /\ got.jwt \in Nat /\ got.cookie \in Cookies /\ client[c].token \in Nat
      /\ client[c].lock \in Callers \cup {None} /\ NoCookie \in Cookies
  BY <1>1, SecretTypes DEF Sec, ClientRec
<1>4. CASE At(p, "answer")
  <2>1. Go(p, "save") /\ client' = [client EXCEPT ![c].token = got.jwt, ![c].cookie = got.cookie]
    BY <1>4 DEF Answered, At
  <2>2. Called(p, "save", c, got)
    BY <1>1, <2>1, CallEdits
  <2>3. Changed(c, got.jwt, got.cookie, client[c].lock)
    BY <1>1, <1>3, <2>1, ClientEdits
  <2> QED
    BY <1>1, <1>2, <1>4, <2>2, <2>3
<1>5. CASE At(p, "reject")
  <2>1. call' = [call EXCEPT ![p] = Idle] /\ client' = [client EXCEPT ![c].cookie = NoCookie, ![c].lock = None]
    BY <1>5 DEF Answered, At
  <2>2. Called(p, "idle", None, Blank)
    BY <2>1, CallEdits
  <2>3. Changed(c, client[c].token, NoCookie, None)
    BY <1>1, <1>3, <2>1, ClientEdits
  <2> QED
    BY <1>1, <1>2, <1>5, <2>2, <2>3
<1> QED
  BY <1>4, <1>5 DEF Answered

LEMMA CallbackEffect ==
  ASSUME Types, NEW p \in Callers, CallbackWs(p), call[p].got.jwt # 0
  PROVE  LET c == call[p].on
             got == call[p].got IN
         /\ c \in Clients /\ UNCHANGED <<serverVars, storeVars, shell, spent, past>>
         /\ \/ /\ At(p, "wsStop") /\ Called(p, "wsStart", c, got) /\ UNCHANGED client
               /\ AppSet(0, app.loops \ {app.ws})
            \/ /\ At(p, "wsStart") /\ Called(p, "idle", None, Blank)
               /\ Changed(c, client[c].token, client[c].cookie, None)
               /\ AppSet(got.jwt, app.loops \cup {got.jwt})
<1> DEFINE c == call[p].on
           got == call[p].got
<1>1. c \in Clients /\ got.jwt \in Nat /\ "wsStart" \in Quiet \cup Locked
  BY DEF Types, CallbackWs, At, CallRec, Locked, Saving, Sec
<1>2. UNCHANGED <<serverVars, storeVars, shell, spent, past>>
  BY DEF CallbackWs
<1>3. CASE At(p, "wsStop")
  <2>1. app' = WsStopped /\ Go(p, "wsStart") /\ UNCHANGED client
    BY <1>3 DEF CallbackWs, At
  <2>2. Called(p, "wsStart", c, got) /\ AppSet(0, app.loops \ {app.ws})
    BY <1>1, <2>1, CallEdits, WsEdits
  <2> QED
    BY <1>1, <1>2, <1>3, <2>1, <2>2
<1>4. CASE At(p, "wsStart")
  <2>1. app' = WsStarted(got.jwt) /\ client' = Unlocked(p) /\ call' = [call EXCEPT ![p] = Idle]
    BY <1>4 DEF CallbackWs, At
  <2>2. Called(p, "idle", None, Blank) /\ AppSet(got.jwt, app.loops \cup {got.jwt})
    BY <1>1, <2>1, CallEdits, WsEdits
  <2>3. Changed(c, client[c].token, client[c].cookie, None)
    BY <1>1, <2>1, Unlocks
  <2> QED
    BY <1>1, <1>2, <1>4, <2>2, <2>3
<1> QED
  BY <1>3, <1>4 DEF CallbackWs

\* Either p has the answer, or it is lost and p has let go.
LEMMA AnswerEffect ==
  ASSUME Types, NEW p \in Callers, At(p, "post"), NEW pc \in {"answer", "reject"}, NEW sec \in Sec,
         Answer(p, pc, sec)
  PROVE  LET c == call[p].on
             k == call[p].got.cookie IN
         /\ spent' \in [logins : Logins, expiries : Nat, faults : Nat]
         /\ spent'.logins = spent.logins /\ spent'.expiries = spent.expiries
         /\ past' \in PastRec /\ (past'.overlap <=> past.overlap)
         /\ (past'.reuse <=> past.reuse \/ (pc = "reject" /\ sessions[k.session].live))
         /\ c \in Clients /\ (past.lost => past'.lost)
         /\ \/ Called(p, pc, c, sec) /\ UNCHANGED client
            \/ /\ Called(p, "idle", None, Blank) /\ Changed(c, client[c].token, client[c].cookie, None)
               /\ (Current(k) => past'.lost)
<1> DEFINE c == call[p].on
           k == call[p].got.cookie
<1>1. c \in Clients /\ pc \in Quiet \cup Locked /\ k \in Cookies
  BY DEF Types, At, Locked, CallRec, Sec
<1>2. PICK fails \in BOOLEAN :
        /\ MayFail(fails)
        /\ IF fails THEN call' = [call EXCEPT ![p] = Idle] /\ client' = Unlocked(p)
           ELSE call' = [call EXCEPT ![p] = [@ EXCEPT !.pc = pc, !.got = sec]] /\ UNCHANGED client
        /\ past' = [past EXCEPT !.lost = @ \/ (fails /\ Current(k)),
                                !.reuse = @ \/ (pc = "reject" /\ sessions[k.session].live)]
  BY Zenon DEF Answer
<1>3. /\ spent' \in [logins : Logins, expiries : Nat, faults : Nat]
      /\ spent'.logins = spent.logins /\ spent'.expiries = spent.expiries
  BY <1>2, SpendTypes DEF Types
<1>4. /\ past' \in PastRec /\ (past'.overlap <=> past.overlap)
      /\ (past'.lost <=> past.lost \/ (fails /\ Current(k)))
      /\ (past'.reuse <=> past.reuse \/ (pc = "reject" /\ sessions[k.session].live))
  <2> DEFINE a == fails /\ Current(k)
             b == pc = "reject" /\ sessions[k.session].live
  <2>1. a \in BOOLEAN /\ b \in BOOLEAN
    OBVIOUS
  <2>2. past' = [past EXCEPT !.lost = @ \/ a, !.reuse = @ \/ b]
    BY <1>2
  <2> HIDE DEF a, b
  <2>3. /\ past' \in PastRec /\ (past'.overlap <=> past.overlap)
        /\ (past'.lost <=> past.lost \/ a) /\ (past'.reuse <=> past.reuse \/ b)
    BY <2>1, <2>2, LosesOrReuses
  <2> QED
    BY <2>3, Zenon DEF a, b
<1>5. CASE fails
  <2>1. call' = [call EXCEPT ![p] = Idle] /\ client' = Unlocked(p)
    BY <1>2, <1>5
  <2>2. Called(p, "idle", None, Blank) /\ Changed(c, client[c].token, client[c].cookie, None)
    BY <1>1, <2>1, CallEdits, Unlocks
  <2>3. (Current(k) => past'.lost) /\ (past.lost => past'.lost)
    BY <1>4, <1>5, Zenon
  <2> QED
    BY <1>1, <1>3, <1>4, <2>2, <2>3, Zenon
<1>6. CASE ~fails
  <2>1. call' = [call EXCEPT ![p] = [@ EXCEPT !.pc = pc, !.got = sec]] /\ UNCHANGED client
    BY <1>2, <1>6
  <2>2. Called(p, pc, c, sec)
    BY <1>1, <2>1, CallEdits
  <2>3. past.lost => past'.lost
    BY <1>4, Zenon
  <2> QED
    BY <1>1, <1>3, <1>4, <2>1, <2>2, <2>3, Zenon
<1> QED
  BY <1>5, <1>6

LEMMA PostEffect ==
  ASSUME Types, NEW p \in Callers, Post(p), call[p].got.cookie.session \in Logins
  PROVE  LET k == call[p].got.cookie
             s == k.session IN
         /\ At(p, "post") /\ UNCHANGED <<storeVars, app, shell>> /\ k \in Cookies /\ k # NoCookie
         /\ sessions' \in [Logins -> SessionRec]
         /\ \A n \in Logins \ {s} : sessions'[n] = sessions[n]
         /\ \/ /\ Current(k) /\ tokens' = [tokens EXCEPT !.issued = @ + 1]
               /\ sessions'[s].rotation = sessions[s].rotation + 1
               /\ Answer(p, "answer", Secrets(tokens.issued + 1, Cookie(s, k.rotation + 1)))
            \/ /\ InGrace(k) /\ ~Current(k) /\ tokens' = [tokens EXCEPT !.issued = @ + 1]
               /\ sessions' = sessions
               /\ Answer(p, "answer", Secrets(tokens.issued + 1, k))
            \/ /\ ~Current(k) /\ UNCHANGED tokens
               /\ sessions'[s].rotation = sessions[s].rotation /\ ~sessions'[s].live
               /\ Answer(p, "reject", Secrets(0, k))
<1> DEFINE k == call[p].got.cookie
           s == k.session
<1>1. /\ At(p, "post") /\ UNCHANGED <<storeVars, app, shell>>
      /\ k \in Cookies /\ k # NoCookie
  <2>1. At(p, "post") /\ UNCHANGED <<storeVars, app, shell>>
    BY DEF Post
  <2>2. k \in Cookies
    BY DEF Types, CallRec, Sec
  <2>3. k # NoCookie
    BY DEF NoCookie, Logins
  <2> QED
    BY <2>1, <2>2, <2>3
<1>2. sessions \in [Logins -> SessionRec] /\ sessions[s] \in SessionRec
  BY DEF Types
<1>3. CASE Current(k)
  <2>1. /\ sessions' = [sessions EXCEPT ![s].rotation = @ + 1, ![s].grace = TRUE]
        /\ tokens' = [tokens EXCEPT !.issued = @ + 1]
        /\ Answer(p, "answer", Secrets(tokens.issued + 1, Cookie(s, k.rotation + 1)))
    BY <1>3 DEF Post, Issue
  <2> DEFINE row == [sessions[s] EXCEPT !.rotation = @ + 1, !.grace = TRUE]
  <2>2. row \in SessionRec /\ row.rotation = sessions[s].rotation + 1
    <3>1. ASSUME NEW old \in SessionRec, NEW n \in Nat, NEW on \in BOOLEAN
          PROVE  /\ [old EXCEPT !.rotation = n, !.grace = on] \in SessionRec
                 /\ [old EXCEPT !.rotation = n, !.grace = on].rotation = n
      BY DEF SessionRec
    <3>2. sessions[s].rotation + 1 \in Nat
      BY <1>2 DEF SessionRec
    <3> QED
      BY <1>2, <3>1, <3>2, Zenon
  <2>3. sessions' = [sessions EXCEPT ![s] = row]
    BY <1>2, <2>1
  <2> HIDE DEF row
  <2>4. /\ sessions' \in [Logins -> SessionRec] /\ (\A n \in Logins \ {s} : sessions'[n] = sessions[n])
        /\ sessions'[s].rotation = sessions[s].rotation + 1
    BY <1>2, <2>2, <2>3
  <2> QED
    BY <1>1, <1>3, <2>1, <2>4
<1>4. CASE ~Current(k) /\ InGrace(k)
  BY <1>1, <1>2, <1>4 DEF Post, Issue
<1>5. CASE ~Current(k) /\ ~InGrace(k)
  <2>1. /\ sessions' = [sessions EXCEPT ![s].live = FALSE] /\ UNCHANGED tokens
        /\ Answer(p, "reject", Secrets(0, k))
    BY <1>5 DEF Post
  <2> DEFINE row == [sessions[s] EXCEPT !.live = FALSE]
  <2>2. row \in SessionRec /\ row.rotation = sessions[s].rotation /\ ~row.live
    BY <1>2 DEF SessionRec
  <2>3. sessions' = [sessions EXCEPT ![s] = row]
    BY <1>2, <2>1
  <2> HIDE DEF row
  <2>4. /\ sessions' \in [Logins -> SessionRec] /\ (\A n \in Logins \ {s} : sessions'[n] = sessions[n])
        /\ sessions'[s].rotation = sessions[s].rotation /\ ~sessions'[s].live
    BY <1>2, <2>2, <2>3
  <2> QED
    BY <1>1, <1>5, <2>1, <2>4
<1> QED
  BY <1>3, <1>4, <1>5

---------------------------------------------------------------------------
(* What each step of the shell changes.                                    *)

\* No session is rotated, and none comes back.
SessionsEnd ==
  /\ sessions' \in [Logins -> SessionRec]
  /\ \A n \in Logins : /\ sessions'[n].rotation = sessions[n].rotation
                       /\ sessions'[n].live => sessions[n].live
SpentSame ==
  /\ spent' \in [logins : Logins, expiries : Nat, faults : Nat]
  /\ spent'.logins = spent.logins /\ spent'.expiries = spent.expiries

\* One session is marked, or ends.
LEMMA SessionEdits ==
  ASSUME Types, NEW n \in Logins
  PROVE  /\ sessions' = sessions => SessionsEnd
         /\ sessions' = [sessions EXCEPT ![n].grace = FALSE] => SessionsEnd
         /\ sessions' = [sessions EXCEPT ![n].live = FALSE] => SessionsEnd
<1>1. sessions \in [Logins -> SessionRec] /\ sessions[n] \in SessionRec
  BY DEF Types
<1>2. ASSUME NEW row \in SessionRec, row.rotation = sessions[n].rotation, row.live => sessions[n].live,
             sessions' = [sessions EXCEPT ![n] = row]
      PROVE  SessionsEnd
  BY <1>1, <1>2 DEF SessionsEnd
<1>3. ASSUME sessions' = [sessions EXCEPT ![n].grace = FALSE] PROVE SessionsEnd
  <2> DEFINE row == [sessions[n] EXCEPT !.grace = FALSE]
  <2>1. row \in SessionRec /\ row.rotation = sessions[n].rotation /\ row.live = sessions[n].live
    BY <1>1 DEF SessionRec
  <2>2. sessions' = [sessions EXCEPT ![n] = row]
    BY <1>1, <1>3
  <2> HIDE DEF row
  <2> QED
    BY <1>2, <2>1, <2>2
<1>4. ASSUME sessions' = [sessions EXCEPT ![n].live = FALSE] PROVE SessionsEnd
  <2> DEFINE row == [sessions[n] EXCEPT !.live = FALSE]
  <2>1. row \in SessionRec /\ row.rotation = sessions[n].rotation /\ ~row.live
    BY <1>1 DEF SessionRec
  <2>2. sessions' = [sessions EXCEPT ![n] = row]
    BY <1>1, <1>4
  <2> HIDE DEF row
  <2> QED
    BY <1>2, <2>1, <2>2
<1> QED
  BY <1>1, <1>3, <1>4 DEF SessionsEnd

LEMMA ServerEffect ==
  ASSUME Types, NEW n \in Logins, GraceEnds(n) \/ Revoke(n)
  PROVE  SessionsEnd /\ SpentSame /\ UNCHANGED <<tokens, storeVars, client, app, call, shell, past>>
<1>1. CASE GraceEnds(n)
  BY <1>1, SessionEdits DEF GraceEnds, SpentSame, Types
<1>2. CASE Revoke(n)
  BY <1>2, SessionEdits, SpendTypes DEF Revoke, SpentSame, Types
<1> QED
  BY <1>1, <1>2

LEMMA LoginRequestEffect ==
  ASSUME Types, LoginRequest
  PROVE  LET s == spent.logins + 1 IN
         /\ ShellAt("idle") /\ UNCHANGED <<storeVars, client, app, call>>
         /\ s \in Logins /\ sessions' \in [Logins -> SessionRec]
         /\ sessions'[s].rotation = 0 /\ \A n \in Logins \ {s} : sessions'[n] = sessions[n]
         /\ tokens' = [tokens EXCEPT !.issued = @ + 1]
         /\ ShellSet("loginSettings", Secrets(tokens.issued + 1, Cookie(s, 0)))
         /\ spent' \in [logins : Logins, expiries : Nat, faults : Nat]
         /\ spent'.logins = s /\ spent'.expiries = spent.expiries
         /\ past' \in PastRec /\ (past'.overlap <=> past.overlap \/ Refreshing)
         /\ (past'.lost <=> past.lost) /\ (past'.reuse <=> past.reuse)
<1> DEFINE s == spent.logins + 1
           row == [live |-> TRUE, rotation |-> 0, grace |-> FALSE]
<1>1. /\ spent' \in [logins : Logins, expiries : Nat, faults : Nat]
      /\ spent'.logins = s /\ spent'.expiries = spent.expiries
  BY SpendTypes DEF Types, LoginRequest
<1>2. s \in Logins
  BY <1>1
<1>3. row \in SessionRec /\ row.rotation = 0
  BY DEF SessionRec
<1>4. sessions' = [sessions EXCEPT ![s] = row]
  BY DEF LoginRequest
<1>5. /\ tokens' = [tokens EXCEPT !.issued = @ + 1] /\ ShellAt("idle") /\ Overlapping(Refreshing)
      /\ UNCHANGED <<storeVars, client, app, call>>
      /\ shell' = [pc |-> "loginSettings", on |-> None, got |-> Secrets(tokens.issued + 1, Cookie(s, 0))]
  BY DEF LoginRequest, Issue
<1> HIDE DEF row
<1>6. /\ sessions' \in [Logins -> SessionRec] /\ sessions'[s].rotation = 0
      /\ \A n \in Logins \ {s} : sessions'[n] = sessions[n]
  BY <1>2, <1>3, <1>4 DEF Types
<1>7. Secrets(tokens.issued + 1, Cookie(s, 0)) \in Sec
  <2>1. tokens.issued + 1 \in Nat /\ 0 \in Nat
    BY DEF Types
  <2>2. Cookie(s, 0) \in Cookies
    BY <1>2, <2>1, SecretTypes
  <2> QED
    BY <2>1, <2>2, SecretTypes
<1>8. ShellSet("loginSettings", Secrets(tokens.issued + 1, Cookie(s, 0)))
  BY <1>5, <1>7, ShellEdits DEF Entering
<1>9. /\ past' \in PastRec /\ (past'.overlap <=> past.overlap \/ Refreshing)
      /\ (past'.lost <=> past.lost) /\ (past'.reuse <=> past.reuse)
  <2>1. Refreshing \in BOOLEAN
    BY DEF Refreshing
  <2> QED
    BY <1>5, <2>1, Overlaps
<1> QED
  BY <1>1, <1>2, <1>5, <1>6, <1>8, <1>9

LEMMA LogoutTakeEffect ==
  ASSUME Types, LogoutTake
  PROVE  LET c == app.api IN
         /\ ShellAt("idle") /\ app.running /\ c \in Clients
         /\ UNCHANGED <<serverVars, storeVars, app, call, spent>>
         /\ ShellSet("logoutPost", Secrets(0, client[c].cookie))
         /\ Changed(c, client[c].token, NoCookie, client[c].lock)
         /\ past' \in PastRec /\ (past'.overlap <=> past.overlap \/ Refreshing)
         /\ (past'.lost <=> past.lost) /\ (past'.reuse <=> past.reuse)
<1> DEFINE c == app.api
<1>1. c \in Clients /\ client[c] \in ClientRec
  BY DEF Types, AppRec
<1>2. /\ client[c].token \in Nat /\ client[c].cookie \in Cookies /\ NoCookie \in Cookies
      /\ client[c].lock \in Callers \cup {None}
  BY <1>1, SecretTypes DEF ClientRec
<1>3. /\ ShellAt("idle") /\ app.running /\ Overlapping(Refreshing)
      /\ UNCHANGED <<serverVars, storeVars, app, call, spent>>
      /\ shell' = [pc |-> "logoutPost", on |-> None, got |-> Secrets(0, client[c].cookie)]
      /\ client' = [client EXCEPT ![c].cookie = NoCookie]
  BY DEF LogoutTake
<1>4. Secrets(0, client[c].cookie) \in Sec
  BY <1>2, SecretTypes
<1>5. ShellSet("logoutPost", Secrets(0, client[c].cookie))
  BY <1>3, <1>4, ShellEdits DEF Leaving
<1>6. Changed(c, client[c].token, NoCookie, client[c].lock)
  BY <1>1, <1>2, <1>3, ClientEdits
<1>7. /\ past' \in PastRec /\ (past'.overlap <=> past.overlap \/ Refreshing)
      /\ (past'.lost <=> past.lost) /\ (past'.reuse <=> past.reuse)
  <2>1. Refreshing \in BOOLEAN
    BY DEF Refreshing
  <2> QED
    BY <1>3, <2>1, Overlaps
<1> QED
  BY <1>1, <1>3, <1>5, <1>6, <1>7

LEMMA LogoutPostEffect ==
  ASSUME Types, ShellSound, LogoutPost
  PROVE  /\ ShellAt("logoutPost") /\ ShellSet("logoutSettings", shell.got)
         /\ UNCHANGED <<tokens, storeVars, client, app, call, past>>
         /\ SessionsEnd /\ SpentSame
<1> DEFINE k == shell.got.cookie
<1>1. /\ ShellAt("logoutPost") /\ ShellGo("logoutSettings")
      /\ UNCHANGED <<tokens, storeVars, client, app, call, past>>
  BY DEF LogoutPost
<1>2. PICK fails \in BOOLEAN :
        /\ MayFail(fails)
        /\ sessions' = IF fails \/ k = NoCookie THEN sessions
                       ELSE [sessions EXCEPT ![k.session].live = FALSE]
  BY DEF LogoutPost
<1>3. ShellSet("logoutSettings", shell.got)
  BY <1>1, ShellEdits DEF Leaving
<1>4. k = NoCookie \/ k.session \in Logins
  BY <1>1 DEF ShellSound, ShellAt
<1>5. SessionsEnd
  BY <1>2, <1>4, SessionEdits, SecretTypes
<1>6. SpentSame
  <2>1. MayFail(fails)
    BY <1>2
  <2> QED
    BY <2>1, SpendTypes DEF SpentSame, Types
<1> QED
  BY <1>1, <1>3, <1>5, <1>6

\* The settings are written, or not and the login or logout is over.
LEMMA SettingsEffect ==
  ASSUME Types, LoginSettings \/ LogoutSettings
  PROVE  /\ UNCHANGED <<serverVars, keyring, file, torn, client, app, call, past>>
         /\ disk' \in {disk, file} /\ SpentSame
         /\ \/ /\ ShellAt("loginSettings")
               /\ ShellSet("loginSave", shell.got) \/ ShellSet("idle", Blank)
            \/ /\ ShellAt("logoutSettings")
               /\ ShellSet("logoutSave", shell.got) \/ ShellSet("idle", Blank)
<1>1. ASSUME NEW from, NEW to \in Entering \cup Leaving, SettingsSaved(from, to)
      PROVE  /\ UNCHANGED <<serverVars, keyring, file, torn, client, app, call, past>>
             /\ disk' \in {disk, file} /\ SpentSame /\ ShellAt(from)
             /\ ShellSet(to, shell.got) \/ ShellSet("idle", Blank)
  <2>1. PICK flushed \in BOOLEAN :
          /\ MayFail(~flushed)
          /\ IF flushed THEN ShellGo(to) /\ disk' = file ELSE shell' = Idle /\ UNCHANGED disk
    BY <1>1 DEF SettingsSaved
  <2>2. SpentSame
    <3>1. (~flushed) \in BOOLEAN
      OBVIOUS
    <3> QED
      BY <2>1, <3>1, SpendTypes DEF SpentSame, Types
  <2>3. ShellSet(to, shell.got) \/ ShellSet("idle", Blank)
    BY <2>1, ShellEdits
  <2> QED
    BY <1>1, <2>1, <2>2, <2>3 DEF SettingsSaved
<1>2. "loginSave" \in Entering /\ "logoutSave" \in Leaving
  BY DEF Entering, Leaving
<1> QED
  BY <1>1, <1>2 DEF LoginSettings, LogoutSettings

LEMMA SaveEffect ==
  ASSUME Types, NEW p \in Callers, SaveRefreshed(p)
  PROVE  /\ At(p, "save") /\ Called(p, "wsStop", call[p].on, call[p].got)
         /\ Saves(call[p].got) /\ call[p].got \in Sec /\ torn' = FALSE
         /\ UNCHANGED <<serverVars, client, app, shell, past>>
BY CallEdits DEF SaveRefreshed, Locked, Saving, Types, CallRec, Saves

LEMMA ShellSaveEffect ==
  ASSUME Types, LoginSave \/ LogoutSave
  PROVE  /\ UNCHANGED <<serverVars, client, app, call, past>> /\ torn' \in BOOLEAN
         /\ \/ /\ ShellAt("loginSave") /\ Saves(shell.got) /\ shell.got \in Sec
               /\ ShellSet("loginAPI", shell.got) \/ (ShellSet("idle", Blank) /\ torn')
            \/ /\ ShellAt("logoutSave") /\ Saves(Blank) /\ Blank \in Sec
               /\ ShellSet("logoutAPI", shell.got) \/ ShellSet("idle", Blank)
<1>1. shell.got \in Sec /\ Blank \in Sec
  BY SecretTypes DEF Types, ShellRec
<1>2. CASE LoginSave
  <2>1. PICK flushed \in BOOLEAN :
          /\ UpdateSecrets(shell.got, flushed)
          /\ IF flushed THEN ShellGo("loginAPI") ELSE shell' = Idle
          /\ torn' = ~flushed
    BY <1>2 DEF LoginSave
  <2>2. ShellSet("loginAPI", shell.got) \/ (ShellSet("idle", Blank) /\ torn')
    BY <2>1, ShellEdits DEF Entering
  <2> QED
    BY <1>1, <1>2, <2>1, <2>2 DEF LoginSave, Saves
<1>3. CASE LogoutSave
  <2>1. PICK flushed \in BOOLEAN :
          /\ UpdateSecrets(Blank, flushed)
          /\ IF flushed THEN ShellGo("logoutAPI") ELSE shell' = Idle
    BY <1>3 DEF LogoutSave
  <2>2. ShellSet("logoutAPI", shell.got) \/ ShellSet("idle", Blank)
    BY <2>1, ShellEdits DEF Leaving
  <2> QED
    BY <1>1, <1>3, <2>1, <2>2 DEF LogoutSave, Saves
<1> QED
  BY <1>2, <1>3

LEMMA ShellAPIEffect ==
  ASSUME Types, LoginAPI \/ LogoutAPI
  PROVE  /\ UNCHANGED <<serverVars, storeVars, call, spent, past>> /\ NewAPI
         /\ \/ ShellAt("loginAPI") /\ ShellSet("loginStop", shell.got)
            \/ ShellAt("logoutAPI") /\ ShellSet("logoutStop", shell.got)
BY ShellEdits DEF LoginAPI, LogoutAPI, Entering, Leaving

LEMMA ShellWsEffect ==
  ASSUME Types, LoginWs, shell.got.jwt # 0
  PROVE  /\ UNCHANGED <<serverVars, storeVars, client, call, spent, past>>
         /\ \/ /\ ShellAt("loginStop") /\ ShellSet("loginStart", shell.got)
               /\ AppSet(0, app.loops \ {app.ws})
            \/ /\ ShellAt("loginStart") /\ ShellSet("loginEngine", shell.got)
               /\ AppSet(shell.got.jwt, app.loops \cup {shell.got.jwt})
<1>1. shell.got.jwt \in Nat
  BY DEF Types, ShellRec, Sec
<1> QED
  BY <1>1, ShellEdits, WsEdits DEF LoginWs, Entering

LEMMA ShellEndEffect ==
  ASSUME Types, LoginEngine \/ LogoutStop
  PROVE  /\ UNCHANGED <<serverVars, storeVars, client, call, spent, past>>
         /\ ShellSet("idle", Blank) /\ app' \in AppRec /\ app'.api = app.api
         /\ \/ /\ ShellAt("loginEngine") /\ app'.engineApi = app.api
               /\ app'.ws = app.ws /\ app'.loops = app.loops
            \/ /\ ShellAt("logoutStop") /\ ~app'.running
               /\ app'.loops = app.loops \ {app.ws}
<1>1. app \in AppRec
  BY DEF Types
<1>2. UNCHANGED <<serverVars, storeVars, client, call, spent, past>> /\ ShellSet("idle", Blank)
  BY ShellEdits DEF LoginEngine, LogoutStop
<1>3. ASSUME NEW on \in BOOLEAN, NEW ws \in Nat, NEW loops \in SUBSET Nat
      PROVE  /\ [app EXCEPT !.engineApi = app.api, !.running = on] \in AppRec
             /\ [app EXCEPT !.engineApi = app.api, !.running = on].api = app.api
             /\ [app EXCEPT !.engineApi = app.api, !.running = on].engineApi = app.api
             /\ [app EXCEPT !.engineApi = app.api, !.running = on].ws = app.ws
             /\ [app EXCEPT !.engineApi = app.api, !.running = on].loops = app.loops
             /\ [app EXCEPT !.ws = ws, !.loops = loops, !.running = on] \in AppRec
             /\ [app EXCEPT !.ws = ws, !.loops = loops, !.running = on].api = app.api
             /\ [app EXCEPT !.ws = ws, !.loops = loops, !.running = on].running = on
             /\ [app EXCEPT !.ws = ws, !.loops = loops, !.running = on].loops = loops
  BY <1>1 DEF AppRec
<1>4. CASE LoginEngine
  <2>1. ShellAt("loginEngine") /\ app' = [app EXCEPT !.engineApi = app.api, !.running = TRUE]
    BY <1>4 DEF LoginEngine
  <2>2. 0 \in Nat /\ {} \in SUBSET Nat
    OBVIOUS
  <2>3. /\ app' \in AppRec /\ app'.api = app.api /\ app'.engineApi = app.api
        /\ app'.ws = app.ws /\ app'.loops = app.loops
    BY <1>3, <2>1, <2>2, Zenon
  <2> QED
    BY <1>2, <2>1, <2>3
<1>5. CASE LogoutStop
  <2> DEFINE loops == app.loops \ {app.ws}
  <2>1. ShellAt("logoutStop") /\ app' = [WsStopped EXCEPT !.running = FALSE]
    BY <1>5 DEF LogoutStop
  <2>2. 0 \in Nat /\ loops \in SUBSET Nat
    BY <1>1 DEF AppRec
  <2>3. PICK on \in BOOLEAN : on = FALSE
    BY Zenon
  <2> DEFINE new == [app EXCEPT !.ws = 0, !.loops = loops, !.running = on]
  <2>4. app' = new
    BY <2>1, <2>3 DEF WsStopped
  <2> HIDE DEF loops
  <2>5. app' \in AppRec /\ app'.api = app.api /\ app'.running = on /\ app'.loops = loops
    <3>1. new \in AppRec /\ new.api = app.api /\ new.running = on /\ new.loops = loops
      BY <1>1, <2>2 DEF AppRec
    <3> HIDE DEF new
    <3> QED
      BY <2>4, <3>1
  <2>6. ~app'.running
    BY <2>3, <2>5, Zenon
  <2> QED
    BY <1>2, <2>1, <2>5, <2>6 DEF loops
<1> QED
  BY <1>4, <1>5

---------------------------------------------------------------------------
(* Types.                                                                  *)

LEMMA CalledTypes ==
  ASSUME Types, NEW p \in Callers, NEW pc, NEW on, NEW got, Called(p, pc, on, got),
         pc # "idle" => on \in Clients
  PROVE  call' \in [Callers -> CallRec] /\ \A q \in Callers : ~At(q, "idle")' => call'[q].on \in Clients
BY DEF Called, Types, At

LEMMA SharedTypes ==
  ASSUME Types
  PROVE  /\ UNCHANGED call => \A q \in Callers : ~At(q, "idle")' => call'[q].on \in Clients
         /\ \A ws \in Nat : \A loops : AppSet(ws, loops) => app' \in AppRec /\ app'.loops = loops
         /\ \A pc, got : ShellSet(pc, got) => shell' \in ShellRec
         /\ \A c, token, cookie, lock : Changed(c, token, cookie, lock) => client' \in [Clients -> ClientRec]
BY DEF Types, At, AppSet, ShellSet, Changed

LEMMA PostTypes ==
  ASSUME Types, NEW p \in Callers, Post(p), call[p].got.cookie.session \in Logins
  PROVE  Types'
<1> DEFINE k == call[p].got.cookie
           s == k.session
<1>1. /\ At(p, "post") /\ UNCHANGED <<storeVars, app, shell>> /\ k \in Cookies
      /\ sessions' \in [Logins -> SessionRec]
  BY PostEffect
<1>2. ASSUME NEW pc \in {"answer", "reject"}, NEW sec \in Sec, Answer(p, pc, sec),
             tokens' \in [issued : Nat, expired : Nat], tokens'.expired <= tokens'.issued,
             tokens'.issued >= tokens.issued
      PROVE  Types'
  <2>1. /\ spent' \in [logins : Logins, expiries : Nat, faults : Nat]
        /\ past' \in PastRec /\ call[p].on \in Clients
    BY <1>1, <1>2, AnswerEffect
  <2>2. /\ client' \in [Clients -> ClientRec]
        /\ Called(p, pc, call[p].on, sec) \/ Called(p, "idle", None, Blank)
    BY <1>1, <1>2, AnswerEffect DEF Changed, Types
  <2>3. call' \in [Callers -> CallRec] /\ \A q \in Callers : ~At(q, "idle")' => call'[q].on \in Clients
    BY <2>1, <2>2, CalledTypes
  <2>4. app'.loops \subseteq 1..tokens'.issued
    BY <1>1, <1>2 DEF Types
  <2> QED
    BY <1>1, <1>2, <2>1, <2>2, <2>3, <2>4 DEF Types, storeVars
<1>3. tokens \in [issued : Nat, expired : Nat] /\ tokens.expired <= tokens.issued
  BY DEF Types
<1>4. ASSUME tokens' = [tokens EXCEPT !.issued = @ + 1]
      PROVE  /\ tokens' \in [issued : Nat, expired : Nat] /\ tokens'.expired <= tokens'.issued
             /\ tokens'.issued >= tokens.issued
  BY <1>3, <1>4
<1>5. tokens.issued + 1 \in Nat /\ k.rotation + 1 \in Nat /\ 0 \in Nat
  BY <1>1, <1>3 DEF Cookies
<1> DEFINE rotated == Secrets(tokens.issued + 1, Cookie(s, k.rotation + 1))
           again   == Secrets(tokens.issued + 1, k)
<1>6. rotated \in Sec /\ again \in Sec /\ Secrets(0, k) \in Sec
  BY <1>1, <1>5, SecretTypes
<1>7. \/ tokens' = [tokens EXCEPT !.issued = @ + 1] /\ Answer(p, "answer", rotated)
      \/ tokens' = [tokens EXCEPT !.issued = @ + 1] /\ Answer(p, "answer", again)
      \/ UNCHANGED tokens /\ Answer(p, "reject", Secrets(0, k))
  BY PostEffect
<1> HIDE DEF rotated, again, k
<1>8. CASE tokens' = [tokens EXCEPT !.issued = @ + 1]
  BY <1>2, <1>4, <1>6, <1>7, <1>8
<1>9. CASE UNCHANGED tokens /\ Answer(p, "reject", Secrets(0, k))
  BY <1>2, <1>3, <1>6, <1>9
<1> QED
  BY <1>7, <1>8, <1>9

LEMMA CallTypes ==
  ASSUME Types, NEW p \in Callers, CallSound(p),
         Call(p) \/ CallSteps(p) \/ Unreachable(p)
  PROVE  Types'
<1>1. CASE Call(p)
  <2>1. PICK c \in Clients : Called(p, "refresh", c, Secrets(client[c].token, NoCookie))
    BY <1>1, CallEffect
  <2> QED
    BY <1>1, <2>1, CallEffect, CalledTypes DEF Types, serverVars, storeVars
<1>2. CASE Refresh(p)
  BY <1>2, RefreshEffect, CalledTypes, SharedTypes DEF Types, serverVars, storeVars
<1>3. CASE Post(p)
  <2>1. call[p].got.cookie.session \in Logins
    <3>1. At(p, "post")
      BY <1>3 DEF Post
    <3>2. call[p].got.cookie.session \in 1..spent.logins
      BY <3>1 DEF CallSound, Earned, Secrets
    <3>3. spent.logins \in Logins
      BY DEF Types
    <3> QED
      BY <3>2, <3>3, BoundsAssumption DEF Logins
  <2> QED
    BY <1>3, <2>1, PostTypes
<1>4. CASE Unreachable(p)
  BY <1>4, UnreachableEffect, CalledTypes, SharedTypes DEF Types, serverVars, storeVars
<1>5. CASE Answered(p)
  BY <1>5, AnsweredEffect, CalledTypes, SharedTypes DEF Types, serverVars, storeVars
<1>6. CASE SaveRefreshed(p)
  <2>1. call[p].on \in Clients
    BY <1>6, SaveEffect DEF Types, At
  <2> QED
    BY <1>6, <2>1, SaveEffect, StoreWrites, CalledTypes DEF Types, serverVars
<1>7. CASE CallbackWs(p)
  <2>1. call[p].got.jwt \in 1..tokens.issued
    BY <1>7 DEF CallbackWs, CallSound, At, Saving, Issued
  <2>2. call[p].got.jwt # 0 /\ app.loops \cup {call[p].got.jwt} \subseteq 1..tokens.issued
    BY <2>1 DEF Types
  <2>3. app' \in AppRec /\ app'.loops \subseteq 1..tokens.issued
    BY <1>7, <2>2, CallbackEffect DEF AppSet, Types
  <2>4. /\ call' \in [Callers -> CallRec] /\ \A q \in Callers : ~At(q, "idle")' => call'[q].on \in Clients
        /\ client' \in [Clients -> ClientRec]
    BY <1>7, <2>2, CallbackEffect, CalledTypes DEF Changed, Types
  <2> QED
    BY <1>7, <2>2, <2>3, <2>4, CallbackEffect DEF Types, serverVars, storeVars
<1> QED
  BY <1>1, <1>2, <1>3, <1>4, <1>5, <1>6, <1>7 DEF CallSteps

LEMMA ShellTypes ==
  ASSUME Types, ShellSound, LoginRequest \/ LogoutTake \/ ShellSteps
  PROVE  Types'
<1>1. CASE LoginRequest
  BY <1>1, LoginRequestEffect, SharedTypes DEF Types, storeVars
<1>2. CASE LogoutTake
  BY <1>2, LogoutTakeEffect, SharedTypes DEF Types, serverVars, storeVars
<1>3. CASE LoginSave \/ LogoutSave
  BY <1>3, ShellSaveEffect, StoreWrites, SharedTypes DEF Types, serverVars
<1>4. CASE LoginAPI \/ LogoutAPI
  BY <1>4, ShellAPIEffect, NewClients, SharedTypes DEF Types, serverVars, storeVars
<1>5. CASE LoginWs
  <2>1. shell.got.jwt \in 1..tokens.issued
    BY <1>5 DEF LoginWs, ShellSound, ShellAt, Entering, Issued
  <2>2. shell.got.jwt # 0 /\ app.loops \cup {shell.got.jwt} \subseteq 1..tokens.issued
    BY <2>1 DEF Types
  <2>3. app' \in AppRec /\ app'.loops \subseteq 1..tokens.issued
    BY <1>5, <2>2, ShellWsEffect DEF AppSet, Types
  <2> QED
    BY <1>5, <2>2, <2>3, ShellWsEffect, SharedTypes DEF Types, serverVars, storeVars
<1>6. CASE LoginEngine \/ LogoutStop
  BY <1>6, ShellEndEffect, SharedTypes DEF Types, serverVars, storeVars
<1>7. CASE LogoutPost
  BY <1>7, LogoutPostEffect, SharedTypes DEF Types, storeVars, SessionsEnd, SpentSame
<1>8. CASE LoginSettings \/ LogoutSettings
  BY <1>8, SettingsEffect, SharedTypes DEF Types, serverVars, SpentSame
<1> QED
  BY <1>1, <1>2, <1>3, <1>4, <1>5, <1>6, <1>7, <1>8 DEF ShellSteps

\* The program as it is started with secrets.
LEMMA StartedTypes ==
  ASSUME NEW sec \in Sec, Started(sec)
  PROVE  /\ client' \in [Clients -> ClientRec] /\ app' \in AppRec
         /\ app'.engineApi = app'.api /\ (app'.running <=> sec # Blank) /\ app'.ws = sec.jwt
         /\ app'.loops = {sec.jwt} \ {0}
         /\ client'[app'.api].token = sec.jwt /\ client'[app'.api].cookie = sec.cookie
         /\ \A d \in Clients \ {app'.api} : client'[d].cookie = NoCookie
         /\ call' \in [Callers -> CallRec] /\ (\A p \in Callers : At(p, "idle")')
         /\ shell' \in ShellRec /\ shell'.pc = "idle"
<1> DEFINE c == CHOOSE d \in Clients : TRUE
<1>1. c \in Clients
  BY SecretTypes
<1>2. /\ app' = [api |-> c, engineApi |-> c, running |-> sec # Blank,
                 ws |-> sec.jwt, loops |-> {sec.jwt} \ {0}]
      /\ client' = [d \in Clients |-> NewClient(IF d = c THEN sec ELSE Blank)]
      /\ call' = [p \in Callers |-> Idle] /\ shell' = Idle
  BY DEF Started
<1> HIDE DEF c
<1>3. \A new \in Sec : /\ NewClient(new) \in ClientRec
                       /\ NewClient(new).token = new.jwt /\ NewClient(new).cookie = new.cookie
  BY DEF NewClient, ClientRec, Sec
<1>4. ASSUME NEW on \in BOOLEAN, NEW n \in Nat, NEW loops \in SUBSET Nat
      PROVE  LET new == [api |-> c, engineApi |-> c, running |-> on, ws |-> n, loops |-> loops] IN
             new \in AppRec /\ new.api = c /\ new.engineApi = c /\ new.running = on
             /\ new.ws = n /\ new.loops = loops
  BY <1>1 DEF AppRec
<1>5. (sec # Blank) \in BOOLEAN /\ sec.jwt \in Nat /\ {sec.jwt} \ {0} \in SUBSET Nat
  BY DEF Sec
<1>6. /\ app' \in AppRec /\ app'.api = c /\ app'.engineApi = c /\ (app'.running <=> sec # Blank)
      /\ app'.ws = sec.jwt /\ app'.loops = {sec.jwt} \ {0}
  BY <1>2, <1>4, <1>5, Zenon
<1>7. Idle \in CallRec /\ Idle.pc = "idle" /\ Idle \in ShellRec
  BY SecretTypes DEF Idle, CallRec, ShellRec, Quiet
<1>8. /\ client' \in [Clients -> ClientRec] /\ client'[c] = NewClient(sec)
      /\ \A d \in Clients \ {c} : client'[d].cookie = NoCookie
  BY <1>1, <1>2, <1>3, SecretTypes
<1> QED
  BY <1>1, <1>2, <1>3, <1>6, <1>7, <1>8 DEF At

LEMMA RestartTypes ==
  ASSUME Types, Sound, Restart
  PROVE  Types'
<1>1. PICK sec \in Sec : sec \in {ReadSecrets, Blank, disk} \cup Pending /\ Started(sec)
  BY Restarting DEF Sound
<1>2. sec.jwt \in 0..tokens.issued
  <2>1. /\ ReadSecrets.jwt \in 0..tokens.issued /\ Blank.jwt \in 0..tokens.issued
        /\ disk.jwt \in 0..tokens.issued
    BY SecretTypes DEF Sound, StoresSound, Issued, ReadSecrets, Types
  <2>2. \A p \in Callers : At(p, "save") => call[p].got.jwt \in 0..tokens.issued
    BY DEF Sound, CallSound, Saving, At, Issued
  <2>3. ShellAt("loginSave") => shell.got.jwt \in 0..tokens.issued
    BY DEF Sound, ShellSound, Entering, ShellAt, Issued
  <2> QED
    BY <1>1, <2>1, <2>2, <2>3 DEF Pending
<1>3. {sec.jwt} \ {0} \subseteq 1..tokens.issued
  BY <1>2
<1>4. /\ client' \in [Clients -> ClientRec] /\ app' \in AppRec
      /\ app'.loops \subseteq 1..tokens.issued
      /\ call' \in [Callers -> CallRec] /\ (\A p \in Callers : At(p, "idle")')
      /\ shell' \in ShellRec
  BY <1>1, <1>3, StartedTypes
<1> QED
  BY <1>4, Restarting DEF Types, Sound, serverVars

LEMMA SessionTypes ==
  ASSUME Types, Sound, [Next]_vars
  PROVE  Types'
<1>1. CASE UNCHANGED vars
  BY <1>1 DEF vars, serverVars, storeVars, Types, At
<1>2. CASE Expire
  <2>1. /\ tokens' \in [issued : Nat, expired : Nat] /\ tokens'.expired <= tokens'.issued
        /\ tokens'.issued = tokens.issued
    BY <1>2 DEF Expire, Types
  <2> QED
    BY <1>2, <2>1, SpendTypes DEF Expire, Types, At, storeVars
<1>3. ASSUME NEW n \in Logins, GraceEnds(n) \/ Revoke(n) PROVE Types'
  BY <1>3, ServerEffect DEF SessionsEnd, SpentSame, Types, At, storeVars
<1>4. ASSUME NEW p \in Callers, Call(p) \/ CallSteps(p) \/ Unreachable(p) PROVE Types'
  BY <1>4, CallTypes DEF Sound
<1>5. CASE LoginRequest \/ LogoutTake \/ ShellSteps
  BY <1>5, ShellTypes DEF Sound
<1>6. CASE SaveSettings
  BY <1>6 DEF SaveSettings, Types, At, serverVars
<1> QED
  BY <1>1, <1>2, <1>3, <1>4, <1>5, <1>6, RestartTypes DEF Next

---------------------------------------------------------------------------
(* Tokens and rotations.                                                   *)

\* What comes of a refresh.
Outcome(p, pc, sec) ==
  LET c == call[p].on
      k == call[p].got.cookie IN
  /\ SpentSame /\ c \in Clients /\ sec \in Sec
  /\ past' \in PastRec /\ (past'.overlap <=> past.overlap) /\ (past.lost => past'.lost)
  /\ (past'.reuse <=> past.reuse \/ (pc = "reject" /\ sessions[k.session].live))
  /\ \/ Called(p, pc, c, sec) /\ UNCHANGED client
     \/ /\ Called(p, "idle", None, Blank) /\ Changed(c, client[c].token, client[c].cookie, None)
        /\ (Current(k) => past'.lost)

LEMMA PostOutcome ==
  ASSUME Types, NEW p \in Callers, CallSound(p), Post(p)
  PROVE  LET k == call[p].got.cookie
             s == k.session IN
         /\ At(p, "post") /\ UNCHANGED <<storeVars, app, shell>>
         /\ k \in Cookies /\ k # NoCookie /\ s \in 1..spent.logins /\ s \in Logins
         /\ k.rotation <= sessions[s].rotation
         /\ k.rotation = sessions[s].rotation => sessions[s].rotation < spent.expiries
         /\ \A n \in Logins \ {s} : sessions'[n] = sessions[n]
         /\ tokens'.expired = tokens.expired
         /\ \/ /\ Current(k) /\ tokens'.issued = tokens.issued + 1
               /\ sessions'[s].rotation = sessions[s].rotation + 1
               /\ Outcome(p, "answer", Secrets(tokens.issued + 1, Cookie(s, k.rotation + 1)))
            \/ /\ InGrace(k) /\ ~Current(k) /\ tokens'.issued = tokens.issued + 1
               /\ sessions' = sessions
               /\ Outcome(p, "answer", Secrets(tokens.issued + 1, k))
            \/ /\ ~Current(k) /\ tokens'.issued = tokens.issued
               /\ sessions'[s].rotation = sessions[s].rotation /\ ~sessions'[s].live
               /\ Outcome(p, "reject", Secrets(0, k))
<1> DEFINE k == call[p].got.cookie
           s == k.session
           rotated == Secrets(tokens.issued + 1, Cookie(s, k.rotation + 1))
           again   == Secrets(tokens.issued + 1, k)
<1>1. At(p, "post") /\ call[p].got \in Sec /\ k \in Cookies
  BY DEF Post, Types, CallRec, Sec
<1>2. Earned(Secrets(0, k))
  BY <1>1 DEF CallSound
<1>3. /\ tokens \in [issued : Nat, expired : Nat] /\ spent.logins \in Logins
      /\ sessions \in [Logins -> SessionRec]
  BY DEF Types
<1>4. /\ s \in 1..spent.logins /\ k.rotation <= sessions[s].rotation
      /\ k.rotation = sessions[s].rotation => 0 > tokens.expired \/ sessions[s].rotation < spent.expiries
  BY <1>2 DEF Earned, Secrets, Rotation
<1>5. s \in Logins /\ ~(0 > tokens.expired)
  BY <1>3, <1>4, BoundsAssumption DEF Logins
<1>6. /\ UNCHANGED <<storeVars, app, shell>> /\ k # NoCookie
      /\ \A n \in Logins \ {s} : sessions'[n] = sessions[n]
      /\ \/ /\ Current(k) /\ tokens' = [tokens EXCEPT !.issued = @ + 1]
            /\ sessions'[s].rotation = sessions[s].rotation + 1
            /\ Answer(p, "answer", rotated)
         \/ /\ InGrace(k) /\ ~Current(k) /\ tokens' = [tokens EXCEPT !.issued = @ + 1]
            /\ sessions' = sessions
            /\ Answer(p, "answer", again)
         \/ /\ ~Current(k) /\ UNCHANGED tokens
            /\ sessions'[s].rotation = sessions[s].rotation /\ ~sessions'[s].live
            /\ Answer(p, "reject", Secrets(0, k))
  BY <1>5, PostEffect
<1>7. tokens.issued + 1 \in Nat /\ k.rotation + 1 \in Nat /\ 0 \in Nat
  BY <1>1, <1>3 DEF Cookies
<1>8. rotated \in Sec /\ again \in Sec /\ Secrets(0, k) \in Sec
  BY <1>1, <1>5, <1>7, SecretTypes
<1>9. ASSUME NEW pc \in {"answer", "reject"}, NEW sec \in Sec, Answer(p, pc, sec)
      PROVE  Outcome(p, pc, sec)
  BY <1>1, <1>9, AnswerEffect, Zenon DEF Outcome, SpentSame
<1>10. tokens' = [tokens EXCEPT !.issued = @ + 1] =>
         tokens'.issued = tokens.issued + 1 /\ tokens'.expired = tokens.expired
  BY <1>3
<1>11. UNCHANGED tokens => tokens'.issued = tokens.issued /\ tokens'.expired = tokens.expired
  OBVIOUS
<1> HIDE DEF rotated, again, s, k
<1>12. /\ Answer(p, "answer", rotated) => Outcome(p, "answer", rotated)
       /\ Answer(p, "answer", again) => Outcome(p, "answer", again)
       /\ Answer(p, "reject", Secrets(0, k)) => Outcome(p, "reject", Secrets(0, k))
  BY <1>8, <1>9
<1>13. /\ tokens'.expired = tokens.expired
       /\ \/ /\ Current(k) /\ tokens'.issued = tokens.issued + 1
             /\ sessions'[s].rotation = sessions[s].rotation + 1
             /\ Outcome(p, "answer", rotated)
          \/ /\ InGrace(k) /\ ~Current(k) /\ tokens'.issued = tokens.issued + 1
             /\ sessions' = sessions
             /\ Outcome(p, "answer", again)
          \/ /\ ~Current(k) /\ tokens'.issued = tokens.issued
             /\ sessions'[s].rotation = sessions[s].rotation /\ ~sessions'[s].live
             /\ Outcome(p, "reject", Secrets(0, k))
  BY <1>6, <1>10, <1>11, <1>12, Zenon
<1>14. k.rotation = sessions[s].rotation => sessions[s].rotation < spent.expiries
  BY <1>4, <1>5, Zenon
<1> QED
  BY <1>1, <1>4, <1>5, <1>6, <1>13, <1>14, Zenon DEF rotated, again, s, k

\* Earned and Issued in the next state.
EarnedNext(sec) ==
  LET rotation == sessions'[sec.cookie.session].rotation IN
  /\ sec.cookie.session \in 1..spent'.logins
  /\ sec.cookie.rotation <= rotation
  /\ sec.cookie.rotation = rotation => sec.jwt > tokens'.expired \/ rotation < spent'.expiries
IssuedNext(sec) == sec \in Sec /\ sec.jwt \in 1..tokens'.issued /\ EarnedNext(sec)

\* Tokens are only issued and cookies only rotated; when the tokens expire, no
\* session is rotated.
Onward ==
  /\ spent.logins <= spent'.logins /\ tokens.issued <= tokens'.issued
  /\ spent'.logins \in Logins /\ tokens'.issued \in Nat
  /\ \A n \in 1..spent.logins : /\ sessions'[n].rotation \in Nat
                                /\ sessions[n].rotation <= sessions'[n].rotation
  /\ \/ tokens'.expired = tokens.expired /\ spent'.expiries = spent.expiries
     \/ /\ spent'.expiries = spent.expiries + 1
        /\ \A n \in 1..spent.logins : sessions'[n].rotation = sessions[n].rotation

\* Secrets stay what they are: if they still are the newest of their session,
\* then either their token or one more expiry allows the next rotation.
LEMMA StaysIssued ==
  ASSUME Types, RotationsEarned, Onward
  PROVE  /\ \A sec \in Sec : Earned(sec) => EarnedNext(sec)
         /\ \A sec : Issued(sec) => IssuedNext(sec)
<1>1. ASSUME NEW sec \in Sec, Earned(sec) PROVE EarnedNext(sec)
  <2> DEFINE k == sec.cookie
             n == k.session
  <2>1. /\ n \in 1..spent.logins /\ k.rotation \in Nat /\ sec.jwt \in Nat
        /\ k.rotation <= sessions[n].rotation
        /\ k.rotation = sessions[n].rotation =>
             sec.jwt > tokens.expired \/ sessions[n].rotation < spent.expiries
    BY <1>1 DEF Earned, Rotation, Sec, Cookies
  <2>2. /\ spent.logins \in Nat /\ spent'.logins \in Nat /\ spent.logins <= MaxLogins /\ MaxLogins \in Nat
        /\ spent.expiries \in Nat /\ tokens.expired \in Nat
    BY BoundsAssumption DEF Types, Logins, Onward
  <2>3. n \in Logins
    BY <2>1, <2>2 DEF Logins
  <2>4. sessions[n].rotation \in Nat /\ sessions[n].rotation <= spent.expiries
    BY <2>3 DEF Types, SessionRec, RotationsEarned
  <2>5. /\ sessions'[n].rotation \in Nat /\ sessions[n].rotation <= sessions'[n].rotation
        /\ spent.logins <= spent'.logins
        /\ \/ tokens'.expired = tokens.expired /\ spent'.expiries = spent.expiries
           \/ spent'.expiries = spent.expiries + 1 /\ sessions'[n].rotation = sessions[n].rotation
    BY <2>1 DEF Onward
  <2> HIDE DEF n, k
  <2>6. n \in 1..spent'.logins
    BY <2>1, <2>2, <2>5
  <2>7. k.rotation <= sessions'[n].rotation
    BY <2>1, <2>4, <2>5
  <2>8. k.rotation = sessions'[n].rotation =>
          sec.jwt > tokens'.expired \/ sessions'[n].rotation < spent'.expiries
    BY <2>1, <2>2, <2>4, <2>5
  <2> QED
    BY <2>6, <2>7, <2>8 DEF EarnedNext, n, k
<1>2. ASSUME NEW sec, Issued(sec) PROVE IssuedNext(sec)
  BY <1>1, <1>2 DEF Issued, IssuedNext, Onward, Types
<1> QED
  BY <1>1, <1>2

\* Sound in the next state, part by part.
StoresNext ==
  /\ keyring' = None \/ IssuedNext(keyring')
  /\ file' = Blank \/ (IssuedNext(file') /\ keyring' = None)
  /\ disk' = Blank \/ IssuedNext(disk')
ClientNext(c) ==
  client'[c].cookie = NoCookie \/ IssuedNext(Secrets(client'[c].token, client'[c].cookie))
CallNext(p) ==
  /\ call'[p].pc \in Locked => client'[call'[p].on].lock = p
  /\ call'[p].pc \in {"answer"} \cup Saving => IssuedNext(call'[p].got)
  /\ call'[p].pc = "refresh" => call'[p].got.jwt <= tokens'.expired
  /\ call'[p].pc = "post" => EarnedNext(Secrets(0, call'[p].got.cookie))
ShellNext ==
  /\ shell'.pc \in Entering => IssuedNext(shell'.got)
  /\ shell'.pc = "logoutPost" => shell'.got.cookie = NoCookie \/ shell'.got.cookie.session \in Logins

LEMMA SoundNext ==
  ASSUME StoresNext, \A c \in Clients : ClientNext(c), \A p \in Callers : CallNext(p), ShellNext
  PROVE  Sound'
<1>1. StoresSound'
  BY DEF StoresNext, StoresSound, Issued, IssuedNext, Earned, EarnedNext, Rotation
<1>2. \A c \in Clients : ClientSound(c)'
  BY DEF ClientNext, ClientSound, Pair, Issued, IssuedNext, Earned, EarnedNext, Rotation
<1>3. \A p \in Callers : CallSound(p)'
  BY DEF CallNext, CallSound, At, Issued, IssuedNext, Earned, EarnedNext, Rotation
<1>4. ShellSound'
  BY DEF ShellNext, ShellSound, ShellAt, Issued, IssuedNext, Earned, EarnedNext, Rotation
<1> QED
  BY <1>1, <1>2, <1>3, <1>4 DEF Sound

\* Steps of the program, and of the server's other clients.
LEMMA OnwardSteps ==
  ASSUME Types
  PROVE  /\ UNCHANGED serverVars /\ SpentSame => Onward
         /\ UNCHANGED <<serverVars, spent>> => Onward
         /\ SessionsEnd /\ SpentSame /\ UNCHANGED tokens => Onward
<1>1. ASSUME NEW n \in 1..spent.logins PROVE n \in Logins /\ sessions[n].rotation \in Nat
  <2>1. n \in Logins
    BY BoundsAssumption DEF Types, Logins
  <2> QED
    BY <2>1 DEF Types, SessionRec
<1>2. spent.logins \in Logins /\ spent.logins \in Nat /\ tokens.issued \in Nat
  BY SecretTypes DEF Types
<1> QED
  BY <1>1, <1>2 DEF Onward, SpentSame, SessionsEnd, serverVars

\* What a step leaves alone stays sound.
LEMMA SoundParts ==
  ASSUME Types, RotationsEarned, Sound, Onward
  PROVE  /\ UNCHANGED storeVars => StoresNext
         /\ \A sec \in Sec : Saves(sec) /\ (sec = Blank \/ IssuedNext(sec)) => StoresNext
         /\ \A c \in Clients : client'[c].token = client[c].token /\ client'[c].cookie = client[c].cookie
                                 => ClientNext(c)
         /\ \A c \in Clients : client'[c].cookie = NoCookie => ClientNext(c)
         /\ UNCHANGED shell => ShellNext
         /\ shell.pc \in Entering => IssuedNext(shell.got)
         /\ \A c \in Clients : client[c].cookie = NoCookie \/ IssuedNext(Secrets(client[c].token, client[c].cookie))
         /\ ReadSecrets = Blank \/ IssuedNext(ReadSecrets)
         /\ keyring = None \/ IssuedNext(keyring)
         /\ file = Blank \/ (IssuedNext(file) /\ keyring = None)
         /\ disk = Blank \/ IssuedNext(disk)
<1>1. UNCHANGED storeVars => StoresNext
  BY StaysIssued DEF Sound, StoresSound, StoresNext, storeVars
<1>2. ASSUME NEW sec \in Sec, Saves(sec), sec = Blank \/ IssuedNext(sec) PROVE StoresNext
  <2>1. /\ keyring' = None \/ (keyring' = sec /\ sec # Blank)
        /\ file' = Blank \/ (file' = sec /\ keyring' = None)
        /\ disk' \in {disk, file'}
    BY <1>2, StoreWrites
  <2>2. disk = Blank \/ IssuedNext(disk)
    BY StaysIssued DEF Sound, StoresSound
  <2> QED
    BY <1>2, <2>1, <2>2 DEF StoresNext
<1>3. ASSUME NEW c \in Clients
      PROVE  client[c].cookie = NoCookie \/ IssuedNext(Secrets(client[c].token, client[c].cookie))
  BY StaysIssued DEF Sound, ClientSound, Pair
<1>4. shell.pc \in Entering => IssuedNext(shell.got)
  BY StaysIssued DEF Sound, ShellSound
<1>5. UNCHANGED shell => ShellNext
  BY <1>4 DEF Sound, ShellSound, ShellAt, ShellNext
<1>6. ReadSecrets = Blank \/ IssuedNext(ReadSecrets)
  BY StaysIssued DEF Sound, StoresSound, ReadSecrets
<1>7. /\ keyring = None \/ IssuedNext(keyring)
      /\ file = Blank \/ (IssuedNext(file) /\ keyring = None)
      /\ disk = Blank \/ IssuedNext(disk)
  BY StaysIssued DEF Sound, StoresSound
<1> QED
  BY <1>1, <1>2, <1>3, <1>4, <1>5, <1>6, <1>7 DEF ClientNext

\* The calls that a step is not about: whoever holds a refreshMu keeps it.
LEMMA OthersSound ==
  ASSUME Types, RotationsEarned, Sound, Onward,
         tokens'.expired \in Nat, tokens.expired <= tokens'.expired,
         NEW q \in Callers, UNCHANGED call[q],
         ~At(q, "idle") => client'[call[q].on].lock = client[call[q].on].lock
                           \/ client[call[q].on].lock # q
  PROVE  CallNext(q)
<1>1. CallSound(q) /\ call'[q] = call[q] /\ call[q].got \in Sec
  BY DEF Sound, Types, CallRec
<1>2. call[q].pc \in Locked => client'[call[q].on].lock = q
  BY <1>1 DEF CallSound, Locked, Saving, At
<1>3. call[q].pc \in {"answer"} \cup Saving => IssuedNext(call[q].got)
  BY <1>1, StaysIssued DEF CallSound
<1>4. call[q].pc = "refresh" => call[q].got.jwt <= tokens'.expired
  <2>1. tokens.expired \in Nat /\ call[q].got.jwt \in Nat
    BY <1>1 DEF Types, Sec
  <2> QED
    BY <1>1, <2>1 DEF CallSound, At
<1>5. call[q].pc = "post" => EarnedNext(Secrets(0, call[q].got.cookie))
  <2>1. Secrets(0, call[q].got.cookie) \in Sec
    BY <1>1, SecretTypes DEF Sec
  <2> QED
    BY <1>1, <2>1, StaysIssued DEF CallSound, At
<1> QED
  BY <1>1, <1>2, <1>3, <1>4, <1>5 DEF CallNext

\* What p does under the refreshMu of its client is no other caller's business.
LEMMA OneCall ==
  ASSUME Types, RotationsEarned, Sound, Onward,
         tokens'.expired \in Nat, tokens.expired <= tokens'.expired,
         NEW p \in Callers, NEW c \in Clients, client[c].lock \in {p, None},
         \A q \in Callers \ {p} : call'[q] = call[q],
         \A d \in Clients \ {c} : client'[d] = client[d]
  PROVE  /\ \A q \in Callers \ {p} : CallNext(q)
         /\ \A d \in Clients \ {c} : ClientNext(d)
<1>1. ASSUME NEW q \in Callers \ {p} PROVE CallNext(q)
  <2>1. call'[q] = call[q] /\ q # None /\ q # p /\ q \in Callers
    BY NoneAssumption
  <2>2. ~At(q, "idle") => call[q].on \in Clients
    BY <2>1 DEF Types
  <2>3. ~At(q, "idle") => client'[call[q].on].lock = client[call[q].on].lock
                          \/ client[call[q].on].lock # q
    BY <2>1, <2>2
  <2> QED
    BY <2>1, <2>3, OthersSound
<1>2. ASSUME NEW d \in Clients \ {c} PROVE ClientNext(d)
  BY SoundParts
<1> QED
  BY <1>1, <1>2

LEMMA RefreshSound ==
  ASSUME Types, RotationsEarned, Sound, NEW p \in Callers, Refresh(p)
  PROVE  Sound'
<1> DEFINE c == call[p].on
<1>1. /\ At(p, "refresh") /\ c \in Clients /\ client[c].lock = None
      /\ UNCHANGED <<serverVars, storeVars, app, shell, spent, past>>
  BY RefreshEffect
<1>2. Onward /\ tokens'.expired \in Nat /\ tokens.expired <= tokens'.expired
  <2>1. UNCHANGED <<serverVars, spent>>
    BY <1>1
  <2> QED
    BY <2>1, OnwardSteps DEF Types, serverVars
<1>3. StoresNext /\ ShellNext
  BY <1>1, <1>2, SoundParts
<1>4. client[c].token \in Nat /\ client[c].cookie \in Cookies /\ call[p].got \in Sec
  BY <1>1 DEF Types, ClientRec, CallRec
<1>5. CASE /\ client[c].token = call[p].got.jwt /\ client[c].cookie # NoCookie
           /\ Changed(c, client[c].token, client[c].cookie, p)
           /\ Called(p, "post", c, Secrets(call[p].got.jwt, client[c].cookie))
  <2> DEFINE k == client[c].cookie
  <2>1. /\ \A q \in Callers \ {p} : CallNext(q)
        /\ \A d \in Clients \ {c} : ClientNext(d)
    BY <1>1, <1>2, <1>5, OneCall DEF Changed, Called
  <2>2. ClientNext(c)
    BY <1>1, <1>2, <1>5, SoundParts DEF Changed
  <2>3. call'[p].pc = "post" /\ call'[p].on = c /\ call'[p].got.cookie = k /\ client'[c].lock = p
    BY <1>4, <1>5, SecretTypes DEF Called, Changed, Sec
  <2>4. Earned(Pair(c)) /\ Pair(c) = Secrets(client[c].token, k)
    BY <1>1, <1>5 DEF Sound, ClientSound, Issued, Pair
  <2>5. client[c].token <= tokens.expired
    BY <1>1, <1>5 DEF Sound, CallSound
  <2>6. Earned(Secrets(0, k))
    <3>1. Secrets(client[c].token, k).cookie = k /\ Secrets(client[c].token, k).jwt = client[c].token
          /\ Secrets(0, k).cookie = k /\ Secrets(0, k).jwt = 0
      BY DEF Secrets
    <3>2. ~(client[c].token > tokens.expired)
      BY <1>4, <2>5 DEF Types
    <3> HIDE DEF k
    <3> QED
      BY <2>4, <3>1, <3>2 DEF Earned
  <2>7. EarnedNext(Secrets(0, k))
    BY <1>2, <1>4, <2>6, StaysIssued, SecretTypes
  <2>8. CallNext(p)
    BY <2>3, <2>7 DEF CallNext, Saving, Quiet
  <2> QED
    BY <1>3, <2>1, <2>2, <2>8, SoundNext
<1>6. CASE Called(p, "idle", None, Blank) /\ UNCHANGED client
  <2>1. \A q \in Callers \ {p} : CallNext(q)
    BY <1>1, <1>2, <1>6, OneCall DEF Called
  <2>2. CallNext(p)
    BY <1>6 DEF Called, CallNext, Locked, Saving
  <2>3. \A d \in Clients : ClientNext(d)
    BY <1>2, <1>6, SoundParts
  <2> QED
    BY <1>3, <2>1, <2>2, <2>3, SoundNext
<1> QED
  BY <1>5, <1>6, RefreshEffect

\* The answer has the newest token of all, and the newest cookie of its session
\* or one that the server no longer rotates.
LEMMA PostSound ==
  ASSUME Types, RotationsEarned, Sound, NEW p \in Callers, Post(p)
  PROVE  Sound' /\ RotationsEarned'
<1> DEFINE c == call[p].on
           k == call[p].got.cookie
           n == k.session
<1>1. CallSound(p)
  BY DEF Sound
<1>2. /\ At(p, "post") /\ UNCHANGED <<storeVars, app, shell>>
      /\ k \in Cookies /\ n \in 1..spent.logins /\ n \in Logins
      /\ k.rotation <= sessions[n].rotation
      /\ k.rotation = sessions[n].rotation => sessions[n].rotation < spent.expiries
      /\ \A m \in Logins \ {n} : sessions'[m] = sessions[m]
      /\ tokens'.expired = tokens.expired
  BY <1>1, PostOutcome
<1>3. PICK sec \in Sec, pc \in {"answer", "reject"} :
        /\ Outcome(p, pc, sec)
        /\ pc = "answer" => IssuedNext(sec)
        /\ tokens'.issued \in {tokens.issued, tokens.issued + 1}
        /\ \/ sessions'[n].rotation = sessions[n].rotation
           \/ /\ sessions'[n].rotation = sessions[n].rotation + 1
              /\ sessions[n].rotation < spent.expiries
  <2>1. /\ spent.logins \in Logins /\ spent.expiries \in Nat /\ tokens.issued \in Nat /\ tokens.expired \in Nat
        /\ tokens.expired <= tokens.issued /\ sessions[n].rotation \in Nat
        /\ k.rotation \in Nat
    BY <1>2 DEF Types, SessionRec, Cookies
  <2> HIDE DEF n, k
  <2>2. ASSUME NEW sec \in Sec, Outcome(p, "answer", sec), sec.jwt = tokens.issued + 1,
               sec.cookie.session = n, sec.cookie.rotation <= sessions'[n].rotation,
               tokens'.issued = tokens.issued + 1
        PROVE  IssuedNext(sec)
    <3>1. spent'.logins = spent.logins
      BY <2>2 DEF Outcome, SpentSame
    <3>2. sec.jwt \in 1..tokens'.issued /\ sec.jwt > tokens'.expired
      BY <1>2, <2>1, <2>2
    <3> QED
      BY <1>2, <2>2, <3>1, <3>2 DEF IssuedNext, EarnedNext
  <2>3. CASE /\ Current(k) /\ tokens'.issued = tokens.issued + 1
             /\ sessions'[n].rotation = sessions[n].rotation + 1
             /\ Outcome(p, "answer", Secrets(tokens.issued + 1, Cookie(n, k.rotation + 1)))
    <3> DEFINE sec == Secrets(tokens.issued + 1, Cookie(n, k.rotation + 1))
    <3>1. /\ sec \in Sec /\ sec.jwt = tokens.issued + 1 /\ sec.cookie.session = n
          /\ sec.cookie.rotation = k.rotation + 1
      <4>1. tokens.issued + 1 \in Nat /\ k.rotation + 1 \in Nat
        BY <2>1
      <4>2. /\ Cookie(n, k.rotation + 1) \in Cookies
            /\ Cookie(n, k.rotation + 1).session = n /\ Cookie(n, k.rotation + 1).rotation = k.rotation + 1
        BY <1>2, <4>1, SecretTypes
      <4> QED
        BY <4>1, <4>2, SecretTypes
    <3>2. k.rotation = sessions[n].rotation
      BY <2>3 DEF Current, n
    <3> HIDE DEF sec
    <3>3. IssuedNext(sec)
      BY <2>1, <2>2, <2>3, <3>1, <3>2 DEF sec
    <3> QED
      BY <1>2, <2>3, <3>1, <3>2, <3>3 DEF sec
  <2>4. CASE /\ InGrace(k) /\ ~Current(k) /\ tokens'.issued = tokens.issued + 1
             /\ sessions' = sessions
             /\ Outcome(p, "answer", Secrets(tokens.issued + 1, k))
    <3> DEFINE sec == Secrets(tokens.issued + 1, k)
    <3>1. sec \in Sec /\ sec.jwt = tokens.issued + 1 /\ sec.cookie = k
      BY <1>2, <2>1, SecretTypes
    <3> HIDE DEF sec
    <3>2. sec.cookie.session = n /\ sec.cookie.rotation <= sessions'[n].rotation
      BY <1>2, <2>4, <3>1 DEF n
    <3>3. IssuedNext(sec)
      BY <2>2, <2>4, <3>1, <3>2 DEF sec
    <3> QED
      BY <2>4, <3>1, <3>3 DEF sec
  <2>5. CASE /\ tokens'.issued = tokens.issued /\ sessions'[n].rotation = sessions[n].rotation
             /\ Outcome(p, "reject", Secrets(0, k))
    <3>1. Secrets(0, k) \in Sec
      BY <1>2, SecretTypes
    <3> QED
      BY <2>5, <3>1
  <2> QED
    BY <1>1, <2>3, <2>4, <2>5, PostOutcome DEF n, k
<1>4. /\ spent'.logins = spent.logins /\ spent'.expiries = spent.expiries
      /\ c \in Clients
  BY <1>3 DEF Outcome, SpentSame
<1>5. /\ Onward /\ tokens'.expired \in Nat /\ tokens.expired <= tokens'.expired
      /\ RotationsEarned'
  <2>1. /\ spent.logins \in Logins /\ spent.expiries \in Nat /\ tokens.issued \in Nat /\ tokens.expired \in Nat
        /\ \A m \in 1..spent.logins : m \in Logins
        /\ \A m \in Logins : sessions[m].rotation \in Nat
    BY BoundsAssumption DEF Types, SessionRec, Logins
  <2> HIDE DEF n
  <2>2. \A m \in Logins : /\ sessions'[m].rotation \in Nat
                          /\ sessions[m].rotation <= sessions'[m].rotation
                          /\ sessions'[m].rotation <= spent.expiries
    BY <1>2, <1>3, <2>1 DEF RotationsEarned
  <2>3. Onward
    <3>1. /\ spent.logins <= spent'.logins /\ spent'.logins \in Logins
          /\ tokens.issued <= tokens'.issued /\ tokens'.issued \in Nat
      BY <1>3, <1>4, <2>1 DEF Logins
    <3>2. tokens'.expired = tokens.expired /\ spent'.expiries = spent.expiries
      BY <1>2, <1>4
    <3> QED
      BY <2>1, <2>2, <3>1, <3>2 DEF Onward
  <2> QED
    BY <1>2, <1>4, <2>1, <2>2, <2>3 DEF RotationsEarned
<1>6. StoresNext /\ ShellNext
  BY <1>2, <1>5, SoundParts
<1>7. client[c].lock = p
  BY <1>1, <1>2 DEF CallSound, At, Locked
<1>8. /\ \/ Called(p, pc, c, sec) /\ UNCHANGED client
         \/ Called(p, "idle", None, Blank) /\ Changed(c, client[c].token, client[c].cookie, None)
  BY <1>3 DEF Outcome
<1>9. /\ \A q \in Callers \ {p} : CallNext(q)
      /\ \A d \in Clients \ {c} : ClientNext(d)
  BY <1>4, <1>5, <1>7, <1>8, OneCall DEF Changed, Called
<1>10. ClientNext(c)
  BY <1>4, <1>5, <1>8, SoundParts DEF Changed
<1>11. CallNext(p)
  <2>1. CASE Called(p, pc, c, sec) /\ UNCHANGED client
    <3>1. pc = "answer" => IssuedNext(sec)
      BY <1>3
    <3>2. call'[p].pc = pc /\ call'[p].on = c /\ call'[p].got = sec /\ client'[c].lock = p
      BY <1>7, <2>1 DEF Called
    <3> QED
      BY <3>1, <3>2 DEF CallNext, Saving
  <2>2. CASE Called(p, "idle", None, Blank)
    BY <2>2 DEF Called, CallNext, Locked, Saving
  <2> QED
    BY <1>8, <2>1, <2>2
<1> QED
  BY <1>5, <1>6, <1>9, <1>10, <1>11, SoundNext

LEMMA RotationsStay ==
  ASSUME Types, RotationsEarned, spent'.expiries \in {spent.expiries, spent.expiries + 1},
         \A n \in Logins : sessions'[n].rotation = sessions[n].rotation
  PROVE  RotationsEarned'
<1>1. ASSUME NEW n \in Logins PROVE sessions'[n].rotation <= spent'.expiries
  <2>1. sessions[n].rotation \in Nat /\ sessions[n].rotation <= spent.expiries /\ spent.expiries \in Nat
    BY DEF Types, SessionRec, RotationsEarned
  <2> QED
    BY <2>1
<1> QED
  BY <1>1 DEF RotationsEarned

\* The steps of a call that the server has no part in.
LEMMA OwnStepsSound ==
  ASSUME Types, RotationsEarned, Sound, NEW p \in Callers,
         Call(p) \/ Unreachable(p) \/ Answered(p) \/ SaveRefreshed(p) \/ CallbackWs(p)
  PROVE  Sound' /\ RotationsEarned'
<1> DEFINE c == call[p].on
           got == call[p].got
<1>1. /\ CallSound(p) /\ got \in Sec
      /\ call[p].pc \in {"answer"} \cup Saving => IssuedNext(got) \/ ~Onward
      /\ call[p].pc \in Locked => client[c].lock = p
  BY StaysIssued DEF Sound, CallSound, Types, CallRec
<1>2. call[p].pc \in Saving => got.jwt # 0
  BY <1>1 DEF CallSound, Issued, Types
<1>3. UNCHANGED serverVars /\ UNCHANGED shell /\ SpentSame
  <2>1. CASE Call(p)
    BY <2>1, CallEffect DEF Types, SpentSame
  <2>2. CASE Unreachable(p)
    BY <2>2, UnreachableEffect DEF SpentSame
  <2>3. CASE Answered(p)
    BY <2>3, AnsweredEffect DEF Types, SpentSame
  <2>4. CASE SaveRefreshed(p)
    BY <2>4, SaveEffect, StoreWrites DEF SpentSame
  <2>5. CASE CallbackWs(p)
    <3>1. call[p].pc \in Saving
      BY <2>5 DEF CallbackWs, At, Saving
    <3> QED
      BY <1>2, <2>5, <3>1, CallbackEffect DEF Types, SpentSame
  <2> QED
    BY <2>1, <2>2, <2>3, <2>4, <2>5
<1>4. Onward /\ tokens'.expired \in Nat /\ tokens.expired <= tokens'.expired
  BY <1>3, OnwardSteps DEF Types, serverVars
<1>5. ShellNext /\ RotationsEarned'
  BY <1>3, <1>4, SoundParts, RotationsStay DEF SpentSame, serverVars
<1>6. \A on, token, cookie, lock : Called(p, "idle", on, token) => CallNext(p)
  BY DEF Called, CallNext, Locked, Saving
<1>7. ASSUME c \in Clients, client[c].lock = p,
             \A q \in Callers \ {p} : call'[q] = call[q],
             \A d \in Clients \ {c} : client'[d] = client[d],
             ClientNext(c), CallNext(p), StoresNext
      PROVE  Sound'
  <2>1. /\ \A q \in Callers \ {p} : CallNext(q)
        /\ \A d \in Clients \ {c} : ClientNext(d)
    BY <1>4, <1>7, OneCall
  <2> QED
    BY <1>5, <1>7, <2>1, SoundNext
<1>8. CASE Call(p)
  <2>1. PICK d \in Clients :
          client[d].token <= tokens.expired /\ Called(p, "refresh", d, Secrets(client[d].token, NoCookie))
    BY <1>8, CallEffect
  <2>2. UNCHANGED <<client, storeVars>>
    BY <1>8, CallEffect
  <2>3. \A q \in Callers \ {p} : CallNext(q)
    BY <1>4, <2>1, <2>2, OthersSound DEF Called
  <2>4. CallNext(p)
    <3>1. client[d].token \in Nat /\ Secrets(client[d].token, NoCookie).jwt = client[d].token
      BY SecretTypes DEF Types, ClientRec
    <3> QED
      BY <1>3, <2>1, <3>1 DEF Called, CallNext, Locked, Saving, serverVars
  <2>5. StoresNext /\ \A e \in Clients : ClientNext(e)
    BY <1>4, <2>2, SoundParts
  <2> QED
    BY <1>5, <2>3, <2>4, <2>5, SoundNext
<1>9. CASE Unreachable(p)
  <2>1. /\ At(p, "post") /\ c \in Clients /\ UNCHANGED storeVars
        /\ Called(p, "idle", None, Blank) /\ Changed(c, client[c].token, client[c].cookie, None)
    BY <1>9, UnreachableEffect
  <2>2. StoresNext /\ ClientNext(c) /\ CallNext(p)
    BY <1>4, <1>6, <2>1, SoundParts DEF Changed
  <2>3. client[c].lock = p
    BY <1>1, <2>1 DEF At, Locked
  <2> QED
    BY <1>5, <1>7, <2>1, <2>2, <2>3 DEF Called, Changed
<1>10. CASE Answered(p)
  <2>1. c \in Clients /\ UNCHANGED storeVars
    BY <1>10, AnsweredEffect
  <2>2. client[c].lock = p /\ StoresNext
    BY <1>1, <1>4, <1>10, <2>1, SoundParts DEF Answered, At, Locked
  <2>3. CASE /\ At(p, "answer") /\ Called(p, "save", c, got)
             /\ Changed(c, got.jwt, got.cookie, client[c].lock)
    <3>1. IssuedNext(got) /\ got = Secrets(got.jwt, got.cookie)
      BY <1>1, <1>4, <2>3 DEF At, Sec, Secrets
    <3>2. ClientNext(c)
      BY <2>3, <3>1 DEF Changed, ClientNext
    <3>3. CallNext(p)
      BY <2>2, <2>3, <3>1 DEF Called, Changed, CallNext, Saving, Locked
    <3> QED
      BY <1>5, <1>7, <2>1, <2>2, <2>3, <3>2, <3>3 DEF Called, Changed
  <2>4. CASE Called(p, "idle", None, Blank) /\ Changed(c, client[c].token, NoCookie, None)
    <3>1. ClientNext(c) /\ CallNext(p)
      BY <1>6, <2>4 DEF Changed, ClientNext
    <3> QED
      BY <1>5, <1>7, <2>1, <2>2, <2>4, <3>1 DEF Called, Changed
  <2> QED
    BY <1>10, <2>3, <2>4, AnsweredEffect
<1>11. CASE SaveRefreshed(p)
  <2>1. /\ At(p, "save") /\ Called(p, "wsStop", c, got) /\ Saves(got)
        /\ UNCHANGED client
    BY <1>11, SaveEffect
  <2>2. c \in Clients /\ client[c].lock = p /\ IssuedNext(got)
    BY <1>1, <1>4, <2>1 DEF At, Saving, Locked, Types
  <2>3. StoresNext /\ ClientNext(c)
    BY <1>1, <1>4, <2>1, <2>2, SoundParts
  <2>4. CallNext(p)
    BY <2>1, <2>2 DEF Called, CallNext, Saving, Locked
  <2> QED
    BY <1>5, <1>7, <2>1, <2>2, <2>3, <2>4 DEF Called
<1>12. CASE CallbackWs(p)
  <2>1. call[p].pc \in Saving /\ c \in Clients /\ UNCHANGED storeVars
    BY <1>2, <1>12, CallbackEffect DEF CallbackWs, At, Saving
  <2>2. client[c].lock = p /\ IssuedNext(got) /\ StoresNext
    BY <1>1, <1>4, <2>1, SoundParts DEF Locked
  <2>3. CASE Called(p, "wsStart", c, got) /\ UNCHANGED client
    <3>1. ClientNext(c)
      BY <1>4, <2>1, <2>3, SoundParts
    <3>2. CallNext(p)
      BY <2>2, <2>3 DEF Called, CallNext, Saving, Locked
    <3> QED
      BY <1>5, <1>7, <2>1, <2>2, <2>3, <3>1, <3>2 DEF Called
  <2>4. CASE Called(p, "idle", None, Blank) /\ Changed(c, client[c].token, client[c].cookie, None)
    <3>1. ClientNext(c) /\ CallNext(p)
      BY <1>4, <1>6, <2>1, <2>4, SoundParts DEF Changed
    <3> QED
      BY <1>5, <1>7, <2>1, <2>2, <2>4, <3>1 DEF Called, Changed
  <2> QED
    BY <1>2, <1>12, <2>1, <2>3, <2>4, CallbackEffect
<1> QED
  BY <1>5, <1>8, <1>9, <1>10, <1>11, <1>12

\* A login: its session is one that no older cookie names.
LEMMA LoginRequestSound ==
  ASSUME Types, RotationsEarned, Sound, LoginRequest
  PROVE  Sound' /\ RotationsEarned'
<1> DEFINE n == spent.logins + 1
           sec == Secrets(tokens.issued + 1, Cookie(n, 0))
<1>1. /\ UNCHANGED <<storeVars, client, app, call>>
      /\ n \in Logins /\ sessions'[n].rotation = 0 /\ (\A m \in Logins \ {n} : sessions'[m] = sessions[m])
      /\ tokens' = [tokens EXCEPT !.issued = @ + 1]
      /\ ShellSet("loginSettings", sec)
      /\ spent'.logins = n /\ spent'.expiries = spent.expiries
  BY LoginRequestEffect
<1>2. /\ spent.logins \in Logins /\ spent.logins \in Nat /\ spent.expiries \in Nat
      /\ tokens.issued \in Nat /\ tokens.expired \in Nat /\ tokens.expired <= tokens.issued
      /\ \A m \in Logins : sessions[m].rotation \in Nat
  BY SecretTypes DEF Types, SessionRec
<1>3. tokens'.issued = tokens.issued + 1 /\ tokens'.expired = tokens.expired
  BY <1>1 DEF Types
<1>4. /\ sec \in Sec /\ sec.jwt = tokens.issued + 1
      /\ sec.cookie.session = n /\ sec.cookie.rotation = 0
  <2>1. tokens.issued + 1 \in Nat /\ 0 \in Nat
    BY <1>2
  <2> QED
    BY <1>1, <2>1, SecretTypes
<1> HIDE DEF n, sec
<1>5. \A m \in 1..spent.logins : m \in Logins /\ m # n
  BY <1>2, BoundsAssumption DEF Logins, n
<1>6. Onward
  <2>1. \A m \in 1..spent.logins : sessions'[m].rotation \in Nat /\ sessions'[m].rotation = sessions[m].rotation
    BY <1>1, <1>2, <1>5
  <2>2. /\ spent.logins <= spent'.logins /\ spent'.logins \in Logins
        /\ tokens.issued <= tokens'.issued /\ tokens'.issued \in Nat
    BY <1>1, <1>2, <1>3 DEF n
  <2>3. \A m \in 1..spent.logins : sessions[m].rotation <= sessions'[m].rotation
    BY <2>1
  <2> QED
    BY <1>1, <1>3, <2>1, <2>2, <2>3 DEF Onward
<1>7. IssuedNext(sec)
  <2>1. sec.jwt \in 1..tokens'.issued /\ sec.jwt > tokens'.expired
    BY <1>2, <1>3, <1>4
  <2>2. n \in 1..spent'.logins
    BY <1>1, <1>2 DEF n
  <2>3. 0 <= sessions'[n].rotation
    BY <1>1
  <2> QED
    BY <1>4, <2>1, <2>2, <2>3 DEF IssuedNext, EarnedNext
<1>8. StoresNext /\ \A c \in Clients : ClientNext(c)
  BY <1>1, <1>6, SoundParts
<1>9. ShellNext
  BY <1>1, <1>7 DEF ShellNext, ShellSet, Entering
<1>10. \A q \in Callers : CallNext(q)
  BY <1>1, <1>2, <1>3, <1>6, OthersSound
<1>11. RotationsEarned'
  BY <1>1, <1>2 DEF RotationsEarned
<1> QED
  BY <1>8, <1>9, <1>10, <1>11, SoundNext

\* The other steps of the shell, which the server has no part in.
LEMMA OwnShellSound ==
  ASSUME Types, RotationsEarned, Sound,
         LogoutTake \/ LoginSave \/ LogoutSave \/ LoginAPI \/ LogoutAPI \/ LoginWs \/ LoginEngine \/ LogoutStop
  PROVE  Sound' /\ RotationsEarned'
<1>1. shell.pc \in Entering => shell.got.jwt # 0
  BY DEF Sound, ShellSound, Issued, Types
<1>2. LoginWs => shell.got.jwt # 0
  BY <1>1 DEF LoginWs, ShellAt, Entering
<1>3. UNCHANGED <<serverVars, call>> /\ SpentSame
  <2>1. CASE LogoutTake
    BY <2>1, LogoutTakeEffect DEF Types, SpentSame
  <2>2. CASE LoginSave \/ LogoutSave
    BY <2>2, ShellSaveEffect, StoreWrites DEF SpentSame
  <2>3. CASE LoginAPI \/ LogoutAPI
    BY <2>3, ShellAPIEffect DEF Types, SpentSame
  <2>4. CASE LoginWs
    BY <1>2, <2>4, ShellWsEffect DEF Types, SpentSame
  <2>5. CASE LoginEngine \/ LogoutStop
    BY <2>5, ShellEndEffect DEF Types, SpentSame
  <2> QED
    BY <2>1, <2>2, <2>3, <2>4, <2>5
<1>4. Onward /\ tokens'.expired \in Nat /\ tokens.expired <= tokens'.expired
  BY <1>3, OnwardSteps DEF Types, serverVars
<1>5. RotationsEarned'
  BY <1>3, RotationsStay DEF SpentSame, serverVars
<1>6. ASSUME \A q \in Callers : ~At(q, "idle") => client'[call[q].on].lock = client[call[q].on].lock
      PROVE  \A q \in Callers : CallNext(q)
  BY <1>3, <1>4, <1>6, OthersSound
<1>7. /\ UNCHANGED storeVars => StoresNext
      /\ UNCHANGED client => (\A d \in Clients : ClientNext(d)) /\ \A q \in Callers : CallNext(q)
      /\ shell.pc \in Entering => IssuedNext(shell.got)
  BY <1>4, <1>6, SoundParts
<1>8. CASE LogoutTake
  <2> DEFINE c == app.api
  <2>1. /\ c \in Clients /\ UNCHANGED storeVars
        /\ ShellSet("logoutPost", Secrets(0, client[c].cookie))
        /\ Changed(c, client[c].token, NoCookie, client[c].lock)
    BY <1>8, LogoutTakeEffect
  <2>2. \A q \in Callers : CallNext(q)
    BY <1>6, <2>1 DEF Changed, Types
  <2>3. \A d \in Clients : ClientNext(d)
    BY <1>4, <2>1, SoundParts DEF Changed
  <2>4. client[c].cookie = NoCookie \/ client[c].cookie.session \in Logins
    <3>1. Secrets(client[c].token, client[c].cookie).cookie = client[c].cookie
      BY DEF Secrets
    <3>2. client[c].cookie = NoCookie \/ client[c].cookie.session \in 1..spent.logins
      BY <2>1, <3>1, Zenon DEF Sound, ClientSound, Pair, Issued, Earned
    <3> QED
      BY <3>2, BoundsAssumption DEF Types, Logins
  <2>5. ShellNext
    BY <2>1, <2>4 DEF ShellNext, ShellSet, Entering, Secrets
  <2> QED
    BY <1>5, <1>7, <2>1, <2>2, <2>3, <2>5, SoundNext
<1>9. CASE LoginSave \/ LogoutSave
  <2>1. UNCHANGED client
    BY <1>9, ShellSaveEffect
  <2>2. CASE /\ ShellAt("loginSave") /\ Saves(shell.got) /\ shell.got \in Sec
             /\ ShellSet("loginAPI", shell.got) \/ ShellSet("idle", Blank)
    <3>1. IssuedNext(shell.got)
      BY <1>7, <2>2 DEF ShellAt, Entering
    <3>2. StoresNext
      BY <1>4, <2>2, <3>1, SoundParts
    <3>3. ShellNext
      BY <2>2, <3>1 DEF ShellNext, ShellSet, Entering
    <3> QED
      BY <1>5, <1>7, <2>1, <3>2, <3>3, SoundNext
  <2>3. CASE /\ Saves(Blank) /\ Blank \in Sec
             /\ ShellSet("logoutAPI", shell.got) \/ ShellSet("idle", Blank)
    <3>1. StoresNext
      BY <1>4, <2>3, SoundParts
    <3>2. ShellNext
      BY <2>3 DEF ShellNext, ShellSet, Entering
    <3> QED
      BY <1>5, <1>7, <2>1, <3>1, <3>2, SoundNext
  <2> QED
    BY <1>9, <2>2, <2>3, ShellSaveEffect
<1>10. CASE LoginAPI \/ LogoutAPI
  <2>1. UNCHANGED storeVars /\ NewAPI
    BY <1>10, ShellAPIEffect
  <2>2. /\ app'.api \in Clients /\ app'.api \notin InUse
        /\ client'[app'.api].token = ReadSecrets.jwt /\ client'[app'.api].cookie = ReadSecrets.cookie
        /\ \A d \in Clients : d = app'.api \/ client'[d] = client[d]
                              \/ (d \notin InUse /\ client'[d].cookie = NoCookie)
    BY <2>1, NewClients DEF AppRec
  <2>3. \A q \in Callers : CallNext(q)
    <3>1. \A q \in Callers : call[q].on \in InUse
      BY DEF InUse
    <3>2. \A q \in Callers : ~At(q, "idle") => call[q].on \in Clients
      BY DEF Types
    <3> QED
      BY <1>6, <2>2, <3>1, <3>2
  <2>4. ReadSecrets \in Sec /\ ReadSecrets = Secrets(ReadSecrets.jwt, ReadSecrets.cookie)
    BY DEF Types, ReadSecrets, Sec, Secrets
  <2>5. ClientNext(app'.api)
    BY <1>4, <2>2, <2>4, SoundParts, SecretTypes DEF ClientNext
  <2>6. \A d \in Clients : ClientNext(d)
    BY <1>4, <2>2, <2>5, SoundParts
  <2>7. ShellNext
    <3>1. shell'.pc \in Entering => shell.pc \in Entering /\ shell'.got = shell.got
      BY <1>10, ShellAPIEffect DEF ShellSet, ShellAt, Entering
    <3>2. shell'.pc # "logoutPost"
      BY <1>10, ShellAPIEffect DEF ShellSet
    <3> QED
      BY <1>7, <3>1, <3>2 DEF ShellNext
  <2> QED
    BY <1>5, <1>7, <2>1, <2>3, <2>6, <2>7, SoundNext
<1>11. CASE LoginWs
  <2>1. UNCHANGED <<storeVars, client>>
    BY <1>2, <1>11, ShellWsEffect
  <2>2. shell.pc \in Entering /\ shell'.pc \in Entering /\ shell'.got = shell.got
    BY <1>2, <1>11, ShellWsEffect DEF ShellSet, ShellAt, Entering
  <2>3. ShellNext
    BY <1>7, <2>2 DEF ShellNext, Entering
  <2> QED
    BY <1>5, <1>7, <2>1, <2>3, SoundNext
<1>12. CASE LoginEngine \/ LogoutStop
  <2>1. UNCHANGED <<storeVars, client>> /\ ShellSet("idle", Blank)
    BY <1>12, ShellEndEffect
  <2>2. ShellNext
    BY <2>1 DEF ShellNext, ShellSet, Entering
  <2> QED
    BY <1>5, <1>7, <2>1, <2>2, SoundNext
<1> QED
  BY <1>8, <1>9, <1>10, <1>11, <1>12

\* The settings are written, whatever they hold.
LEMMA SettingsSound ==
  ASSUME Types, RotationsEarned, Sound, SaveSettings \/ LoginSettings \/ LogoutSettings
  PROVE  Sound' /\ RotationsEarned'
<1>1. /\ UNCHANGED <<serverVars, keyring, file, client, call>>
      /\ disk' \in {disk, file} /\ SpentSame
  BY SettingsEffect DEF SaveSettings, SpentSame, Types
<1>2. Onward /\ tokens'.expired \in Nat /\ tokens.expired <= tokens'.expired
  BY <1>1, OnwardSteps DEF Types, serverVars
<1>3. (\A d \in Clients : ClientNext(d)) /\ \A q \in Callers : CallNext(q)
  BY <1>1, <1>2, SoundParts, OthersSound
<1>4. StoresNext
  BY <1>1, <1>2, SoundParts DEF StoresNext
<1>5. ShellNext
  <2>1. CASE UNCHANGED shell
    BY <1>2, <2>1, SoundParts
  <2>2. CASE LoginSettings
    <3>1. shell.pc \in Entering /\ IssuedNext(shell.got)
      BY <1>2, <2>2, SoundParts DEF LoginSettings, SettingsSaved, ShellAt, Entering
    <3>2. ShellSet("loginSave", shell.got) \/ ShellSet("idle", Blank)
      BY <2>2, SettingsEffect DEF LoginSettings, SettingsSaved, ShellAt
    <3> QED
      BY <3>1, <3>2 DEF ShellNext, ShellSet, Entering
  <2>3. CASE LogoutSettings
    <3>1. ShellSet("logoutSave", shell.got) \/ ShellSet("idle", Blank)
      BY <2>3, SettingsEffect DEF LogoutSettings, SettingsSaved, ShellAt
    <3> QED
      BY <3>1 DEF ShellNext, ShellSet, Entering
  <2> QED
    BY <2>1, <2>2, <2>3 DEF SaveSettings
<1>6. RotationsEarned'
  BY <1>1, RotationsStay DEF SpentSame, serverVars
<1> QED
  BY <1>3, <1>4, <1>5, <1>6, SoundNext

\* The steps that end a session or its grace, and the expiry of the tokens.
LEMMA ServerSound ==
  ASSUME Types, RotationsEarned, Sound,
         LogoutPost \/ Expire \/ \E n \in Logins : GraceEnds(n) \/ Revoke(n)
  PROVE  Sound' /\ RotationsEarned'
<1>1. CASE LogoutPost
  <2>1. /\ ShellSet("logoutSettings", shell.got) /\ UNCHANGED <<tokens, storeVars, client, app, call, past>>
        /\ SessionsEnd /\ SpentSame
    BY <1>1, LogoutPostEffect DEF Sound
  <2>2. Onward /\ tokens'.expired \in Nat /\ tokens.expired <= tokens'.expired
    BY <2>1, OnwardSteps DEF Types
  <2>3. ShellNext
    BY <2>1 DEF ShellNext, ShellSet, Entering
  <2>4. StoresNext /\ (\A d \in Clients : ClientNext(d)) /\ \A q \in Callers : CallNext(q)
    BY <2>1, <2>2, SoundParts, OthersSound
  <2>5. RotationsEarned'
    BY <2>1, RotationsStay DEF SessionsEnd, SpentSame
  <2> QED
    BY <2>3, <2>4, <2>5, SoundNext
<1>2. ASSUME NEW n \in Logins, GraceEnds(n) \/ Revoke(n)
      PROVE  Sound' /\ RotationsEarned'
  <2>1. SessionsEnd /\ SpentSame /\ UNCHANGED <<tokens, storeVars, client, app, call, shell, past>>
    BY <1>2, ServerEffect
  <2>2. Onward /\ tokens'.expired \in Nat /\ tokens.expired <= tokens'.expired
    BY <2>1, OnwardSteps DEF Types
  <2>3. /\ StoresNext /\ (\A d \in Clients : ClientNext(d)) /\ \A q \in Callers : CallNext(q)
        /\ ShellNext
    BY <2>1, <2>2, SoundParts, OthersSound
  <2>4. RotationsEarned'
    BY <2>1, RotationsStay DEF SessionsEnd, SpentSame
  <2> QED
    BY <2>3, <2>4, SoundNext
<1>3. CASE Expire
  <2>1. /\ tokens' = [tokens EXCEPT !.expired = tokens.issued]
        /\ UNCHANGED <<sessions, storeVars, client, app, call, shell, past>>
        /\ Spend("expiries", MaxExpiries)
    BY <1>3 DEF Expire
  <2>2. tokens'.issued = tokens.issued /\ tokens'.expired = tokens.issued
    BY <2>1 DEF Types
  <2>3. spent'.logins = spent.logins /\ spent'.expiries = spent.expiries + 1
    BY <2>1, SpendTypes DEF Types
  <2>4. Onward /\ tokens'.expired \in Nat /\ tokens.expired <= tokens'.expired
    <3>1. ASSUME NEW n \in 1..spent.logins PROVE n \in Logins /\ sessions[n].rotation \in Nat
      <4>1. n \in Logins
        BY BoundsAssumption DEF Types, Logins
      <4> QED
        BY <4>1 DEF Types, SessionRec
    <3>2. spent.logins \in Logins /\ spent.logins \in Nat /\ tokens.issued \in Nat
      BY SecretTypes DEF Types
    <3> QED
      BY <2>1, <2>2, <2>3, <3>1, <3>2 DEF Onward, Types
  <2>5. /\ StoresNext /\ (\A d \in Clients : ClientNext(d)) /\ \A q \in Callers : CallNext(q)
        /\ ShellNext
    BY <2>1, <2>4, SoundParts, OthersSound
  <2>6. RotationsEarned'
    BY <2>1, <2>3, RotationsStay
  <2> QED
    BY <2>5, <2>6, SoundNext
<1> QED
  BY <1>1, <1>2, <1>3

LEMMA RestartSound ==
  ASSUME Types, RotationsEarned, Sound, Restart
  PROVE  Sound' /\ RotationsEarned'
<1>1. UNCHANGED serverVars /\ SpentSame
  BY Restarting DEF Sound, SpentSame
<1>2. Onward
  BY <1>1, OnwardSteps
<1>3. RotationsEarned'
  BY <1>1, RotationsStay DEF SpentSame, serverVars
<1>4. PICK sec \in Sec :
        /\ sec \in {ReadSecrets, Blank, disk} \cup Pending
        /\ Started(sec)
        /\ keyring' \in {keyring, None} \/ (keyring' = sec /\ sec # Blank)
        /\ file' = Blank \/ (file' = sec /\ keyring' = None)
        /\ disk' \in {Blank, sec}
  BY Restarting DEF Sound
<1>5. sec = Blank \/ IssuedNext(sec)
  <2>1. /\ ReadSecrets = Blank \/ IssuedNext(ReadSecrets)
        /\ disk = Blank \/ IssuedNext(disk)
    BY <1>2, SoundParts
  <2>2. \A p \in Callers : At(p, "save") => IssuedNext(call[p].got)
    BY <1>2, StaysIssued DEF Sound, CallSound, Saving, At
  <2>3. ShellAt("loginSave") => IssuedNext(shell.got)
    BY <1>2, SoundParts DEF Entering, ShellAt
  <2> QED
    BY <1>4, <2>1, <2>2, <2>3 DEF Pending
<1>6. StoresNext
  <2>1. keyring = None \/ IssuedNext(keyring)
    BY <1>2, StaysIssued DEF Sound, StoresSound
  <2> QED
    BY <1>4, <1>5, <2>1 DEF StoresNext
<1>7. \A c \in Clients : ClientNext(c)
  <2>1. /\ client'[app'.api].token = sec.jwt /\ client'[app'.api].cookie = sec.cookie
        /\ \A d \in Clients \ {app'.api} : client'[d].cookie = NoCookie
    BY <1>4, StartedTypes
  <2>2. sec = Secrets(sec.jwt, sec.cookie) /\ Blank.cookie = NoCookie
    BY SecretTypes DEF Sec, Secrets
  <2> QED
    BY <1>5, <2>1, <2>2 DEF ClientNext
<1>8. \A p \in Callers : CallNext(p)
  BY <1>4, StartedTypes DEF At, CallNext, Locked, Saving
<1>9. ShellNext
  BY <1>4, StartedTypes DEF ShellNext, Entering
<1> QED
  BY <1>3, <1>6, <1>7, <1>8, <1>9, SoundNext

---------------------------------------------------------------------------
(* The theorems about tokens and rotations.                                *)

RotationInv == Types /\ RotationsEarned /\ Sound

LEMMA RotationInit == ASSUME Init PROVE RotationInv
<1> DEFINE c == CHOOSE d \in Clients : TRUE
           first == Secrets(1, Cookie(1, 0))
<1>1. c \in Clients
  BY SecretTypes
<1>2. /\ first \in Sec /\ first.jwt = 1 /\ first.cookie.session = 1 /\ first.cookie.rotation = 0
      /\ first.cookie # NoCookie
  BY SecretTypes
<1>3. sessions \in [Logins -> SessionRec] /\ \A n \in Logins : sessions[n].rotation = 0
  <2>1. ASSUME NEW on \in BOOLEAN
        PROVE  LET row == [live |-> on, rotation |-> 0, grace |-> FALSE] IN
               row \in SessionRec /\ row.rotation = 0
    BY DEF SessionRec
  <2>2. \A n \in Logins : (n = 1) \in BOOLEAN
    OBVIOUS
  <2>3. sessions = [n \in Logins |-> [live |-> n = 1, rotation |-> 0, grace |-> FALSE]]
    BY DEF Init
  <2>4. \A n \in Logins : sessions[n] \in SessionRec /\ sessions[n].rotation = 0
    BY <2>1, <2>2, <2>3, Zenon
  <2> QED
    BY <2>3, <2>4
<1>4. tokens \in [issued : Nat, expired : Nat] /\ tokens.issued = 1 /\ tokens.expired = 0
  BY DEF Init
<1>5. keyring = first /\ file = Blank /\ disk = Blank /\ torn = FALSE
  BY DEF Init
<1>6. app \in AppRec /\ app.api = c /\ app.engineApi = c /\ app.running /\ app.ws = 1 /\ app.loops = {1}
  <2>1. ASSUME NEW on \in BOOLEAN
        PROVE  LET new == [api |-> c, engineApi |-> c, running |-> on, ws |-> 1, loops |-> {1}] IN
               new \in AppRec /\ new.api = c /\ new.engineApi = c /\ new.running = on
               /\ new.ws = 1 /\ new.loops = {1}
    BY <1>1 DEF AppRec
  <2>2. PICK on \in BOOLEAN : on = TRUE
    BY Zenon
  <2>3. app = [api |-> c, engineApi |-> c, running |-> TRUE, ws |-> 1, loops |-> {1}]
    BY DEF Init
  <2> HIDE DEF c
  <2> QED
    BY <2>1, <2>2, <2>3, Zenon
<1>7. /\ client \in [Clients -> ClientRec]
      /\ client[c].token = 1 /\ client[c].cookie = first.cookie
      /\ \A d \in Clients \ {c} : client[d].cookie = NoCookie
      /\ \A d \in Clients : client[d].lock = None
  <2>1. client = [d \in Clients |-> NewClient(IF d = c THEN first ELSE Blank)]
    BY <1>5 DEF Init
  <2>2. \A new \in Sec : /\ NewClient(new) \in ClientRec /\ NewClient(new).lock = None
                         /\ NewClient(new).token = new.jwt /\ NewClient(new).cookie = new.cookie
    BY DEF NewClient, ClientRec, Sec
  <2> HIDE DEF c, first
  <2> QED
    BY <1>1, <1>2, <2>1, <2>2, SecretTypes
<1>8. call \in [Callers -> CallRec] /\ (\A p \in Callers : call[p].pc = "idle")
  <2>1. Idle \in CallRec /\ Idle.pc = "idle"
    BY SecretTypes DEF Idle, CallRec, Quiet
  <2> QED
    BY <2>1 DEF Init
<1>9. shell \in ShellRec /\ shell.pc = "idle"
  BY SecretTypes DEF Init, Idle, ShellRec
<1>10. /\ spent \in [logins : Logins, expiries : Nat, faults : Nat]
       /\ spent.logins = 1 /\ spent.expiries = 0
  BY SecretTypes DEF Init
<1>11. past \in PastRec
  <2>1. ASSUME NEW off \in BOOLEAN
        PROVE  [reuse |-> off, lost |-> off, overlap |-> off] \in PastRec
    BY DEF PastRec
  <2>2. PICK off \in BOOLEAN : off = FALSE
    BY Zenon
  <2> QED
    BY <2>1, <2>2, Zenon DEF Init
<1> HIDE DEF c, first
<1>12. Types
  <2>1. /\ keyring \in Sec \cup {None} /\ file \in Sec /\ disk \in Sec
        /\ tokens.expired <= tokens.issued
        /\ app.loops \subseteq 1..tokens.issued
    BY <1>2, <1>4, <1>5, <1>6, SecretTypes
  <2>2. torn \in BOOLEAN
    BY <1>5, Zenon
  <2> QED
    BY <1>3, <1>4, <1>6, <1>7, <1>8, <1>9, <1>10, <1>11, <2>1, <2>2 DEF Types, At
<1>13. RotationsEarned
  BY <1>3, <1>10 DEF RotationsEarned
<1>14. Issued(first)
  <2>1. first.cookie.session \in 1..spent.logins /\ Rotation(first.cookie) = 0 /\ first.jwt > tokens.expired
    BY <1>2, <1>3, <1>4, <1>10, SecretTypes DEF Rotation
  <2> QED
    BY <1>2, <1>4, <2>1 DEF Issued, Earned
<1>15. Sound
  <2>1. Pair(c) = first
    BY <1>2, <1>7, SecretTypes DEF Pair
  <2>2. \A d \in Clients : ClientSound(d)
    BY <1>7, <1>14, <2>1 DEF ClientSound
  <2>3. StoresSound
    BY <1>5, <1>14 DEF StoresSound
  <2> QED
    BY <1>8, <1>9, <2>2, <2>3 DEF Sound, CallSound, ShellSound, ShellAt, At, Locked, Saving, Entering
<1> QED
  BY <1>12, <1>13, <1>15 DEF RotationInv

LEMMA RotationStep ==
  ASSUME RotationInv, [Next]_vars
  PROVE  RotationInv'
<1>1. Types /\ RotationsEarned /\ Sound
  BY DEF RotationInv
<1>2. Types'
  BY <1>1, SessionTypes
<1>3. CASE UNCHANGED vars
  <2>1. UNCHANGED <<serverVars, spent, storeVars, client, call, shell>>
    BY <1>3 DEF vars
  <2>2. Onward /\ tokens'.expired \in Nat /\ tokens.expired <= tokens'.expired
    BY <1>1, <2>1, OnwardSteps DEF Types, serverVars
  <2>3. StoresNext /\ (\A d \in Clients : ClientNext(d)) /\ (\A q \in Callers : CallNext(q)) /\ ShellNext
    BY <1>1, <2>1, <2>2, SoundParts, OthersSound
  <2>4. RotationsEarned'
    BY <1>1, <2>1 DEF RotationsEarned, serverVars
  <2> QED
    BY <1>2, <2>3, <2>4, SoundNext DEF RotationInv
<1>4. CASE Next
  <2>1. CASE Restart
    BY <1>1, <1>2, <2>1, RestartSound DEF RotationInv
  <2>2. CASE LoginRequest
    BY <1>1, <1>2, <2>2, LoginRequestSound DEF RotationInv
  <2>3. CASE LogoutTake \/ LoginSave \/ LogoutSave \/ LoginAPI \/ LogoutAPI \/ LoginWs \/ LoginEngine \/ LogoutStop
    BY <1>1, <1>2, <2>3, OwnShellSound DEF RotationInv
  <2>4. CASE LogoutPost \/ Expire \/ \E n \in Logins : GraceEnds(n) \/ Revoke(n)
    BY <1>1, <1>2, <2>4, ServerSound DEF RotationInv
  <2>5. ASSUME NEW p \in Callers,
               Call(p) \/ Unreachable(p) \/ Answered(p) \/ SaveRefreshed(p) \/ CallbackWs(p)
        PROVE  RotationInv'
    BY <1>1, <1>2, <2>5, OwnStepsSound DEF RotationInv
  <2>6. ASSUME NEW p \in Callers, Refresh(p) PROVE RotationInv'
    <3>1. RotationsEarned'
      <4>1. UNCHANGED <<serverVars, spent>>
        BY <1>1, <2>6, RefreshEffect
      <4> QED
        BY <1>1, <4>1 DEF RotationsEarned, serverVars
    <3> QED
      BY <1>1, <1>2, <2>6, <3>1, RefreshSound DEF RotationInv
  <2>7. ASSUME NEW p \in Callers, Post(p) PROVE RotationInv'
    BY <1>1, <1>2, <2>7, PostSound DEF RotationInv
  <2>8. CASE SaveSettings \/ LoginSettings \/ LogoutSettings
    BY <1>1, <1>2, <2>8, SettingsSound DEF RotationInv
  <2> QED
    BY <1>4, <2>1, <2>2, <2>3, <2>4, <2>5, <2>6, <2>7, <2>8 DEF Next, ShellSteps, CallSteps
<1> QED
  BY <1>3, <1>4

LEMMA RotationInvariant == Spec => []RotationInv
<1>1. Init => RotationInv
  BY RotationInit
<1>2. RotationInv /\ [Next]_vars => RotationInv'
  BY RotationStep
<1> QED
  BY <1>1, <1>2, PTL DEF Spec

\* Every field holds what it may: the cookies name sessions that exist, the
\* locks name callers, and an event loop only ever has a token that was issued.
THEOREM DesktopTypes == Spec => []TypeOK
<1>1. RotationInv => TypeOK
  <2>1. ASSUME Types
        PROVE  /\ \A c \in Clients : client[c].cookie \in Cookies /\ client[c].lock \in Callers \cup {None}
               /\ {app.api, app.engineApi} \subseteq Clients /\ app.loops \subseteq 1..tokens.issued
               /\ {file.cookie, disk.cookie} \subseteq Cookies /\ (keyring # None => keyring.cookie \in Cookies)
    BY <2>1 DEF Types, ClientRec, AppRec, Sec
  <2> QED
    BY <2>1 DEF TypeOK, RotationInv
<1> QED
  BY <1>1, RotationInvariant, PTL

\* A session is rotated no more often than access tokens have expired, however
\* many callers are told 401 at once, and whatever is lost, restarted or saved
\* where.
THEOREM OneRotationEach == Spec => []RotationsEarned
<1>1. RotationInv => RotationsEarned
  BY DEF RotationInv
<1> QED
  BY <1>1, RotationInvariant, PTL

---------------------------------------------------------------------------
(* Without an overlap: one client, and one step after the other.           *)

LEMMA BusyNext ==
  ASSUME NEW p \in Callers, NEW pc, NEW on, NEW got, Called(p, pc, on, got), NEW pcs
  PROVE  Busy(pcs)' <=> pc \in pcs \/ \E q \in Callers \ {p} : call[q].pc \in pcs
BY DEF Busy, Called

\* Two callers that hold the refreshMu of one client are the same.
LEMMA Alone ==
  ASSUME Types, Sound, OneClient, NEW p \in Callers, call[p].pc \in Locked
  PROVE  /\ ShellAt("idle") /\ call[p].on = app.api
         /\ \A q \in Callers \ {p} : call[q].pc \in Quiet
<1>1. ~At(p, "idle") /\ CallSound(p)
  BY DEF At, Locked, Saving, Sound
<1>2. client[app.api].lock = p /\ ShellAt("idle") /\ call[p].on = app.api
  BY <1>1 DEF OneClient, CallSound
<1>3. ASSUME NEW q \in Callers \ {p}, call[q].pc \in Locked PROVE FALSE
  <2>1. ~At(q, "idle") /\ CallSound(q)
    BY <1>3 DEF At, Locked, Saving, Sound
  <2>2. client[app.api].lock = q
    BY <1>3, <2>1 DEF OneClient, CallSound
  <2> QED
    BY <1>2, <2>2
<1> QED
  BY <1>2, <1>3 DEF Types, CallRec

\* A step of p, as long as it is made on the client of the screens.
LEMMA CallInOrder ==
  ASSUME Types, Sound, OneClient, NEW p \in Callers, ShellAt("idle"), UNCHANGED shell,
         app'.api = app.api, app'.engineApi = app.engineApi, app'.running = app.running,
         NEW pc, NEW on, NEW got, Called(p, pc, on, got), pc # "idle" => on = app.api,
         \A q \in Callers : CallOrder(q)', app'.loops \subseteq {app'.ws}, RestOrder'
  PROVE  InOrder'
<1>1. ShellAt("idle")'
  BY DEF ShellAt
<1>2. ShellOrder'
  BY <1>1 DEF ShellOrder, ShellAt, Entering, Parting
<1>3. OneClient'
  <2>1. \A q \in Callers : ~At(q, "idle")' => call'[q].on = app'.api
    BY DEF Called, OneClient, At
  <2> QED
    BY <1>1, <2>1 DEF OneClient, At, ShellAt
<1> QED
  BY <1>2, <1>3 DEF InOrder

LEMMA SentSame ==
  ASSUME app'.api = app.api, client'[app.api].token = client[app.api].token,
         client'[app.api].cookie = client[app.api].cookie
  PROVE  Sent' = Sent
BY DEF Sent, Pair

\* While p is at its refresh, up to its answer, nothing that was in order changes.
LEMMA AskingInOrder ==
  ASSUME Types, Sound, InOrder, ~past.overlap, NEW p \in Callers, ShellAt("idle"),
         UNCHANGED <<storeVars, shell, app>>, Sent' = Sent,
         call[p].pc \notin Saving, NEW pc, NEW on, NEW got, Called(p, pc, on, got),
         pc \notin Saving, pc # "idle" => on = app.api, pc = "post" => got.cookie = Sent.cookie
  PROVE  InOrder'
<1>1. OneClient /\ RestOrder /\ app.loops \subseteq {app.ws} /\ \A q \in Callers : CallOrder(q)
  BY DEF InOrder
<1>2. ReadSecrets' = ReadSecrets
  BY DEF ReadSecrets, storeVars
<1>3. \A pcs \in {{"save"}, Saving} : Busy(pcs)' <=> Busy(pcs)
  <2>1. ASSUME NEW pcs \in {{"save"}, Saving} PROVE Busy(pcs)' <=> Busy(pcs)
    <3>1. pcs \subseteq Saving
      BY DEF Saving
    <3> QED
      BY <3>1, BusyNext DEF Busy
  <2> QED
    BY <2>1
<1>4. RestOrder'
  <2>1. (Busy({"save"})' <=> Busy({"save"})) /\ (Busy(Saving)' <=> Busy(Saving))
    BY <1>3
  <2> QED
    BY <1>1, <1>2, <2>1 DEF RestOrder, storeVars
<1>5. ASSUME NEW q \in Callers PROVE CallOrder(q)'
  <2>1. CASE q = p
    BY <2>1 DEF Called, CallOrder, At, Saving
  <2>2. CASE q # p
    <3>1. call'[q] = call[q]
      BY <2>2 DEF Called
    <3> QED
      BY <1>1, <1>2, <3>1 DEF CallOrder, At
  <2> QED
    BY <2>1, <2>2
<1> QED
  BY <1>1, <1>4, <1>5, CallInOrder

\* Once p has its answer, the others wait for its refreshMu.
LEMMA OthersInOrder ==
  ASSUME Types, Sound, OneClient, NEW p \in Callers, call[p].pc \in Locked,
         NEW pc, NEW on, NEW got, Called(p, pc, on, got)
  PROVE  /\ \A q \in Callers \ {p} : CallOrder(q)'
         /\ \A pcs \in {{"answer"}, {"answer", "save"}, {"save"}, Saving} : Busy(pcs)' <=> pc \in pcs
<1>1. \A q \in Callers \ {p} : call[q].pc \in Quiet /\ call'[q] = call[q]
  BY Alone DEF Called
<1>2. \A q \in Callers \ {p} : CallOrder(q)'
  BY <1>1 DEF CallOrder, At, Saving, Quiet
<1>3. ASSUME NEW pcs \in {{"answer"}, {"answer", "save"}, {"save"}, Saving} PROVE Busy(pcs)' <=> pc \in pcs
  <2>1. \A q \in Callers \ {p} : call[q].pc \notin pcs
    BY <1>1 DEF Saving, Quiet
  <2> QED
    BY <2>1, BusyNext
<1> QED
  BY <1>2, <1>3

LEMMA CallsInOrder ==
  ASSUME Types, Sound, InOrder, NEW p \in Callers, ~past'.overlap, past.overlap => past'.overlap,
         Call(p) \/ CallSteps(p) \/ Unreachable(p)
  PROVE  InOrder'
<1> DEFINE c == call[p].on
           got == call[p].got
<1>1. ~past.overlap /\ OneClient /\ RestOrder /\ app.loops \subseteq {app.ws} /\ CallOrder(p)
  BY DEF InOrder
<1>2. CallSound(p) /\ got \in Sec
  BY DEF Sound, Types, CallRec
<1>3. ~At(p, "idle") => ShellAt("idle") /\ c = app.api
  BY <1>1 DEF OneClient
<1>4. CASE Call(p)
  <2>1. PICK d \in Clients :
          /\ d = app.api \/ (d = app.engineApi /\ app.running)
          /\ Called(p, "refresh", d, Secrets(client[d].token, NoCookie))
    BY <1>4, CallEffect
  <2>2. /\ At(p, "idle") /\ UNCHANGED <<serverVars, storeVars, client, app, shell, spent>>
        /\ ShellAt("idle")
    BY <1>4, CallEffect, Zenon DEF ShellAt
  <2>3. d = app.api
    BY <1>1, <2>1, <2>2 DEF OneClient, Early, ShellAt
  <2>4. Sent' = Sent /\ call[p].pc \notin Saving /\ "refresh" \notin Saving
    BY <2>2, SentSame DEF At, Saving
  <2> QED
    BY <1>1, <2>1, <2>2, <2>3, <2>4, AskingInOrder
<1>5. CASE Refresh(p)
  <2>1. /\ At(p, "refresh") /\ c \in Clients /\ UNCHANGED <<storeVars, app, shell>>
    BY <1>5, RefreshEffect
  <2>2. ShellAt("idle") /\ c = app.api /\ call[p].pc \notin Saving
    BY <1>3, <2>1 DEF At, Saving
  <2>3. CASE /\ Changed(c, client[c].token, client[c].cookie, p)
             /\ Called(p, "post", c, Secrets(got.jwt, client[c].cookie))
    <3>1. Sent' = Sent
      BY <2>1, <2>2, <2>3, SentSame DEF Changed
    <3>2. Secrets(got.jwt, client[c].cookie).cookie = Sent.cookie
      BY <2>2 DEF Secrets, Sent, Pair
    <3> QED
      BY <1>1, <2>1, <2>2, <2>3, <3>1, <3>2, AskingInOrder DEF Saving
  <2>4. CASE Called(p, "idle", None, Blank) /\ UNCHANGED client
    <3>1. Sent' = Sent
      BY <2>1, <2>4, SentSame
    <3> QED
      BY <1>1, <2>1, <2>2, <2>4, <3>1, AskingInOrder DEF Saving
  <2> QED
    BY <1>5, <2>3, <2>4, RefreshEffect
<1>6. CASE Post(p)
  <2>1. At(p, "post") /\ UNCHANGED <<storeVars, app, shell>>
    BY <1>2, <1>6, PostOutcome
  <2>2. ShellAt("idle") /\ c = app.api /\ call[p].pc \notin Saving
    BY <1>3, <2>1 DEF At, Saving
  <2>3. ASSUME NEW pc \in {"answer", "reject"}, NEW sec, Outcome(p, pc, sec)
        PROVE  InOrder'
    <3>1. CASE Called(p, pc, c, sec) /\ UNCHANGED client
      <4>1. Sent' = Sent /\ pc \notin Saving /\ pc # "post"
        BY <2>1, <3>1, SentSame DEF Saving
      <4> QED
        BY <1>1, <2>1, <2>2, <3>1, <4>1, AskingInOrder
    <3>2. CASE Called(p, "idle", None, Blank) /\ Changed(c, client[c].token, client[c].cookie, None)
      <4>1. Sent' = Sent
        BY <2>1, <2>2, <3>2, SentSame DEF Changed
      <4> QED
        BY <1>1, <2>1, <2>2, <3>2, <4>1, AskingInOrder DEF Saving
    <3> QED
      BY <2>3, <3>1, <3>2 DEF Outcome
  <2> QED
    BY <1>2, <1>6, <2>3, PostOutcome
<1>7. CASE Unreachable(p)
  <2>1. /\ At(p, "post") /\ UNCHANGED <<storeVars, app, shell>>
        /\ Called(p, "idle", None, Blank) /\ Changed(c, client[c].token, client[c].cookie, None)
    BY <1>7, UnreachableEffect
  <2>2. ShellAt("idle") /\ c = app.api /\ call[p].pc \notin Saving
    BY <1>3, <2>1 DEF At, Saving
  <2>3. Sent' = Sent
    BY <2>1, <2>2, SentSame DEF Changed
  <2> QED
    BY <1>1, <2>1, <2>2, <2>3, AskingInOrder DEF Saving
<1>8. CASE Answered(p)
  <2>1. c \in Clients /\ UNCHANGED <<storeVars, app, shell>>
    BY <1>8, AnsweredEffect
  <2>2. call[p].pc \in Locked /\ ShellAt("idle") /\ c = app.api
    BY <1>3, <1>8 DEF Answered, At, Locked
  <2>3. CASE /\ At(p, "answer") /\ Called(p, "save", c, got)
             /\ Changed(c, got.jwt, got.cookie, client[c].lock)
    <3>1. Sent' = got
      BY <1>2, <2>1, <2>2, <2>3 DEF Changed, Sent, Pair, Sec, Secrets
    <3>2. \A q \in Callers \ {p} : CallOrder(q)'
      BY <1>1, <2>2, <2>3, OthersInOrder
    <3>3. CallOrder(p)'
      BY <2>3, <3>1 DEF Called, CallOrder, At, Saving
    <3>4. Busy({"save"})' /\ Busy(Saving)'
      BY <2>3 DEF Called, Busy, Saving
    <3>5. RestOrder'
      BY <3>4 DEF RestOrder
    <3> QED
      BY <1>1, <2>1, <2>2, <2>3, <3>2, <3>3, <3>5, CallInOrder
  <2>4. CASE /\ At(p, "reject") /\ Called(p, "idle", None, Blank)
             /\ Changed(c, client[c].token, NoCookie, None)
    <3>1. Sent'.cookie = NoCookie /\ Sent'.jwt = Sent.jwt
      BY <2>1, <2>2, <2>4 DEF Changed, Sent, Pair, Secrets
    <3>2. \A q \in Callers \ {p} : CallOrder(q)'
      BY <1>1, <2>2, <2>4, OthersInOrder
    <3>3. CallOrder(p)'
      BY <2>4 DEF Called, CallOrder, At, Saving
    <3>4. ~Busy(Saving)
      BY <1>1, <2>2, <2>4, Alone DEF Busy, Saving, Quiet, At
    <3>5. RestOrder'
      BY <1>1, <2>1, <2>2, <3>1, <3>4 DEF RestOrder
    <3> QED
      BY <1>1, <2>1, <2>2, <2>4, <3>2, <3>3, <3>5, CallInOrder
  <2> QED
    BY <1>8, <2>3, <2>4, AnsweredEffect
<1>9. CASE SaveRefreshed(p)
  <2>1. /\ At(p, "save") /\ Called(p, "wsStop", c, got) /\ Saves(got)
        /\ UNCHANGED <<serverVars, client, app, shell>>
    BY <1>9, SaveEffect
  <2>2. call[p].pc \in Locked /\ ShellAt("idle") /\ c = app.api
    BY <1>3, <2>1 DEF At, Locked, Saving
  <2>3. ReadSecrets' = got /\ Sent' = Sent /\ Sent = got
    BY <1>1, <1>2, <2>1, StoreWrites, SentSame DEF CallOrder, At, Saving
  <2>4. \A q \in Callers \ {p} : CallOrder(q)'
    BY <1>1, <2>1, <2>2, OthersInOrder
  <2>5. CallOrder(p)'
    BY <2>1, <2>3 DEF Called, CallOrder, At, Saving
  <2>6. Busy(Saving)'
    BY <2>1 DEF Called, Busy, Saving
  <2>7. RestOrder'
    BY <2>3, <2>6 DEF RestOrder
  <2> QED
    BY <1>1, <2>1, <2>2, <2>4, <2>5, <2>7, CallInOrder
<1>10. CASE CallbackWs(p)
  <2>1. call[p].pc \in {"wsStop", "wsStart"}
    BY <1>10 DEF CallbackWs, At
  <2>2. call[p].pc \in Locked /\ call[p].pc \in Saving /\ ShellAt("idle") /\ c = app.api
    BY <1>3, <2>1 DEF At, Locked, Saving
  <2>3. got.jwt # 0 /\ Sent = got /\ ReadSecrets = got
    BY <1>1, <1>2, <2>1, <2>2 DEF CallSound, Issued, Types, CallOrder
  <2>4. c \in Clients /\ UNCHANGED <<storeVars, shell>>
    BY <1>10, <2>3, CallbackEffect
  <2>5. ReadSecrets' = ReadSecrets
    BY <2>4 DEF ReadSecrets, storeVars
  <2>6. CASE /\ Called(p, "wsStart", c, got) /\ UNCHANGED client
             /\ AppSet(0, app.loops \ {app.ws})
    <3>1. Sent' = Sent /\ app'.loops = {}
      BY <1>1, <2>6, SentSame DEF AppSet
    <3>2. \A q \in Callers \ {p} : CallOrder(q)'
      BY <1>1, <2>2, <2>6, OthersInOrder
    <3>3. CallOrder(p)'
      BY <2>3, <2>5, <2>6, <3>1 DEF Called, CallOrder, At, Saving
    <3>4. Busy(Saving)'
      BY <2>6 DEF Called, Busy, Saving
    <3>5. RestOrder'
      BY <2>3, <2>5, <3>1, <3>4 DEF RestOrder
    <3> QED
      BY <1>1, <2>2, <2>4, <2>6, <3>1, <3>2, <3>3, <3>5, CallInOrder DEF AppSet
  <2>7. CASE /\ At(p, "wsStart") /\ Called(p, "idle", None, Blank)
             /\ Changed(c, client[c].token, client[c].cookie, None)
             /\ AppSet(got.jwt, app.loops \cup {got.jwt})
    <3>1. Sent' = Sent /\ app'.loops = {got.jwt} /\ app'.ws = got.jwt
      BY <1>1, <2>2, <2>7, SentSame DEF AppSet, Changed, CallOrder
    <3>2. \A q \in Callers \ {p} : CallOrder(q)'
      BY <1>1, <2>2, <2>7, OthersInOrder
    <3>3. CallOrder(p)'
      BY <2>7 DEF Called, CallOrder, At, Saving
    <3>4. RestOrder'
      BY <2>3, <2>5, <3>1 DEF RestOrder
    <3> QED
      BY <1>1, <2>2, <2>4, <2>7, <3>1, <3>2, <3>3, <3>4, CallInOrder DEF AppSet
  <2> QED
    BY <1>10, <2>3, <2>6, <2>7, CallbackEffect
<1> QED
  BY <1>4, <1>5, <1>6, <1>7, <1>8, <1>9, <1>10 DEF CallSteps

\* A step of the shell, between the two ends of a login or logout.
LEMMA ShellInOrder ==
  ASSUME \A q \in Callers : At(q, "idle"), UNCHANGED call,
         shell'.pc \notin Early, ShellOrder', app'.loops \subseteq {app'.ws}
  PROVE  InOrder'
<1>1. \A q \in Callers : At(q, "idle")'
  BY DEF At
<1>2. OneClient'
  BY <1>1 DEF OneClient
<1>3. RestOrder'
  BY DEF RestOrder
<1>4. \A q \in Callers : CallOrder(q)'
  BY <1>1 DEF CallOrder, At, Saving
<1> QED
  BY <1>2, <1>3, <1>4 DEF InOrder

\* A step that a login or logout may be over after: the client is as before, or
\* has lost its cookie; or the login has left its secrets behind.
LEMMA EarlyInOrder ==
  ASSUME InOrder, ~past.overlap, \A q \in Callers : At(q, "idle"), UNCHANGED <<call, app>>,
         shell.pc \in Early, shell'.pc \in Early, Sent'.jwt = Sent.jwt,
         shell'.pc \in Parting => Sent'.cookie = NoCookie,
         \/ Sent'.cookie = NoCookie \/ torn'
         \/ Sent' = Sent /\ ReadSecrets' = ReadSecrets /\ UNCHANGED torn
  PROVE  InOrder'
<1>1. OneClient /\ RestOrder /\ app.loops \subseteq {app.ws}
  BY DEF InOrder
<1>2. \A q \in Callers : At(q, "idle")'
  BY DEF At
<1>3. OneClient'
  BY <1>1, <1>2 DEF OneClient
<1>4. ShellOrder'
  BY DEF ShellOrder, ShellAt, Entering, Early, Asking, Parting
<1>5. RestOrder'
  <2>1. \A pcs : Busy(pcs)' <=> Busy(pcs)
    BY DEF Busy
  <2>2. ~Busy({"save"}) /\ ~Busy(Saving)
    BY DEF Busy, At, Saving
  <2>3. ~torn /\ Sent.cookie # NoCookie => ReadSecrets = Sent
    BY <1>1, <2>2 DEF RestOrder
  <2>4. app.running => app.ws = Sent.jwt
    BY <1>1, <2>2 DEF RestOrder
  <2>5. ~torn' /\ Sent'.cookie # NoCookie => ReadSecrets' = Sent'
    BY <2>3
  <2> QED
    BY <2>4, <2>5 DEF RestOrder
<1>6. \A q \in Callers : CallOrder(q)'
  BY <1>2 DEF CallOrder, At, Saving
<1> QED
  BY <1>1, <1>3, <1>4, <1>5, <1>6 DEF InOrder

LEMMA ShellsInOrder ==
  ASSUME Types, Sound, InOrder, ~past'.overlap, past.overlap => past'.overlap,
         LoginRequest \/ LogoutTake \/ ShellSteps
  PROVE  InOrder'
<1>1. ~past.overlap /\ OneClient /\ ShellOrder /\ RestOrder /\ app.loops \subseteq {app.ws}
  BY DEF InOrder
<1>2. ~ShellAt("idle") => \A q \in Callers : At(q, "idle")
  BY <1>1 DEF OneClient
<1>3. shell.pc \in Entering => shell.got.jwt # 0 /\ shell.got \in Sec
  BY DEF Sound, ShellSound, Issued, Types
<1>4. CASE LoginRequest
  <2>1. /\ UNCHANGED <<storeVars, client, app, call>> /\ ~Refreshing /\ ShellAt("idle")
        /\ ShellSet("loginSettings", Secrets(tokens.issued + 1, Cookie(spent.logins + 1, 0)))
    BY <1>4, LoginRequestEffect, Zenon
  <2>2. \A q \in Callers : At(q, "idle")
    BY <2>1 DEF Refreshing
  <2>3. Sent' = Sent /\ ReadSecrets' = ReadSecrets /\ UNCHANGED torn
    BY <2>1 DEF Sent, Pair, ReadSecrets, storeVars
  <2>4. shell.pc \in Early /\ shell'.pc \in Early \ Parting
    BY <2>1 DEF ShellSet, ShellAt, Early, Asking, Parting
  <2> QED
    BY <1>1, <2>1, <2>2, <2>3, <2>4, EarlyInOrder
<1>5. CASE LogoutTake
  <2>1. /\ UNCHANGED <<app, call>> /\ ~Refreshing /\ ShellAt("idle") /\ app.api \in Clients
        /\ ShellSet("logoutPost", Secrets(0, client[app.api].cookie))
        /\ Changed(app.api, client[app.api].token, NoCookie, client[app.api].lock)
    BY <1>5, LogoutTakeEffect, Zenon
  <2>2. \A q \in Callers : At(q, "idle")
    BY <2>1 DEF Refreshing
  <2>3. Sent'.jwt = Sent.jwt /\ Sent'.cookie = NoCookie
    BY <2>1 DEF Sent, Pair, Secrets, Changed
  <2>4. shell.pc \in Early /\ shell'.pc \in Early
    BY <2>1 DEF ShellSet, ShellAt, Early, Parting
  <2> QED
    BY <1>1, <2>1, <2>2, <2>3, <2>4, EarlyInOrder
<1>6. CASE LoginSave \/ LogoutSave
  <2>1. UNCHANGED <<client, app, call>>
    BY <1>6, ShellSaveEffect
  <2>2. Sent' = Sent
    BY <2>1 DEF Sent, Pair
  <2>3. CASE /\ ShellAt("loginSave") /\ Saves(shell.got) /\ shell.got \in Sec
             /\ ShellSet("loginAPI", shell.got)
    <3>1. ReadSecrets' = shell.got
      BY <2>3, StoreWrites
    <3>2. ShellOrder' /\ shell'.pc \notin Early /\ ~ShellAt("idle")
      BY <2>3, <3>1 DEF ShellSet, ShellOrder, ShellAt, Entering, Early, Asking, Parting
    <3> QED
      BY <1>1, <1>2, <2>1, <3>2, ShellInOrder
  <2>4. CASE /\ ShellAt("logoutSave") /\ Saves(Blank) /\ Blank \in Sec
             /\ ShellSet("logoutAPI", shell.got)
    <3>1. ReadSecrets' = Blank
      BY <2>4, StoreWrites
    <3>2. ShellOrder' /\ shell'.pc \notin Early /\ ~ShellAt("idle")
      BY <2>4, <3>1 DEF ShellSet, ShellOrder, ShellAt, Entering, Early, Asking, Parting
    <3> QED
      BY <1>1, <1>2, <2>1, <3>2, ShellInOrder
  <2>5. CASE ShellAt("loginSave") /\ ShellSet("idle", Blank) /\ torn'
    <3>1. shell.pc \in Early /\ shell'.pc \in Early \ Parting /\ ~ShellAt("idle")
      BY <2>5 DEF ShellSet, ShellAt, Early, Asking, Parting
    <3> QED
      BY <1>1, <1>2, <2>1, <2>2, <2>5, <3>1, EarlyInOrder
  <2>6. CASE ShellAt("logoutSave") /\ ShellSet("idle", Blank)
    <3>1. shell.pc \in Early /\ shell'.pc \in Early \ Parting /\ ~ShellAt("idle")
      BY <2>6 DEF ShellSet, ShellAt, Early, Asking, Parting
    <3>2. Sent.cookie = NoCookie
      BY <1>1, <2>6 DEF ShellOrder, ShellAt, Parting
    <3> QED
      BY <1>1, <1>2, <2>1, <2>2, <3>1, <3>2, EarlyInOrder
  <2> QED
    BY <1>6, <2>3, <2>4, <2>5, <2>6, ShellSaveEffect
<1>7. CASE LoginAPI \/ LogoutAPI
  <2>1. UNCHANGED <<storeVars, call>> /\ NewAPI
    BY <1>7, ShellAPIEffect
  <2>2. /\ app'.ws = app.ws /\ app'.loops = app.loops
        /\ client'[app'.api].token = ReadSecrets.jwt /\ client'[app'.api].cookie = ReadSecrets.cookie
    BY <2>1, NewClients
  <2>3. ReadSecrets' = ReadSecrets
    BY <2>1 DEF ReadSecrets, storeVars
  <2>4. Sent' = ReadSecrets
    <3>1. ReadSecrets = Secrets(ReadSecrets.jwt, ReadSecrets.cookie)
      BY DEF Types, ReadSecrets, Sec, Secrets
    <3> QED
      BY <2>2, <3>1 DEF Sent, Pair
  <2>5. ShellOrder' /\ shell'.pc \notin Early /\ ~ShellAt("idle")
    <3>1. \/ ShellAt("loginAPI") /\ ShellSet("loginStop", shell.got)
          \/ ShellAt("logoutAPI") /\ ShellSet("logoutStop", shell.got)
      BY <1>7, ShellAPIEffect
    <3> QED
      BY <1>1, <2>3, <2>4, <3>1 DEF ShellSet, ShellOrder, ShellAt, Entering, Early, Asking, Parting
  <2> QED
    BY <1>1, <1>2, <2>1, <2>2, <2>5, ShellInOrder
<1>8. CASE LoginWs
  <2>1. shell.pc \in Entering \ (Asking \cup {"loginAPI"})
    BY <1>8 DEF LoginWs, ShellAt, Entering, Asking
  <2>2. shell.got.jwt # 0 /\ ReadSecrets = shell.got /\ Sent = shell.got
    BY <1>1, <1>3, <2>1 DEF ShellOrder
  <2>3. UNCHANGED <<storeVars, client, call>>
    BY <1>8, <2>2, ShellWsEffect
  <2>4. ReadSecrets' = ReadSecrets
    BY <2>3 DEF ReadSecrets, storeVars
  <2>5. \/ /\ ShellAt("loginStop") /\ ShellSet("loginStart", shell.got)
           /\ AppSet(0, app.loops \ {app.ws})
        \/ /\ ShellAt("loginStart") /\ ShellSet("loginEngine", shell.got)
           /\ AppSet(shell.got.jwt, app.loops \cup {shell.got.jwt})
    BY <1>8, <2>2, ShellWsEffect
  <2>6. Sent' = Sent
    BY <2>3, <2>5, SentSame DEF AppSet
  <2>7. app'.loops \subseteq {app'.ws} /\ (ShellAt("loginStart")' => app'.loops = {})
        /\ (ShellAt("loginEngine")' => app'.ws = shell.got.jwt)
    <3>1. CASE ShellSet("loginStart", shell.got) /\ AppSet(0, app.loops \ {app.ws})
      BY <1>1, <3>1 DEF ShellSet, AppSet, ShellAt
    <3>2. CASE /\ ShellAt("loginStart") /\ ShellSet("loginEngine", shell.got)
               /\ AppSet(shell.got.jwt, app.loops \cup {shell.got.jwt})
      BY <1>1, <3>2 DEF ShellSet, AppSet, ShellAt, ShellOrder
    <3> QED
      BY <2>5, <3>1, <3>2
  <2>8. ShellOrder' /\ shell'.pc \notin Early /\ ~ShellAt("idle")
    <3>1. shell'.got = shell.got /\ shell'.pc \in {"loginStart", "loginEngine"} /\ ~ShellAt("idle")
      BY <2>1, <2>5 DEF ShellSet, ShellAt, Entering
    <3> QED
      BY <2>2, <2>4, <2>6, <2>7, <3>1 DEF ShellOrder, ShellAt, Early, Asking, Parting
  <2> QED
    BY <1>1, <1>2, <2>3, <2>7, <2>8, ShellInOrder
<1>9. CASE LogoutPost
  <2>1. /\ ShellAt("logoutPost") /\ ShellSet("logoutSettings", shell.got)
        /\ UNCHANGED <<storeVars, client, app, call>>
    BY <1>9, LogoutPostEffect DEF Sound
  <2>2. Sent' = Sent /\ Sent.cookie = NoCookie
    BY <1>1, <2>1 DEF Sent, Pair, ShellOrder, ShellAt, Parting
  <2>3. shell.pc \in Early /\ shell'.pc \in Early /\ ~ShellAt("idle")
    BY <2>1 DEF ShellSet, ShellAt, Early, Parting
  <2> QED
    BY <1>1, <1>2, <2>1, <2>2, <2>3, EarlyInOrder
<1>11. CASE LoginSettings \/ LogoutSettings
  <2>1. UNCHANGED <<keyring, file, torn, client, app, call>>
    BY <1>11, SettingsEffect
  <2>2. Sent' = Sent /\ ReadSecrets' = ReadSecrets
    BY <2>1 DEF Sent, Pair, ReadSecrets
  <2>3. \/ /\ ShellAt("loginSettings")
           /\ ShellSet("loginSave", shell.got) \/ ShellSet("idle", Blank)
        \/ /\ ShellAt("logoutSettings")
           /\ ShellSet("logoutSave", shell.got) \/ ShellSet("idle", Blank)
    BY <1>11, SettingsEffect
  <2>4. /\ shell.pc \in Early /\ shell'.pc \in Early /\ ~ShellAt("idle")
        /\ shell'.pc \in Parting => shell.pc \in Parting
    BY <2>3 DEF ShellSet, ShellAt, Early, Asking, Parting
  <2>5. shell'.pc \in Parting => Sent'.cookie = NoCookie
    BY <1>1, <2>2, <2>4 DEF ShellOrder
  <2> QED
    BY <1>1, <1>2, <2>1, <2>2, <2>4, <2>5, EarlyInOrder
<1>10. CASE LoginEngine \/ LogoutStop
  <2>1. /\ UNCHANGED <<serverVars, storeVars, client, call, spent, past>>
        /\ ShellSet("idle", Blank) /\ app' \in AppRec /\ app'.api = app.api
    BY <1>10, ShellEndEffect
  <2>2. ReadSecrets' = ReadSecrets /\ Sent' = Sent
    BY <2>1, SentSame DEF ReadSecrets, storeVars
  <2>3. ~ShellAt("idle")
    BY <1>10 DEF LoginEngine, LogoutStop, ShellAt
  <2>4. \A q \in Callers : At(q, "idle")'
    BY <1>2, <2>1, <2>3 DEF At
  <2>5. ShellOrder' /\ ShellAt("idle")'
    BY <2>1 DEF ShellSet, ShellOrder, ShellAt, Entering, Parting
  <2>6. \A q \in Callers : CallOrder(q)'
    BY <2>4 DEF CallOrder, At, Saving
  <2>7. \/ /\ ShellAt("loginEngine") /\ app'.engineApi = app.api
           /\ app'.ws = app.ws /\ app'.loops = app.loops
        \/ /\ ShellAt("logoutStop") /\ ~app'.running
           /\ app'.loops = app.loops \ {app.ws}
    BY <1>10, ShellEndEffect
  <2>8. OneClient' /\ app'.loops \subseteq {app'.ws}
    BY <1>1, <2>1, <2>4, <2>7 DEF OneClient
  <2>9. RestOrder'
    <3>1. CASE ShellAt("loginEngine") /\ app'.ws = app.ws
      <4>1. ReadSecrets = shell.got /\ Sent = shell.got /\ app.ws = shell.got.jwt
        BY <1>1, <3>1 DEF ShellOrder, ShellAt, Entering, Asking
      <4> QED
        BY <2>2, <3>1, <4>1 DEF RestOrder
    <3>2. CASE ShellAt("logoutStop") /\ ~app'.running
      <4>1. Sent = Blank
        BY <1>1, <3>2 DEF ShellOrder
      <4> QED
        BY <2>2, <3>2, <4>1, SecretTypes DEF RestOrder
    <3> QED
      BY <2>7, <3>1, <3>2
  <2> QED
    BY <2>5, <2>6, <2>8, <2>9 DEF InOrder
<1> QED
  BY <1>4, <1>5, <1>6, <1>7, <1>8, <1>9, <1>10, <1>11 DEF ShellSteps

LEMMA RestartInOrder ==
  ASSUME Types, Sound, Restart
  PROVE  InOrder'
<1>1. PICK sec \in Sec : ReadSecrets' = sec /\ Started(sec)
  BY Restarting DEF Sound
<1>2. Sent' = sec
  <2>1. client'[app'.api].token = sec.jwt /\ client'[app'.api].cookie = sec.cookie
    BY <1>1, StartedTypes
  <2> QED
    BY <2>1 DEF Sent, Pair, Sec, Secrets
<1>3. /\ \A p \in Callers : At(p, "idle")'
      /\ ShellAt("idle")' /\ app'.engineApi = app'.api /\ app'.ws = sec.jwt
      /\ app'.loops = {sec.jwt} \ {0}
  BY <1>1, StartedTypes DEF ShellAt
<1>4. OneClient' /\ \A p \in Callers : CallOrder(p)'
  BY <1>3 DEF OneClient, CallOrder, At, Saving
<1>5. ShellOrder' /\ RestOrder'
  BY <1>1, <1>2, <1>3 DEF ShellOrder, RestOrder, ShellAt, Entering, Parting
<1> QED
  BY <1>3, <1>4, <1>5 DEF InOrder

LEMMA OrderStays ==
  ASSUME InOrder, UNCHANGED <<keyring, file, torn, client, app, call, shell, past>>
  PROVE  InOrder'
<1>1. ReadSecrets' = ReadSecrets /\ Sent' = Sent
  BY DEF ReadSecrets, Sent, Pair
<1>2. \A pcs : Busy(pcs)' <=> Busy(pcs)
  BY DEF Busy
<1>3. OneClient => OneClient'
  BY DEF OneClient, At, ShellAt
<1>4. ShellOrder => ShellOrder'
  BY <1>1 DEF ShellOrder, ShellAt
<1>5. RestOrder => RestOrder'
  BY <1>1, <1>2 DEF RestOrder
<1>6. \A p \in Callers : CallOrder(p) => CallOrder(p)'
  BY <1>1 DEF CallOrder, At
<1> QED
  BY <1>3, <1>4, <1>5, <1>6 DEF InOrder

\* What happened is not forgotten.
LEMMA PastGrows ==
  ASSUME Types, Sound, [Next]_vars
  PROVE  (past.overlap => past'.overlap) /\ (past.lost => past'.lost)
<1>1. CASE UNCHANGED vars
  BY <1>1 DEF vars
<1>2. CASE Expire
  BY <1>2 DEF Expire
<1>3. ASSUME NEW n \in Logins, GraceEnds(n) \/ Revoke(n)
      PROVE  (past.overlap => past'.overlap) /\ (past.lost => past'.lost)
  BY <1>3, ServerEffect
<1>4. CASE LoginRequest
  BY <1>4, LoginRequestEffect, Zenon
<1>5. CASE LogoutTake
  BY <1>5, LogoutTakeEffect, Zenon
<1>6. CASE Restart
  BY <1>6, Restarting, Zenon DEF Sound
<1>7. CASE ShellSteps
  BY <1>7 DEF ShellSteps, LoginSettings, LoginSave, LoginAPI, LoginWs, LoginEngine, LogoutPost,
              LogoutSettings, LogoutSave, LogoutAPI, LogoutStop, SettingsSaved
<1>8. ASSUME NEW p \in Callers, Call(p) \/ CallSteps(p) \/ Unreachable(p)
      PROVE  (past.overlap => past'.overlap) /\ (past.lost => past'.lost)
  <2>1. CASE Call(p)
    BY <2>1, CallEffect, Zenon
  <2>2. CASE Post(p)
    <3>1. CallSound(p)
      BY DEF Sound
    <3>2. \E pc, sec : Outcome(p, pc, sec)
      BY <2>2, <3>1, PostOutcome, Zenon
    <3> QED
      BY <3>2, Zenon DEF Outcome
  <2>3. CASE ~Call(p) /\ ~Post(p)
    BY <1>8, <2>3 DEF CallSteps, Refresh, Answered, SaveRefreshed, CallbackWs, Unreachable
  <2> QED
    BY <2>1, <2>2, <2>3
<1>9. CASE SaveSettings
  BY <1>9 DEF SaveSettings
<1> QED
  BY <1>1, <1>2, <1>3, <1>4, <1>5, <1>6, <1>7, <1>8, <1>9 DEF Next

LEMMA OrderStep ==
  ASSUME RotationInv, InOrder, [Next]_vars
  PROVE  InOrder'
<1>1. Types /\ Sound
  BY DEF RotationInv
<1>2. CASE past'.overlap
  BY <1>2 DEF InOrder
<1>3. CASE ~past'.overlap
  <2>1. past.overlap => past'.overlap
    BY <1>1, PastGrows
  <2>2. CASE UNCHANGED vars
    BY <2>2, OrderStays DEF vars, storeVars
  <2>3. CASE Expire \/ \E n \in Logins : GraceEnds(n) \/ Revoke(n)
    BY <2>3, OrderStays DEF Expire, GraceEnds, Revoke, storeVars
  <2>4. CASE LoginRequest \/ LogoutTake \/ ShellSteps
    BY <1>1, <1>3, <2>1, <2>4, ShellsInOrder
  <2>5. ASSUME NEW p \in Callers, Call(p) \/ CallSteps(p) \/ Unreachable(p) PROVE InOrder'
    BY <1>1, <1>3, <2>1, <2>5, CallsInOrder
  <2>6. CASE Restart
    BY <1>1, <2>6, RestartInOrder
  <2>7. CASE SaveSettings
    BY <2>7, OrderStays DEF SaveSettings
  <2> QED
    BY <2>2, <2>3, <2>4, <2>5, <2>6, <2>7 DEF Next
<1> QED
  BY <1>2, <1>3

---------------------------------------------------------------------------
(* Without a loss either: nobody sends a cookie that was rotated before.   *)

\* Fresh in the next state; cookies of sessions that exist; steps that rotate
\* no session.
FreshNext(k) == k = NoCookie \/ ~sessions'[k.session].live \/ k.rotation = sessions'[k.session].rotation
Known(k) == k = NoCookie \/ k.session \in 1..spent.logins
Fading == \A n \in 1..spent.logins : /\ sessions'[n].rotation = sessions[n].rotation
                                     /\ sessions'[n].live => sessions[n].live

LEMMA FreshStays ==
  ASSUME Fading, NEW k, Known(k), Fresh(k)
  PROVE  FreshNext(k)
BY DEF Fading, Known, Fresh, FreshNext, Rotation

LEMMA KnownCookies ==
  ASSUME Types, Sound
  PROVE  /\ Known(Sent.cookie) /\ Known(ReadSecrets.cookie) /\ Known(NoCookie)
         /\ \A p \in Callers : call[p].pc \in {"post", "answer", "save"} => Known(call[p].got.cookie)
         /\ shell.pc \in Asking => Known(shell.got.cookie)
<1>1. \A sec : Issued(sec) \/ Earned(sec) => Known(sec.cookie)
  BY DEF Issued, Earned, Known
<1>2. Known(Sent.cookie)
  <2>1. app.api \in Clients /\ Pair(app.api).cookie = client[app.api].cookie
    BY DEF Types, AppRec, Pair, Secrets
  <2>2. ClientSound(app.api)
    BY <2>1 DEF Sound
  <2> QED
    BY <1>1, <2>1, <2>2 DEF ClientSound, Sent, Known
<1>3. Known(ReadSecrets.cookie)
  BY <1>1, SecretTypes DEF Sound, StoresSound, ReadSecrets, Known
<1>4. ASSUME NEW p \in Callers, call[p].pc \in {"post", "answer", "save"} PROVE Known(call[p].got.cookie)
  <2>1. CallSound(p)
    BY DEF Sound
  <2>2. CASE At(p, "post")
    BY <1>1, <2>1, <2>2, SecretTypes DEF CallSound, Secrets
  <2>3. CASE call[p].pc \in {"answer", "save"}
    BY <1>1, <2>1, <2>3 DEF CallSound, Saving
  <2> QED
    BY <1>4, <2>2, <2>3 DEF At
<1>5. shell.pc \in Asking => Known(shell.got.cookie)
  BY <1>1 DEF Sound, ShellSound, Asking, Entering
<1> QED
  BY <1>2, <1>3, <1>4, <1>5 DEF Known

\* AllFresh in the next state, put together.
LEMMA AllFreshNext ==
  ASSUME past'.overlap \/ past'.lost \/
           (/\ ~past'.reuse
            /\ \A p \in Callers : call'[p].pc \in {"post", "answer", "save"} => FreshNext(call'[p].got.cookie)
            /\ ~Busy({"answer"})' => FreshNext(Sent'.cookie)
            /\ ~Busy({"answer", "save"})' => FreshNext(ReadSecrets'.cookie)
            /\ shell'.pc \in Asking => FreshNext(shell'.got.cookie))
  PROVE  AllFresh'
<1>1. CASE past'.overlap \/ past'.lost
  BY <1>1 DEF AllFresh
<1>2. CASE /\ ~past'.reuse
           /\ \A p \in Callers : call'[p].pc \in {"post", "answer", "save"} => FreshNext(call'[p].got.cookie)
           /\ ~Busy({"answer"})' => FreshNext(Sent'.cookie)
           /\ ~Busy({"answer", "save"})' => FreshNext(ReadSecrets'.cookie)
           /\ shell'.pc \in Asking => FreshNext(shell'.got.cookie)
  <2>1. \A p \in Callers : call'[p].pc \in {"post", "answer", "save"} => Fresh(call[p].got.cookie)'
    BY <1>2 DEF Fresh, FreshNext, Rotation
  <2>2. ~Busy({"answer"})' => Fresh(Sent.cookie)'
    BY <1>2 DEF Fresh, FreshNext, Rotation
  <2>3. ~Busy({"answer", "save"})' => Fresh(ReadSecrets.cookie)'
    BY <1>2 DEF Fresh, FreshNext, Rotation
  <2>4. shell'.pc \in Asking => Fresh(shell.got.cookie)'
    BY <1>2 DEF Fresh, FreshNext, Rotation
  <2> QED
    BY <1>2, <2>1, <2>2, <2>3, <2>4 DEF AllFresh
<1> QED
  BY <1>1, <1>2

\* What is fresh stays fresh while no session is rotated.
LEMMA FreshParts ==
  ASSUME Types, Sound, AllFresh, ~past.overlap, ~past.lost, Fading
  PROVE  /\ ~past.reuse /\ FreshNext(NoCookie)
         /\ \A p \in Callers : call[p].pc \in {"post", "answer", "save"} => FreshNext(call[p].got.cookie)
         /\ ~Busy({"answer"}) => FreshNext(Sent.cookie)
         /\ ~Busy({"answer", "save"}) => FreshNext(ReadSecrets.cookie)
         /\ shell.pc \in Asking => FreshNext(shell.got.cookie)
<1>1. FreshNext(NoCookie)
  BY DEF FreshNext
<1> QED
  BY <1>1, FreshStays, KnownCookies DEF AllFresh

LEMMA FadingSteps ==
  ASSUME Types
  PROVE  /\ UNCHANGED serverVars => Fading
         /\ SessionsEnd => Fading
<1>1. 1..spent.logins \subseteq Logins
  BY BoundsAssumption DEF Types, Logins
<1> QED
  BY <1>1 DEF Fading, SessionsEnd, serverVars

\* A step of p that does not rotate: its cookie, the one of the screens and the
\* one in the store are those of before, or are gone.
LEMMA CallStaysFresh ==
  ASSUME Types, Sound, AllFresh, ~past.overlap, ~past.lost, Fading, NEW p \in Callers,
         past'.reuse => past.reuse, UNCHANGED <<storeVars, shell>>,
         Sent'.cookie \in {Sent.cookie, NoCookie},
         NEW pc, NEW on, NEW got, Called(p, pc, on, got),
         pc \in {"answer", "save"} <=> call[p].pc \in {"answer", "save"},
         pc = "answer" <=> call[p].pc = "answer",
         pc \in {"post", "answer", "save"} => FreshNext(got.cookie)
  PROVE  AllFresh'
<1>1. ReadSecrets' = ReadSecrets
  BY DEF ReadSecrets, storeVars
<1>2. \A pcs \in {{"answer"}, {"answer", "save"}} : Busy(pcs)' <=> Busy(pcs)
  <2>1. ASSUME NEW pcs \in {{"answer"}, {"answer", "save"}} PROVE Busy(pcs)' <=> Busy(pcs)
    <3>1. pc \in pcs <=> call[p].pc \in pcs
      OBVIOUS
    <3> QED
      BY <3>1, BusyNext DEF Busy
  <2> QED
    BY <2>1
<1>3. (Busy({"answer"})' <=> Busy({"answer"})) /\ (Busy({"answer", "save"})' <=> Busy({"answer", "save"}))
  BY <1>2
<1>4. \A q \in Callers : call'[q].pc \in {"post", "answer", "save"} => FreshNext(call'[q].got.cookie)
  BY FreshParts DEF Called
<1>5. ~Busy({"answer"})' => FreshNext(Sent'.cookie)
  BY <1>3, FreshParts
<1>6. ~Busy({"answer", "save"})' => FreshNext(ReadSecrets'.cookie)
  BY <1>1, <1>3, FreshParts
<1>7. shell'.pc \in Asking => FreshNext(shell'.got.cookie)
  BY FreshParts DEF ShellAt
<1>8. ~past'.reuse
  BY FreshParts
<1> QED
  BY <1>4, <1>5, <1>6, <1>7, <1>8, AllFreshNext

\* The server is sent the cookie that it expects, or one of a session that has
\* ended: it rotates it, or has nothing to drop.
LEMMA PostFresh ==
  ASSUME Types, Sound, InOrder, AllFresh, ~past.overlap, ~past.lost, ~past'.lost,
         NEW p \in Callers, Post(p), Types'
  PROVE  AllFresh'
<1> DEFINE k == call[p].got.cookie
           n == k.session
           c == call[p].on
<1>1. CallSound(p)
  BY DEF Sound
<1>2. /\ At(p, "post") /\ UNCHANGED <<storeVars, app, shell>>
      /\ k # NoCookie /\ n \in Logins
      /\ \A m \in Logins \ {n} : sessions'[m] = sessions[m]
  BY <1>1, PostOutcome
<1>3. OneClient /\ call[p].pc \in Locked
  BY <1>2 DEF InOrder, At, Locked
<1>4. ShellAt("idle") /\ c = app.api /\ \A q \in Callers \ {p} : call[q].pc \in Quiet
  BY <1>3, Alone
<1>5. Fresh(k)
  BY <1>2 DEF AllFresh, At
<1>6. ~InGrace(k)
  <2>1. sessions[n].rotation \in Nat
    BY <1>2 DEF Types, SessionRec
  <2> QED
    BY <1>2, <1>5, <2>1 DEF Fresh, Rotation, InGrace
<1>7. Sent'.cookie = Sent.cookie \/ ~(\E pc, sec : Outcome(p, pc, sec))
  BY <1>2, <1>4 DEF Outcome, Changed, Sent, Pair, Secrets
<1>8. CASE /\ Current(k) /\ sessions'[n].rotation = sessions[n].rotation + 1
           /\ Outcome(p, "answer", Secrets(tokens.issued + 1, Cookie(n, k.rotation + 1)))
  <2> DEFINE sec == Secrets(tokens.issued + 1, Cookie(n, k.rotation + 1))
  <2>1. Called(p, "answer", c, sec) /\ ~past'.reuse
    BY <1>8, Zenon DEF Outcome, AllFresh
  <2>2. sec.cookie.session = n /\ sec.cookie.rotation = k.rotation + 1
    BY DEF Secrets, Cookie
  <2> HIDE DEF sec
  <2>3. FreshNext(sec.cookie)
    BY <1>8, <2>2 DEF FreshNext, Current
  <2>4. Busy({"answer"})' /\ Busy({"answer", "save"})'
    BY <2>1 DEF Busy, Called
  <2>5. \A q \in Callers : call'[q].pc \in {"post", "answer", "save"} => FreshNext(call'[q].got.cookie)
    BY <1>4, <2>1, <2>3 DEF Called, Quiet
  <2>6. shell'.pc \notin Asking
    BY <1>2, <1>4 DEF ShellAt, Asking
  <2> QED
    BY <2>1, <2>4, <2>5, <2>6, AllFreshNext
<1>9. CASE /\ ~Current(k) /\ sessions'[n].rotation = sessions[n].rotation /\ ~sessions'[n].live
           /\ Outcome(p, "reject", Secrets(0, k))
  <2>1. ~sessions[n].live
    BY <1>2, <1>5, <1>9 DEF Fresh, Rotation, Current
  <2>2. SessionsEnd
    BY <1>2, <1>9 DEF SessionsEnd, Types
  <2>3. Fading
    BY <2>2, FadingSteps
  <2>4. past'.reuse => past.reuse
    BY <1>9, <2>1, Zenon DEF Outcome
  <2>5. \/ Called(p, "reject", c, Secrets(0, k))
        \/ Called(p, "idle", None, Blank)
    BY <1>9 DEF Outcome
  <2>6. Sent'.cookie = Sent.cookie
    BY <1>7, <1>9
  <2>7. call[p].pc = "post"
    BY <1>2 DEF At
  <2> QED
    BY <1>2, <2>3, <2>4, <2>5, <2>6, <2>7, CallStaysFresh
<1> QED
  BY <1>1, <1>6, <1>8, <1>9, PostOutcome

LEMMA CallsFresh ==
  ASSUME Types, Sound, InOrder, AllFresh, Types', ~past'.overlap, ~past'.lost,
         past.overlap => past'.overlap, past.lost => past'.lost,
         NEW p \in Callers, Call(p) \/ CallSteps(p) \/ Unreachable(p)
  PROVE  AllFresh'
<1> DEFINE c == call[p].on
           got == call[p].got
<1>1. /\ ~past.overlap /\ ~past.lost /\ OneClient /\ CallSound(p) /\ got \in Sec
      /\ ~At(p, "idle") => ShellAt("idle") /\ c = app.api
  BY DEF InOrder, Sound, OneClient, Types, CallRec
<1>2. UNCHANGED serverVars => Fading
  BY FadingSteps
<1>3. CASE Call(p)
  <2>1. PICK d \in Clients : Called(p, "refresh", d, Secrets(client[d].token, NoCookie))
    BY <1>3, CallEffect
  <2>2. At(p, "idle") /\ UNCHANGED <<serverVars, storeVars, client, app, shell, spent>>
    BY <1>3, CallEffect
  <2>3. past'.reuse => past.reuse
    BY <1>3, CallEffect, Zenon
  <2>4. Sent' = Sent /\ call[p].pc = "idle"
    BY <2>2, SentSame DEF At
  <2> QED
    BY <1>1, <1>2, <2>1, <2>2, <2>3, <2>4, CallStaysFresh
<1>4. CASE Refresh(p)
  <2>1. /\ At(p, "refresh") /\ c \in Clients /\ UNCHANGED <<serverVars, storeVars, app, shell, past>>
        /\ client[c].lock = None /\ call[p].pc = "refresh"
    BY <1>4, RefreshEffect DEF At
  <2>2. c = app.api
    BY <1>1, <2>1 DEF At
  <2>3. CASE /\ Changed(c, client[c].token, client[c].cookie, p)
             /\ Called(p, "post", c, Secrets(got.jwt, client[c].cookie))
    <3>1. Sent' = Sent
      BY <2>1, <2>2, <2>3, SentSame DEF Changed
    <3>2. Secrets(got.jwt, client[c].cookie).cookie = Sent.cookie
      BY <2>2 DEF Secrets, Sent, Pair
    <3>3. ~Busy({"answer"})
      <4>1. ASSUME NEW q \in Callers, call[q].pc = "answer" PROVE FALSE
        <5>1. client[call[q].on].lock = q /\ call[q].on = app.api
          BY <1>1, <4>1 DEF OneClient, At, Locked, Sound, CallSound
        <5> QED
          BY <2>1, <2>2, <5>1, NoneAssumption
      <4> QED
        BY <4>1 DEF Busy
    <3>4. FreshNext(Sent.cookie)
      BY <1>1, <1>2, <2>1, <3>3, FreshParts
    <3> QED
      BY <1>1, <1>2, <2>1, <2>3, <3>1, <3>2, <3>4, CallStaysFresh
  <2>4. CASE Called(p, "idle", None, Blank) /\ UNCHANGED client
    <3>1. Sent' = Sent
      BY <2>1, <2>4, SentSame
    <3> QED
      BY <1>1, <1>2, <2>1, <2>4, <3>1, CallStaysFresh
  <2> QED
    BY <1>4, <2>3, <2>4, RefreshEffect
<1>5. CASE Post(p)
  BY <1>1, <1>5, PostFresh
<1>6. CASE Unreachable(p)
  <2>1. /\ At(p, "post") /\ UNCHANGED <<serverVars, storeVars, app, shell, past>> /\ call[p].pc = "post"
        /\ Called(p, "idle", None, Blank) /\ Changed(c, client[c].token, client[c].cookie, None)
    BY <1>6, UnreachableEffect DEF At
  <2>2. Sent' = Sent
    BY <1>1, <2>1, SentSame DEF Changed, At
  <2> QED
    BY <1>1, <1>2, <2>1, <2>2, CallStaysFresh
<1>7. ASSUME call[p].pc \in {"answer", "save"}, UNCHANGED <<serverVars, shell, past>>,
             NEW pc \in {"save", "wsStop"}, Called(p, pc, c, got),
             pc = "wsStop" => FreshNext(Sent'.cookie) /\ ReadSecrets' = got,
             pc = "save" => Sent' = got
      PROVE  AllFresh'
  <2>1. FreshNext(got.cookie) /\ ~past'.reuse
    BY <1>1, <1>2, <1>7, FreshParts
  <2>2. call[p].pc \in Locked
    BY <1>7 DEF Locked, Saving
  <2>3. \A q \in Callers \ {p} : call[q].pc \in Quiet
    BY <1>1, <2>2, Alone
  <2>4. \A q \in Callers : call'[q].pc \in {"post", "answer", "save"} => FreshNext(call'[q].got.cookie)
    BY <1>7, <2>1, <2>3 DEF Called, Quiet
  <2>5. pc = "save" => Busy({"answer", "save"})'
    BY <1>7 DEF Busy, Called
  <2>6. shell'.pc \notin Asking
    BY <1>1, <1>7 DEF ShellAt, Asking, At
  <2> QED
    BY <1>7, <2>1, <2>4, <2>5, <2>6, AllFreshNext
<1>8. CASE Answered(p)
  <2>1. c \in Clients /\ UNCHANGED <<serverVars, storeVars, app, shell, past>>
    BY <1>8, AnsweredEffect
  <2>2. c = app.api
    BY <1>1, <1>8 DEF Answered, At
  <2>3. CASE /\ At(p, "answer") /\ Called(p, "save", c, got)
             /\ Changed(c, got.jwt, got.cookie, client[c].lock)
    <3>1. Sent' = got
      BY <1>1, <2>1, <2>2, <2>3 DEF Changed, Sent, Pair, Sec, Secrets
    <3> QED
      BY <1>7, <2>1, <2>3, <3>1 DEF At
  <2>4. CASE /\ At(p, "reject") /\ Called(p, "idle", None, Blank)
             /\ Changed(c, client[c].token, NoCookie, None)
    <3>1. Sent'.cookie = NoCookie /\ call[p].pc = "reject"
      BY <2>1, <2>2, <2>4 DEF Changed, Sent, Pair, Secrets, At
    <3> QED
      BY <1>1, <1>2, <2>1, <2>4, <3>1, CallStaysFresh
  <2> QED
    BY <1>8, <2>3, <2>4, AnsweredEffect
<1>9. CASE SaveRefreshed(p)
  <2>1. /\ At(p, "save") /\ Called(p, "wsStop", c, got) /\ Saves(got)
        /\ UNCHANGED <<serverVars, client, app, shell, past>>
    BY <1>9, SaveEffect
  <2>2. ReadSecrets' = got /\ Sent' = Sent
    BY <1>1, <2>1, StoreWrites, SentSame
  <2>3. call[p].pc \in Locked /\ call[p].pc = "save"
    BY <2>1 DEF At, Locked, Saving
  <2>4. ~Busy({"answer"})
    <3>1. \A q \in Callers \ {p} : call[q].pc \in Quiet
      BY <1>1, <2>3, Alone
    <3> QED
      BY <2>3, <3>1 DEF Busy, Quiet
  <2>5. FreshNext(Sent'.cookie)
    BY <1>1, <1>2, <2>1, <2>2, <2>4, FreshParts
  <2> QED
    BY <1>7, <2>1, <2>2, <2>3, <2>5
<1>10. CASE CallbackWs(p)
  <2>1. call[p].pc \in {"wsStop", "wsStart"} /\ call[p].pc \in Saving
    BY <1>10 DEF CallbackWs, At, Saving
  <2>2. got.jwt # 0 /\ c = app.api
    BY <1>1, <2>1 DEF CallSound, Issued, Types, At
  <2>3. c \in Clients /\ UNCHANGED <<serverVars, storeVars, shell, past>>
    BY <1>10, <2>2, CallbackEffect, Zenon DEF CallbackWs
  <2>4. CASE Called(p, "wsStart", c, got) /\ UNCHANGED client /\ AppSet(0, app.loops \ {app.ws})
    <3>1. Sent' = Sent
      BY <2>4, SentSame DEF AppSet
    <3> QED
      BY <1>1, <1>2, <2>1, <2>3, <2>4, <3>1, CallStaysFresh
  <2>5. CASE /\ Called(p, "idle", None, Blank) /\ Changed(c, client[c].token, client[c].cookie, None)
             /\ AppSet(got.jwt, app.loops \cup {got.jwt})
    <3>1. Sent' = Sent
      BY <2>2, <2>5, SentSame DEF AppSet, Changed
    <3> QED
      BY <1>1, <1>2, <2>1, <2>3, <2>5, <3>1, CallStaysFresh
  <2> QED
    BY <1>10, <2>2, <2>4, <2>5, CallbackEffect
<1> QED
  BY <1>3, <1>4, <1>5, <1>6, <1>8, <1>9, <1>10 DEF CallSteps

\* A step that is not a call's.
LEMMA RestStaysFresh ==
  ASSUME Types, Sound, AllFresh, ~past.overlap, ~past.lost, Fading, UNCHANGED call,
         past'.reuse => past.reuse,
         ~Busy({"answer"}) => FreshNext(Sent'.cookie),
         ~Busy({"answer", "save"}) => FreshNext(ReadSecrets'.cookie),
         shell'.pc \in Asking => FreshNext(shell'.got.cookie)
  PROVE  AllFresh'
<1>1. (Busy({"answer"})' <=> Busy({"answer"})) /\ (Busy({"answer", "save"})' <=> Busy({"answer", "save"}))
  BY DEF Busy
<1>2. \A q \in Callers : call'[q].pc \in {"post", "answer", "save"} => FreshNext(call'[q].got.cookie)
  BY FreshParts
<1>3. ~past'.reuse
  BY FreshParts
<1> QED
  BY <1>1, <1>2, <1>3, AllFreshNext

LEMMA ShellsFresh ==
  ASSUME Types, Sound, InOrder, AllFresh, ~past'.overlap, ~past'.lost,
         past.overlap => past'.overlap, past.lost => past'.lost,
         LoginRequest \/ LogoutTake \/ ShellSteps
  PROVE  AllFresh'
<1>1. ~past.overlap /\ ~past.lost /\ OneClient /\ ShellOrder
  BY DEF InOrder
<1>2. (UNCHANGED serverVars => Fading) /\ (SessionsEnd => Fading)
  BY FadingSteps
<1>3. Fading => /\ ~Busy({"answer"}) => FreshNext(Sent.cookie)
                /\ ~Busy({"answer", "save"}) => FreshNext(ReadSecrets.cookie)
                /\ shell.pc \in Asking => FreshNext(shell.got.cookie)
                /\ FreshNext(NoCookie)
  BY <1>1, FreshParts
<1>4. ~ShellAt("idle") => ~Busy({"answer"}) /\ ~Busy({"answer", "save"})
  BY <1>1 DEF OneClient, Busy, At
<1>5. CASE LoginRequest
  <2> DEFINE n == spent.logins + 1
  <2>1. /\ UNCHANGED <<storeVars, client, app, call>>
        /\ n \in Logins /\ sessions'[n].rotation = 0 /\ \A m \in Logins \ {n} : sessions'[m] = sessions[m]
        /\ ShellSet("loginSettings", Secrets(tokens.issued + 1, Cookie(n, 0)))
    BY <1>5, LoginRequestEffect
  <2>2. past'.reuse => past.reuse
    BY <1>5, LoginRequestEffect, Zenon
  <2>3. Fading
    <3>1. \A m \in 1..spent.logins : m \in Logins \ {n}
      BY BoundsAssumption DEF Types, Logins
    <3> QED
      BY <2>1, <3>1 DEF Fading
  <2>4. Sent' = Sent /\ ReadSecrets' = ReadSecrets
    BY <2>1 DEF Sent, Pair, ReadSecrets, storeVars
  <2>5. FreshNext(shell'.got.cookie)
    <3>1. shell'.got.cookie.session = n /\ shell'.got.cookie.rotation = 0
      BY <2>1 DEF ShellSet, Secrets, Cookie
    <3> QED
      BY <2>1, <3>1 DEF FreshNext
  <2> QED
    BY <1>1, <1>3, <2>1, <2>2, <2>3, <2>4, <2>5, RestStaysFresh
<1>6. CASE LogoutTake
  <2>1. /\ app.api \in Clients /\ UNCHANGED <<serverVars, storeVars, app, call, spent>>
        /\ ShellSet("logoutPost", Secrets(0, client[app.api].cookie))
        /\ Changed(app.api, client[app.api].token, NoCookie, client[app.api].lock)
    BY <1>6, LogoutTakeEffect
  <2>2. past'.reuse => past.reuse
    BY <1>6, LogoutTakeEffect, Zenon
  <2>3. Sent'.cookie = NoCookie /\ ReadSecrets' = ReadSecrets /\ shell'.pc \notin Asking
    BY <2>1 DEF Sent, Pair, Secrets, Changed, ReadSecrets, storeVars, ShellSet, ShellAt, Asking
  <2> QED
    BY <1>1, <1>2, <1>3, <2>1, <2>2, <2>3, RestStaysFresh
<1>7. CASE LoginSave \/ LogoutSave
  <2>1. UNCHANGED <<serverVars, client, app, call, past>>
    BY <1>7, ShellSaveEffect
  <2>2. /\ \/ ShellAt("loginSave") /\ Saves(shell.got) /\ shell.got \in Sec
           \/ ShellAt("logoutSave") /\ Saves(Blank) /\ Blank \in Sec
        /\ shell'.pc \notin Asking
    BY <1>7, ShellSaveEffect DEF ShellSet, Asking
  <2>3. Sent' = Sent
    BY <2>1 DEF Sent, Pair
  <2>4. FreshNext(ReadSecrets'.cookie)
    <3>1. ASSUME ShellAt("loginSave"), Saves(shell.got), shell.got \in Sec
          PROVE  FreshNext(ReadSecrets'.cookie)
      <4>1. ReadSecrets' = shell.got
        BY <3>1, StoreWrites
      <4> QED
        BY <1>2, <1>3, <2>1, <3>1, <4>1 DEF ShellAt, Asking
    <3>2. ASSUME Saves(Blank), Blank \in Sec PROVE FreshNext(ReadSecrets'.cookie)
      <4>1. ReadSecrets' = Blank
        BY <3>2, StoreWrites
      <4> QED
        BY <1>2, <1>3, <2>1, <4>1, SecretTypes
    <3> QED
      BY <2>2, <3>1, <3>2
  <2> QED
    BY <1>1, <1>2, <1>3, <2>1, <2>2, <2>3, <2>4, RestStaysFresh
<1>8. CASE LoginAPI \/ LogoutAPI
  <2>1. UNCHANGED <<serverVars, storeVars, call, spent, past>> /\ NewAPI
    BY <1>8, ShellAPIEffect
  <2>2. Sent'.cookie = ReadSecrets.cookie /\ ReadSecrets' = ReadSecrets
    <3>1. client'[app'.api].cookie = ReadSecrets.cookie
      BY <2>1, NewClients
    <3> QED
      BY <2>1, <3>1 DEF Sent, Pair, Secrets, ReadSecrets, storeVars
  <2>3. shell'.pc \notin Asking /\ ~ShellAt("idle")
    BY <1>8, ShellAPIEffect DEF ShellSet, ShellAt, Asking
  <2> QED
    BY <1>1, <1>2, <1>3, <1>4, <2>1, <2>2, <2>3, RestStaysFresh
<1>9. CASE LoginWs \/ LoginEngine \/ LogoutStop
  <2>1. shell.pc \in Entering => shell.got.jwt # 0
    BY DEF Sound, ShellSound, Issued, Types
  <2>2. UNCHANGED <<serverVars, storeVars, client, call, spent, past>>
    BY <1>9 DEF LoginWs, LoginEngine, LogoutStop
  <2>3. app'.api = app.api /\ shell'.pc \notin Asking
    <3>1. CASE LoginWs
      <4>1. shell.got.jwt # 0
        BY <2>1, <3>1 DEF LoginWs, ShellAt, Entering
      <4> QED
        BY <3>1, <4>1, ShellWsEffect DEF AppSet, ShellSet, ShellAt, Asking
    <3>2. CASE LoginEngine \/ LogoutStop
      BY <3>2, ShellEndEffect DEF ShellSet, ShellAt, Asking
    <3> QED
      BY <1>9, <3>1, <3>2
  <2>4. Sent' = Sent /\ ReadSecrets' = ReadSecrets
    BY <2>2, <2>3 DEF Sent, Pair, ReadSecrets, storeVars
  <2> QED
    BY <1>1, <1>2, <1>3, <2>2, <2>3, <2>4, RestStaysFresh
<1>10. CASE LogoutPost
  <2>1. /\ ShellSet("logoutSettings", shell.got) /\ SessionsEnd
        /\ UNCHANGED <<tokens, storeVars, client, app, call, past>>
    BY <1>10, LogoutPostEffect DEF Sound
  <2>2. Sent' = Sent /\ ReadSecrets' = ReadSecrets /\ shell'.pc \notin Asking
    BY <2>1 DEF Sent, Pair, ReadSecrets, storeVars, ShellSet, ShellAt, Asking
  <2> QED
    BY <1>1, <1>2, <1>3, <2>1, <2>2, RestStaysFresh
<1>11. CASE LoginSettings \/ LogoutSettings
  <2>1. UNCHANGED <<serverVars, keyring, file, client, app, call, past>>
    BY <1>11, SettingsEffect
  <2>2. Sent' = Sent /\ ReadSecrets' = ReadSecrets
    BY <2>1 DEF Sent, Pair, ReadSecrets
  <2>3. shell'.pc \in Asking => shell.pc \in Asking /\ shell'.got = shell.got
    BY <1>11, SettingsEffect DEF ShellSet, ShellAt, Asking
  <2> QED
    BY <1>1, <1>2, <1>3, <2>1, <2>2, <2>3, RestStaysFresh
<1> QED
  BY <1>5, <1>6, <1>7, <1>8, <1>9, <1>10, <1>11 DEF ShellSteps

\* Where nothing that was received is lost, the store has it, or the login that
\* is being saved.
LEMMA RestartFresh ==
  ASSUME Types, Sound, InOrder, AllFresh, ~past'.overlap, ~past'.lost,
         past.overlap => past'.overlap, past.lost => past'.lost, Restart
  PROVE  AllFresh'
<1>1. ~past.overlap /\ ~past.lost
  OBVIOUS
<1>2. PICK sec \in Sec :
        /\ disk = file => sec \in {ReadSecrets, Blank} \cup Pending
        /\ ReadSecrets' = sec /\ Started(sec)
  BY Restarting DEF Sound
<1>3. UNCHANGED serverVars
  BY Restarting DEF Sound
<1>4. (past'.reuse => past.reuse) /\ ~CutShort /\ disk = file
  BY Restarting, Zenon DEF Sound
<1>5. Fading
  BY <1>3, FadingSteps
<1>6. \A p \in Callers : call[p].pc \notin {"answer", "save"}
  BY <1>4 DEF CutShort
<1>7. FreshNext(sec.cookie)
  <2>1. /\ FreshNext(ReadSecrets.cookie) /\ FreshNext(Blank.cookie)
        /\ ShellAt("loginSave") => FreshNext(shell.got.cookie)
    BY <1>1, <1>5, <1>6, FreshParts, SecretTypes DEF Busy, ShellAt, Asking
  <2>2. Pending \subseteq {Blank} \cup (IF ShellAt("loginSave") THEN {shell.got} ELSE {})
    BY <1>6 DEF Pending, At
  <2> QED
    BY <1>2, <1>4, <2>1, <2>2
<1>8. /\ Sent'.cookie = sec.cookie /\ (\A p \in Callers : call'[p].pc = "idle")
      /\ shell'.pc \notin Asking
  BY <1>2, StartedTypes DEF Sent, Pair, Secrets, At, Asking
<1>9. ~past'.reuse
  BY <1>1, <1>4, <1>5, FreshParts
<1> QED
  BY <1>2, <1>7, <1>8, <1>9, AllFreshNext

LEMMA FreshStep ==
  ASSUME RotationInv, InOrder, AllFresh, [Next]_vars
  PROVE  AllFresh'
<1>1. Types /\ Sound /\ Types'
  BY SessionTypes DEF RotationInv
<1>2. (past.overlap => past'.overlap) /\ (past.lost => past'.lost)
  BY <1>1, PastGrows
<1>3. CASE past'.overlap \/ past'.lost
  BY <1>3 DEF AllFresh
<1>4. CASE ~past'.overlap /\ ~past'.lost
  <2>1. /\ ~past.overlap /\ ~past.lost
    BY <1>2, <1>4
  <2>2. CASE UNCHANGED vars \/ Expire \/ \E n \in Logins : GraceEnds(n) \/ Revoke(n)
    <3>1. UNCHANGED <<storeVars, client, app, call, shell, past>>
      BY <2>2 DEF vars, Expire, GraceEnds, Revoke
    <3>2. Fading
      <4>1. CASE UNCHANGED vars
        BY <1>1, <4>1, FadingSteps DEF vars
      <4>2. CASE Expire
        BY <4>2 DEF Expire, Fading
      <4>3. ASSUME NEW n \in Logins, GraceEnds(n) \/ Revoke(n) PROVE Fading
        BY <1>1, <4>3, ServerEffect, FadingSteps
      <4> QED
        BY <2>2, <4>1, <4>2, <4>3
    <3>3. Sent' = Sent /\ ReadSecrets' = ReadSecrets /\ (shell'.pc \in Asking <=> shell.pc \in Asking)
      BY <3>1 DEF Sent, Pair, ReadSecrets, storeVars, ShellAt
    <3> QED
      BY <1>1, <2>1, <3>1, <3>2, <3>3, FreshParts, RestStaysFresh
  <2>3. CASE LoginRequest \/ LogoutTake \/ ShellSteps
    BY <1>1, <1>2, <1>4, <2>3, ShellsFresh
  <2>4. ASSUME NEW p \in Callers, Call(p) \/ CallSteps(p) \/ Unreachable(p) PROVE AllFresh'
    BY <1>1, <1>2, <1>4, <2>4, CallsFresh
  <2>5. CASE Restart
    BY <1>1, <1>2, <1>4, <2>5, RestartFresh
  <2>6. CASE SaveSettings
    <3>1. /\ UNCHANGED <<serverVars, client, app, call, shell, past>>
          /\ Sent' = Sent /\ ReadSecrets' = ReadSecrets
      BY <2>6 DEF SaveSettings, Sent, Pair, ReadSecrets
    <3>2. Fading
      BY <1>1, <3>1, FadingSteps
    <3> QED
      BY <1>1, <2>1, <3>1, <3>2, FreshParts, RestStaysFresh
  <2> QED
    BY <2>2, <2>3, <2>4, <2>5, <2>6 DEF Next
<1> QED
  BY <1>3, <1>4

---------------------------------------------------------------------------
(* The theorems about what a refresh and a login leave behind.             *)

LEMMA SessionInit == ASSUME Init PROVE SessionInv
<1>1. RotationInv
  BY RotationInit
<1> DEFINE c == CHOOSE d \in Clients : TRUE
           first == Secrets(1, Cookie(1, 0))
<1>2. /\ first \in Sec /\ first.jwt = 1 /\ first.cookie.session = 1 /\ first.cookie.rotation = 0
      /\ c \in Clients
  BY SecretTypes
<1>3. ReadSecrets = first
  BY <1>2, SecretTypes DEF Init, ReadSecrets
<1>4. app.api = c /\ app.engineApi = c /\ app.ws = 1 /\ app.loops = {1}
  BY DEF Init
<1>5. Sent = first
  <2>1. client[c] = NewClient(first)
    BY <1>2 DEF Init
  <2> QED
    BY <1>4, <2>1 DEF Sent, Pair, NewClient, Secrets
<1>6. (\A p \in Callers : call[p].pc = "idle") /\ shell.pc = "idle"
  BY DEF Init, Idle
<1> HIDE DEF c, first
<1>7. InOrder
  <2>1. OneClient /\ \A p \in Callers : CallOrder(p)
    BY <1>4, <1>6 DEF OneClient, CallOrder, At, Saving
  <2>2. ShellOrder /\ RestOrder
    BY <1>2, <1>3, <1>4, <1>5, <1>6 DEF ShellOrder, RestOrder, ShellAt, Entering, Parting
  <2> QED
    BY <1>4, <2>1, <2>2 DEF InOrder
<1>8. AllFresh
  <2>1. sessions[1].rotation = 0
    BY SecretTypes DEF Init
  <2>2. Fresh(first.cookie)
    BY <1>2, <2>1 DEF Fresh, Rotation
  <2>3. ~past.reuse
    BY DEF Init
  <2> QED
    BY <1>3, <1>5, <1>6, <2>2, <2>3 DEF AllFresh, Asking
<1> QED
  BY <1>1, <1>7, <1>8 DEF RotationInv, SessionInv

LEMMA SessionInvariant == Spec => []SessionInv
<1>1. Init => SessionInv
  BY SessionInit
<1>2. SessionInv /\ [Next]_vars => SessionInv'
  BY RotationStep, OrderStep, FreshStep DEF SessionInv, RotationInv
<1> QED
  BY <1>1, <1>2, PTL DEF Spec

\* The server drops a live session only where its client had no chance: an
\* answer was lost, the process ended before the answer was saved or settings.json
\* was written, or a login or logout came in between.
THEOREM OnlyLossesLookLikeTheft == Spec => []ReuseExplained
<1>1. SessionInv => ReuseExplained
  BY DEF SessionInv, AllFresh, ReuseExplained
<1> QED
  BY <1>1, SessionInvariant, PTL

\* At rest what is stored is what the client of the screens holds, and a restart
\* would find it, however often the keyring refused, where settings.json could be
\* written and no login failed halfway.
THEOREM StoreFollowsClient == Spec => []SecretsKept
<1>1. ASSUME SessionInv PROVE SecretsKept
  <2> DEFINE held == Secrets(client[app.api].token, client[app.api].cookie)
  <2>1. ASSUME AtRest, ~past.overlap, ~torn, client[app.api].cookie # NoCookie
        PROVE  ReadSecrets = held
    <3>1. shell.pc \in Early /\ ~Busy({"save"})
      BY <2>1 DEF AtRest, Early, Busy
    <3>2. Sent.cookie = client[app.api].cookie
      BY DEF Sent, Pair, Secrets
    <3>3. ReadSecrets = Sent
      BY <1>1, <2>1, <3>1, <3>2 DEF SessionInv, InOrder, RestOrder
    <3> QED
      BY <3>3 DEF Sent, Pair
  <2>2. ASSUME disk = file PROVE Migrated(keyring, disk) = ReadSecrets
    <3>1. /\ file \in Sec
          /\ file # Blank => keyring = None /\ file.jwt # 0 /\ file.cookie # NoCookie
      BY <1>1 DEF SessionInv, Types, Sound, StoresSound, Issued, Earned, NoCookie
    <3> QED
      BY <2>2, <3>1, SecretTypes DEF Migrated, ReadSecrets
  <2> QED
    BY <2>1, <2>2 DEF SecretsKept
<1> QED
  BY <1>1, SessionInvariant, PTL

\* Every event loop that runs is the one that the shell would stop.
THEOREM NoStrayLoop == Spec => []WsOwned
<1>1. SessionInv => WsOwned
  BY DEF SessionInv, InOrder, WsOwned
<1> QED
  BY <1>1, SessionInvariant, PTL

\* At rest the event client of a running engine has the newest access token.
THEOREM EventsFollowToken == Spec => []WsNewest
<1>1. ASSUME SessionInv PROVE WsNewest
  <2>1. ASSUME AtRest, ~past.overlap, app.running PROVE app.ws = client[app.api].token
    <3>1. shell.pc \in Early /\ ~Busy(Saving)
      BY <2>1 DEF AtRest, Early, Busy, Saving
    <3>2. app.ws = Sent.jwt
      BY <1>1, <2>1, <3>1 DEF SessionInv, InOrder, RestOrder
    <3> QED
      BY <3>2 DEF Sent, Pair, Secrets
  <2> QED
    BY <2>1 DEF WsNewest
<1> QED
  BY <1>1, SessionInvariant, PTL
=============================================================================
