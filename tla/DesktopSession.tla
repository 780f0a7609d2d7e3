--------------------------- MODULE DesktopSession ---------------------------
(***************************************************************************)
(* The session of the desktop client: the API clients that refresh it, the *)
(* shell that logs in and out, the secrets kept in the keyring or in the   *)
(* settings file, which may fail to be written, and the event client that  *)
(* needs the access token.  The server's side of a refresh is one step     *)
(* here; Accounts has its parts.                                           *)
(***************************************************************************)
EXTENDS Naturals, FiniteSets

CONSTANTS Callers,     \* goroutines that make API calls, Engine one of them
          Engine,
          Clients,     \* apiclient.Client objects, reused when nobody holds them
          MaxLogins,   \* bound: sessions
          MaxExpiries, \* bound: times that the access tokens expire
          MaxFaults,   \* bound: messages lost, writes of secrets that go wrong,
                       \* ends of the process, revocations
          None

ASSUME EngineAssumption == Engine \in Callers
ASSUME BoundsAssumption == Clients # {} /\ MaxLogins \in Nat \ {0}
ASSUME NoneAssumption ==
  None \notin Callers \cup [jwt : Nat, cookie : [session : Nat, rotation : Nat]]

VARIABLES sessions, \* the server's refresh sessions
          tokens,   \* access tokens: the newest, and the newest expired one
          keyring,  \* the keyring entry of the server's URL, or None
          file,     \* the credentials in Store.d, to be written to settings.json
          disk,     \* those in settings.json, as of the last flush that succeeded
          torn,     \* history: a login failed after it had stored its secrets
          client,   \* the state of each API client
          app,      \* the shell's fields: api, the engine's client, the event loops
          call,     \* what each caller is doing
          shell,    \* what Login or Logout is doing
          spent,    \* how much of each bound is used
          past      \* what happened, for the properties

serverVars == <<sessions, tokens>>
storeVars == <<keyring, file, disk, torn>>
vars == <<serverVars, storeVars, client, app, call, shell, spent, past>>

Logins == 1..MaxLogins

\* A refresh cookie names its session and the rotation that issued it.
NoCookie == [session |-> 0, rotation |-> 0]
Cookie(s, n) == [session |-> s, rotation |-> n]
Secrets(jwt, cookie) == [jwt |-> jwt, cookie |-> cookie]
Blank == Secrets(0, NoCookie)

\* lock is refreshMu.
NewClient(sec) == [token |-> sec.jwt, cookie |-> sec.cookie, lock |-> None]
Idle == [pc |-> "idle", on |-> None, got |-> Blank]
InUse == {app.api, app.engineApi} \cup {call[p].on : p \in Callers}

Spend(what, max) == spent[what] < max /\ spent' = [spent EXCEPT ![what] = @ + 1]
MayFail(fails) == IF fails THEN Spend("faults", MaxFaults) ELSE UNCHANGED spent

\* The user is logged in and the program has just been started.
Init ==
  /\ sessions = [s \in Logins |-> [live |-> s = 1, rotation |-> 0, grace |-> FALSE]]
  /\ tokens = [issued |-> 1, expired |-> 0]
  /\ keyring = Secrets(1, Cookie(1, 0)) /\ file = Blank /\ disk = Blank /\ torn = FALSE
  /\ LET c == CHOOSE d \in Clients : TRUE IN
       /\ app = [api |-> c, engineApi |-> c, running |-> TRUE, ws |-> 1, loops |-> {1}]
       /\ client = [d \in Clients |-> NewClient(IF d = c THEN keyring ELSE Blank)]
  /\ call = [p \in Callers |-> Idle]
  /\ shell = Idle
  /\ spent = [logins |-> 1, expiries |-> 0, faults |-> 0]
  /\ past = [reuse |-> FALSE, lost |-> FALSE, overlap |-> FALSE]

---------------------------------------------------------------------------
(* The settings store.                                                     *)

ReadSecrets == IF keyring # None THEN keyring ELSE file

\* The entry goes to the keyring and the file is blanked, or the other way
\* round when the keyring refuses to have it; it never refuses to drop one.
\* Mutant: an entry that cannot be replaced stays.
KeyringLeft(sec, fails) == IF sec = Blank THEN None ELSE IF fails THEN keyring ELSE sec
KeyringAfter(sec, fails) == IF sec = Blank \/ fails THEN None ELSE sec
FileAfter(sec, fails) == IF sec # Blank /\ fails THEN sec ELSE Blank

\* The flush comes last: when it fails, what is stored is new nevertheless, and
\* only settings.json is not.
UpdateSecrets(sec, flushed) ==
  \E fails \in BOOLEAN :
    /\ MayFail(fails \/ ~flushed)
    /\ keyring' = KeyringAfter(sec, fails) /\ file' = FileAfter(sec, fails)
    /\ disk' = IF flushed THEN file' ELSE disk

\* Any other Save writes all of Store.d.
SaveSettings ==
  /\ disk # file /\ disk' = file
  /\ UNCHANGED <<serverVars, keyring, file, torn, client, app, call, shell, spent, past>>

\* What migrateSecrets makes of the two: values in the file win.
Migrated(k, f) ==
  IF f = Blank THEN IF k = None THEN Blank ELSE k
  ELSE LET sec == IF k # None THEN k ELSE f IN
         Secrets(IF f.jwt # 0 THEN f.jwt ELSE sec.jwt,
                 IF f.cookie # NoCookie THEN f.cookie ELSE sec.cookie)

---------------------------------------------------------------------------
(* The server.                                                             *)

Expire ==
  /\ tokens.expired < tokens.issued /\ Spend("expiries", MaxExpiries)
  /\ tokens' = [tokens EXCEPT !.expired = tokens.issued]
  /\ UNCHANGED <<sessions, storeVars, client, app, call, shell, past>>

GraceEnds(s) ==
  /\ sessions[s].grace
  /\ sessions' = [sessions EXCEPT ![s].grace = FALSE]
  /\ UNCHANGED <<tokens, storeVars, client, app, call, shell, spent, past>>

\* Another client of the user revokes the session.
Revoke(s) ==
  /\ sessions[s].live /\ Spend("faults", MaxFaults)
  /\ sessions' = [sessions EXCEPT ![s].live = FALSE]
  /\ UNCHANGED <<tokens, storeVars, client, app, call, shell, past>>

---------------------------------------------------------------------------
(* A call of a client: the 401, the refresh, the callback.                 *)

At(p, pc) == call[p].pc = pc
Go(p, pc) == call' = [call EXCEPT ![p].pc = pc]
Unlocked(p) == [client EXCEPT ![call[p].on].lock = None]

\* Notes that a refresh and a change of the session by the shell overlap.
Overlapping(does) == past' = [past EXCEPT !.overlap = @ \/ does]
Refreshing == \E p \in Callers : ~At(p, "idle")

\* A call that the server answers with 401; any other changes nothing here.
Call(p) ==
  LET c == IF p = Engine THEN app.engineApi ELSE app.api IN
    /\ At(p, "idle") /\ (p = Engine => app.running)
    /\ client[c].token <= tokens.expired
    /\ call' = [call EXCEPT ![p] = [pc |-> "refresh", on |-> c, got |-> Secrets(client[c].token, NoCookie)]]
    /\ Overlapping(shell.pc # "idle")
    /\ UNCHANGED <<serverVars, storeVars, client, app, shell, spent>>

\* Under refreshMu: another caller may have refreshed already, or there may be
\* nothing to refresh with.
\* Mutant: the token is not compared.
StaleAlways(p) == TRUE
Stale(p) == client[call[p].on].token = call[p].got.jwt

Refresh(p) ==
  LET c == call[p].on IN
    /\ At(p, "refresh") /\ client[c].lock = None
    /\ IF Stale(p) /\ client[c].cookie # NoCookie
       THEN /\ client' = [client EXCEPT ![c].lock = p]
            /\ call' = [call EXCEPT ![p].pc = "post", ![p].got.cookie = client[c].cookie]
       ELSE call' = [call EXCEPT ![p] = Idle] /\ UNCHANGED client
    /\ UNCHANGED <<serverVars, storeVars, app, shell, spent, past>>

Current(k) == sessions[k.session].live /\ k.rotation = sessions[k.session].rotation
InGrace(k) == /\ sessions[k.session].live /\ sessions[k.session].grace
              /\ k.rotation + 1 = sessions[k.session].rotation

\* Mutant: the same token is given out again.
IssueNone == UNCHANGED tokens
Issue == tokens' = [tokens EXCEPT !.issued = @ + 1]

\* The answer, which may be lost.
Answer(p, pc, sec) ==
  LET k == call[p].got.cookie IN
    \E fails \in BOOLEAN :
      /\ MayFail(fails)
      /\ IF fails THEN call' = [call EXCEPT ![p] = Idle] /\ client' = Unlocked(p)
         ELSE call' = [call EXCEPT ![p] = [@ EXCEPT !.pc = pc, !.got = sec]] /\ UNCHANGED client
      /\ past' = [past EXCEPT !.lost = @ \/ (fails /\ Current(k)),
                              !.reuse = @ \/ (pc = "reject" /\ sessions[k.session].live)]

\* The server rotates the cookie, answers without one in the grace period, or
\* rejects it and drops the session.
Post(p) ==
  LET k == call[p].got.cookie IN
    /\ At(p, "post")
    /\ IF Current(k)
       THEN /\ sessions' = [sessions EXCEPT ![k.session].rotation = @ + 1, ![k.session].grace = TRUE]
            /\ Issue /\ Answer(p, "answer", Secrets(tokens.issued + 1, Cookie(k.session, k.rotation + 1)))
       ELSE IF InGrace(k)
       THEN Issue /\ Answer(p, "answer", Secrets(tokens.issued + 1, k)) /\ UNCHANGED sessions
       ELSE /\ sessions' = [sessions EXCEPT ![k.session].live = FALSE]
            /\ Answer(p, "reject", Secrets(0, k)) /\ UNCHANGED tokens
    /\ UNCHANGED <<storeVars, app, shell>>

\* The request does not reach the server.
Unreachable(p) ==
  /\ At(p, "post") /\ Spend("faults", MaxFaults)
  /\ client' = Unlocked(p) /\ call' = [call EXCEPT ![p] = Idle]
  /\ UNCHANGED <<serverVars, storeVars, app, shell, past>>

Answered(p) ==
  LET c == call[p].on
      got == call[p].got IN
    /\ \/ /\ At(p, "answer") /\ Go(p, "save")
          /\ client' = [client EXCEPT ![c].token = got.jwt, ![c].cookie = got.cookie]
       \/ /\ At(p, "reject") /\ call' = [call EXCEPT ![p] = Idle]
          /\ client' = [client EXCEPT ![c].cookie = NoCookie, ![c].lock = None]
    /\ UNCHANGED <<serverVars, storeVars, app, shell, spent, past>>

\* The callback saves the credentials and restarts the event client, both
\* with refreshMu held; it goes on when the flush fails.
\* Mutant: the stored cookie is left as it was.
SaveTokenOnly(p) ==
  /\ At(p, "save") /\ Go(p, "wsStop")
  /\ \E flushed \in BOOLEAN : UpdateSecrets(Secrets(call[p].got.jwt, ReadSecrets.cookie), flushed)
  /\ torn' = FALSE
  /\ UNCHANGED <<serverVars, client, app, shell, past>>
SaveRefreshed(p) ==
  /\ At(p, "save") /\ Go(p, "wsStop")
  /\ \E flushed \in BOOLEAN : UpdateSecrets(call[p].got, flushed)
  /\ torn' = FALSE
  /\ UNCHANGED <<serverVars, client, app, shell, past>>

\* Mutant: the loop is forgotten and goes on.
WsForgotten == [app EXCEPT !.ws = 0]
WsStopped == [app EXCEPT !.ws = 0, !.loops = @ \ {app.ws}]
WsStarted(jwt) == IF jwt = 0 THEN app ELSE [app EXCEPT !.ws = jwt, !.loops = @ \cup {jwt}]

\* Mutant: the event client keeps its token.
CallbackIdle(p) ==
  /\ At(p, "wsStop") /\ client' = Unlocked(p) /\ call' = [call EXCEPT ![p] = Idle]
  /\ UNCHANGED <<serverVars, storeVars, app, shell, spent, past>>
CallbackWs(p) ==
  /\ \/ At(p, "wsStop") /\ app' = WsStopped /\ Go(p, "wsStart") /\ UNCHANGED client
     \/ /\ At(p, "wsStart") /\ app' = WsStarted(call[p].got.jwt)
        /\ client' = Unlocked(p) /\ call' = [call EXCEPT ![p] = Idle]
  /\ UNCHANGED <<serverVars, storeVars, shell, spent, past>>

---------------------------------------------------------------------------
(* Login and Logout.  The user waits for one before asking for the next.   *)

ShellAt(pc) == shell.pc = pc
ShellGo(pc) == shell' = [shell EXCEPT !.pc = pc]

\* newAPI, with the secrets that are stored by now.
NewAPI ==
  LET free == Clients \ InUse
      c == CHOOSE d \in free : TRUE IN
    /\ free # {}
    /\ client' = [d \in Clients |-> IF d = c THEN NewClient(ReadSecrets)
                                   ELSE IF d \in free THEN NewClient(Blank) ELSE client[d]]
    /\ app' = [app EXCEPT !.api = c]

LoginRequest ==
  LET s == spent.logins + 1 IN
    /\ ShellAt("idle") /\ Spend("logins", MaxLogins)
    /\ sessions' = [sessions EXCEPT ![s] = [live |-> TRUE, rotation |-> 0, grace |-> FALSE]]
    /\ Issue
    /\ shell' = [pc |-> "loginSettings", on |-> None, got |-> Secrets(tokens.issued + 1, Cookie(s, 0))]
    /\ Overlapping(Refreshing)
    /\ UNCHANGED <<storeVars, client, app, call>>

\* The settings are saved first; Login and Logout return when that fails.
SettingsSaved(from, to) ==
  /\ ShellAt(from)
  /\ \E flushed \in BOOLEAN :
       /\ MayFail(~flushed)
       /\ IF flushed THEN ShellGo(to) /\ disk' = file ELSE shell' = Idle /\ UNCHANGED disk
  /\ UNCHANGED <<serverVars, keyring, file, torn, client, app, call, past>>

LoginSettings == SettingsSaved("loginSettings", "loginSave")

\* When the flush fails here, Login returns with its secrets stored, and the
\* client of before goes on.
LoginSave ==
  /\ ShellAt("loginSave")
  /\ \E flushed \in BOOLEAN :
       /\ UpdateSecrets(shell.got, flushed)
       /\ IF flushed THEN ShellGo("loginAPI") ELSE shell' = Idle
       /\ torn' = ~flushed
  /\ UNCHANGED <<serverVars, client, app, call, past>>

LoginAPI ==
  /\ ShellAt("loginAPI") /\ ShellGo("loginStop")
  /\ NewAPI
  /\ UNCHANGED <<serverVars, storeVars, call, spent, past>>

LoginWs ==
  /\ \/ ShellAt("loginStop") /\ ShellGo("loginStart") /\ app' = WsStopped
     \/ ShellAt("loginStart") /\ ShellGo("loginEngine") /\ app' = WsStarted(shell.got.jwt)
  /\ UNCHANGED <<serverVars, storeVars, client, call, spent, past>>

LoginEngine ==
  /\ ShellAt("loginEngine") /\ shell' = Idle
  /\ app' = [app EXCEPT !.engineApi = app.api, !.running = TRUE]
  /\ UNCHANGED <<serverVars, storeVars, client, call, spent, past>>

\* Logout takes the cookie without refreshMu.
LogoutTake ==
  /\ ShellAt("idle") /\ app.running
  /\ shell' = [pc |-> "logoutPost", on |-> None, got |-> Secrets(0, client[app.api].cookie)]
  /\ client' = [client EXCEPT ![app.api].cookie = NoCookie]
  /\ Overlapping(Refreshing)
  /\ UNCHANGED <<serverVars, storeVars, app, call, spent>>

LogoutPost ==
  LET k == shell.got.cookie IN
    /\ ShellAt("logoutPost") /\ ShellGo("logoutSettings")
    /\ \E fails \in BOOLEAN :
         /\ MayFail(fails)
         /\ sessions' = IF fails \/ k = NoCookie THEN sessions
                        ELSE [sessions EXCEPT ![k.session].live = FALSE]
    /\ UNCHANGED <<tokens, storeVars, client, app, call, past>>

LogoutSettings == SettingsSaved("logoutSettings", "logoutSave")

\* When a flush fails, Logout returns and leaves the event client and the engine
\* running.
LogoutSave ==
  /\ ShellAt("logoutSave")
  /\ \E flushed \in BOOLEAN :
       /\ UpdateSecrets(Blank, flushed)
       /\ IF flushed THEN ShellGo("logoutAPI") ELSE shell' = Idle
  /\ torn' = FALSE
  /\ UNCHANGED <<serverVars, client, app, call, past>>

LogoutAPI ==
  /\ ShellAt("logoutAPI") /\ ShellGo("logoutStop")
  /\ NewAPI
  /\ UNCHANGED <<serverVars, storeVars, call, spent, past>>

LogoutStop ==
  /\ ShellAt("logoutStop") /\ shell' = Idle
  /\ app' = [WsStopped EXCEPT !.running = FALSE]
  /\ UNCHANGED <<serverVars, storeVars, client, call, spent, past>>

---------------------------------------------------------------------------
(* The process ends, perhaps between the keyring and the file, and starts. *)

Pending == {call[p].got : p \in {q \in Callers : At(q, "save")}}
           \cup (IF ShellAt("loginSave") THEN {shell.got} ELSE {})
           \cup (IF ShellAt("logoutSave") THEN {Blank} ELSE {})

\* What was received and is not saved yet is lost.
CutShort == \E p \in Callers : call[p].pc \in {"answer", "save"}

Started(sec) ==
  LET c == CHOOSE d \in Clients : TRUE IN
    /\ app' = [api |-> c, engineApi |-> c, running |-> sec # Blank,
               ws |-> sec.jwt, loops |-> {sec.jwt} \ {0}]
    /\ client' = [d \in Clients |-> NewClient(IF d = c THEN sec ELSE Blank)]
    /\ call' = [p \in Callers |-> Idle] /\ shell' = Idle

\* The next process reads what is in settings.json.  (It does not come up when
\* it cannot write there, and changes nothing then but to migrate.)
Restart ==
  /\ Spend("faults", MaxFaults)
  /\ \E k \in {keyring} \cup {KeyringAfter(sec, fails) : sec \in Pending, fails \in BOOLEAN} :
       LET sec == Migrated(k, disk) IN
         /\ IF disk = Blank THEN keyring' = k /\ file' = Blank /\ UNCHANGED disk
            ELSE \E fails \in BOOLEAN :
                   /\ keyring' = KeyringAfter(sec, fails) /\ file' = FileAfter(sec, fails)
                   /\ disk' = file'
         /\ Started(sec)
  /\ torn' = FALSE
  /\ past' = [past EXCEPT !.lost = @ \/ CutShort \/ disk # file]
  /\ UNCHANGED serverVars

---------------------------------------------------------------------------
CallSteps(p) == Refresh(p) \/ Post(p) \/ Answered(p) \/ SaveRefreshed(p) \/ CallbackWs(p)

ShellSteps ==
  \/ LoginSettings \/ LoginSave \/ LoginAPI \/ LoginWs \/ LoginEngine
  \/ LogoutPost \/ LogoutSettings \/ LogoutSave \/ LogoutAPI \/ LogoutStop

Next ==
  \/ Expire \/ Restart \/ SaveSettings \/ LoginRequest \/ LogoutTake \/ ShellSteps
  \/ \E s \in Logins : GraceEnds(s) \/ Revoke(s)
  \/ \E p \in Callers : Call(p) \/ CallSteps(p) \/ Unreachable(p)

Spec == Init /\ [][Next]_vars

---------------------------------------------------------------------------
Cookies == [session : {0} \cup Logins, rotation : Nat]

\* Nobody holds a refreshMu, and the shell is not between two steps.
AtRest == shell.pc = "idle" /\ \A p \in Callers : call[p].pc \in {"idle", "refresh"}

TypeOK ==
  /\ \A c \in Clients : client[c].cookie \in Cookies /\ client[c].lock \in Callers \cup {None}
  /\ {app.api, app.engineApi} \subseteq Clients /\ app.loops \subseteq 1..tokens.issued
  /\ {file.cookie, disk.cookie} \subseteq Cookies /\ (keyring # None => keyring.cookie \in Cookies)

\* The server takes a cookie for stolen, and drops a live session, only after an
\* answer with its successor was lost, or the process ended before it had saved
\* it or could not write settings.json, or a refresh and a login or logout
\* overlapped: however the calls of the screens and of the engine, restarts, a
\* refusing keyring and failing writes combine.
ReuseExplained == past.reuse => past.lost \/ past.overlap

\* Callers that are all told 401 trade one cookie in between them: a session is
\* rotated no more often than access tokens have expired.
RotationsEarned == \A s \in Logins : sessions[s].rotation <= spent.expiries

\* While nothing is under way, the secrets stored are those of the client of the
\* screens, unless the server has rejected its cookie or a login failed halfway,
\* wherever they are kept; and a restart would find them, unless settings.json
\* could not be written.
SecretsKept ==
  AtRest /\ ~past.overlap /\ ~torn /\ client[app.api].cookie # NoCookie =>
    LET held == Secrets(client[app.api].token, client[app.api].cookie) IN
      ReadSecrets = held /\ (disk = file => Migrated(keyring, disk) = held)

\* An event loop runs only while Stop would end it.
WsOwned == ~past.overlap => app.loops \subseteq {app.ws}

\* A refresh and a login leave an event client that has the newest token.
WsNewest == AtRest /\ ~past.overlap /\ app.running => app.ws = client[app.api].token

=============================================================================
