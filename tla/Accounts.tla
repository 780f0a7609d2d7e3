------------------------------ MODULE Accounts ------------------------------
(***************************************************************************)
(* The record and the refresh sessions of one user, and the handlers that  *)
(* read, change and write them: login, password, two-factor, devices,      *)
(* administration, refresh and logout.  Each call to a store is a step, so *)
(* another handler may have written what this one has read.                *)
(***************************************************************************)
EXTENDS Integers, Sequences, FiniteSets

CONSTANTS Requests,    \* requests handled at once
          SessionIds,  \* ids of refresh sessions, each used once
          Devices,     \* ids of trusted devices
          MaxSessions, \* maxRefreshSessions, 10 in the code
          BackupCodes, \* backupCodeCount, 8 in the code
          MaxVersion,  \* bound: revocations of all tokens
          MaxHandled,  \* bound: requests
          MaxUsed,     \* bound: the usage
          Gone         \* the record of a deleted user

ASSUME LimitsAssumption == MaxSessions \in Nat \ {0} /\ BackupCodes \in Nat
ASSUME RequestsAssumption == IsFiniteSet(Requests)

VARIABLES user,     \* the record in the users collection
          rows,     \* the refresh_sessions collection: session of each id
          made,     \* refresh tokens made so far, numbered from 1
          given,    \* cookies that clients were given: <<id, token>>
          spent,    \* history: refresh tokens that were exchanged
          req,      \* handlers in progress
          handled,  \* requests so far
          counted   \* history: the usage that uploads and deletes add up to

sessionVars == <<rows, made, given, spent>>
vars == <<user, sessionVars, req, handled, counted>>

\* A user who has set up two-factor; versions are counted from here.
TotpUser == [ver |-> 0, used |-> 0, totp |-> TRUE, codes |-> BackupCodes, devices |-> {}]
NoRow   == [token |-> 0, prev |-> 0, ver |-> 0, grace |-> FALSE, expired |-> FALSE]

\* A handler: the copies of the record that it has yet to write, the stage that
\* follows them, whether a refresh session is asked for, and what it has read.
Idle == [pc |-> "idle", writes |-> <<>>, then |-> "idle", asks |-> FALSE,
         ver |-> 0, ids |-> {}, token |-> 0]

Live == {i \in SessionIds : rows[i] # NoRow}
At(r, pc) == req[r].pc = pc
Become(r, new) == req' = [req EXCEPT ![r] = new]
Goto(r, pc) == req' = [req EXCEPT ![r].pc = pc]
Finish(r) == Become(r, Idle)
Begin(r, new) ==
  /\ At(r, "idle") /\ handled < MaxHandled
  /\ handled' = handled + 1
  /\ Become(r, new)

Init ==
  /\ user = TotpUser /\ rows = [i \in SessionIds |-> NoRow]
  /\ made = 0 /\ given = {} /\ spent = {}
  /\ req = [r \in Requests |-> Idle]
  /\ handled = 0 /\ counted = 0

---------------------------------------------------------------------------
(* The users collection.                                                   *)

\* Update writes the caller's copy, except for the usage, in a transaction;
\* it finds nothing to write when the user was deleted.
\* Mutant: the whole copy is written.
UpdateWhole(u) == user' = IF user = Gone THEN Gone ELSE u
UpdateUser(u) ==
  user' = IF user = Gone THEN Gone ELSE [u EXCEPT !.used = user.used]

\* Uploads and deletes count their bytes meanwhile.
\* Mutant: an over-subtraction leaves a negative usage.
AddUsedUnclamped(d) ==
  /\ user # Gone /\ counted + d <= MaxUsed
  /\ user' = [user EXCEPT !.used = @ + d]
  /\ counted' = counted + d
  /\ UNCHANGED <<sessionVars, req, handled>>
Clamp(n) == IF n < 0 THEN 0 ELSE n
AddUsedBytes(d) ==
  /\ user # Gone /\ counted + d <= MaxUsed
  /\ user' = [user EXCEPT !.used = Clamp(@ + d)]
  /\ counted' = Clamp(counted + d)
  /\ UNCHANGED <<sessionVars, req, handled>>

---------------------------------------------------------------------------
(* Handlers that change the record.  Each reads it, checks what the user   *)
(* has sent (where that is wrong it ends, having changed nothing), and     *)
(* writes copies of it.  The login history, the password, the email and    *)
(* the quota are left out of the record, but not the writes of them.       *)

Handle(r, writes, then, asks) ==
  /\ Begin(r, [Idle EXCEPT !.pc = "write", !.writes = writes, !.then = then,
                           !.asks = asks, !.ver = IF asks THEN writes[Len(writes)].ver ELSE 0])
  /\ UNCHANGED <<user, sessionVars, counted>>

\* The code of the authenticator changes nothing; a backup code is used up, and
\* its removal is written before all else.
SecondFactor ==
  {<<>>} \cup {<<[user EXCEPT !.codes = @ - 1]>> : n \in {m \in {user.codes} : m > 0}}
Last(writes) == IF writes = <<>> THEN user ELSE writes[Len(writes)]

\* A login writes its history; it may have this device trusted from now on
\* (registerDevice).  A failing write does not stop it.
Login(r, asks) ==
  \E first \in IF user.totp THEN SecondFactor ELSE {<<>>} :
  \E new \in {{}} \cup {{d} : d \in IF user.totp THEN Devices ELSE {}} :
    LET last  == [Last(first) EXCEPT !.devices = @ \cup new]
        trust == IF new = {} THEN <<>> ELSE <<last>>
    IN  Handle(r, first \o trust \o <<last>>, IF asks THEN "prune" ELSE "idle", asks)

\* revokeOtherSessions, for u the edited copy.
RevokeOthers(r, first, u, asks) ==
  /\ u.ver < MaxVersion
  /\ Handle(r, Append(first, [u EXCEPT !.ver = @ + 1]), "revoke", asks)

ChangePassword(r, asks) ==
  \E first \in IF user.totp THEN SecondFactor ELSE {<<>>} :
    RevokeOthers(r, first, Last(first), asks)

LogoutAll(r) ==
  \E first \in IF user.totp THEN SecondFactor ELSE {<<>>} :
    RevokeOthers(r, first, Last(first), FALSE)

TotpEnable(r, asks) ==
  RevokeOthers(r, <<>>, [user EXCEPT !.totp = TRUE, !.codes = BackupCodes], asks)

\* Mutant: disabling two-factor keeps the trusted devices.
TotpDisableOnly(r, asks) ==
  /\ user.totp
  /\ RevokeOthers(r, <<>>, [user EXCEPT !.totp = FALSE, !.codes = 0], asks)
TotpDisable(r, asks) ==
  /\ user.totp
  /\ RevokeOthers(r, <<>>, [user EXCEPT !.totp = FALSE, !.codes = 0, !.devices = {}], asks)

TotpRegenBackup(r) ==
  /\ user.totp
  /\ Handle(r, <<[user EXCEPT !.codes = BackupCodes]>>, "idle", FALSE)

RevokeAllDevices(r) == Handle(r, <<[user EXCEPT !.devices = {}]>>, "idle", FALSE)
RevokeDevice(r, d)  == Handle(r, <<[user EXCEPT !.devices = @ \ {d}]>>, "idle", FALSE)
UpdateEmail(r)      == Handle(r, <<user>>, "idle", FALSE)
AdminPatchQuota(r)  == Handle(r, <<user>>, "idle", FALSE)

\* The administrator revokes everyone, one user after the other.
AdminRevokeAll(r) == RevokeOthers(r, <<>>, user, FALSE)

\* The next copy is written.  With the last one a login goes on in any case,
\* and another handler only if there still was a record.
Write(r) ==
  LET h == req[r] IN
    /\ At(r, "write")
    /\ UpdateUser(Head(h.writes))
    /\ IF Len(h.writes) > 1 THEN Become(r, [h EXCEPT !.writes = Tail(@)])
       ELSE IF user = Gone /\ h.then = "revoke" THEN Finish(r)
       ELSE IF h.then = "idle" THEN Finish(r)
       ELSE Become(r, [h EXCEPT !.writes = <<>>, !.pc = h.then])
    /\ UNCHANGED <<sessionVars, handled, counted>>

\* The administrator deletes the user, and then the sessions.
AdminDeleteUser(r) ==
  /\ user' = Gone
  /\ Begin(r, [Idle EXCEPT !.pc = "revoke"])
  /\ UNCHANGED <<sessionVars, counted>>

---------------------------------------------------------------------------
(* The refresh_sessions collection.                                        *)

Delete(ids) == rows' = [i \in SessionIds |-> IF i \in ids THEN NoRow ELSE rows[i]]

\* DeleteByUID lists the sessions, and deletes what it has listed; who has
\* changed a password or two-factor may go on with a new session.
RevokeList(r) ==
  /\ At(r, "revoke")
  /\ Become(r, [req[r] EXCEPT !.pc = "revokeDelete", !.ids = Live])
  /\ UNCHANGED <<user, sessionVars, handled, counted>>

RevokeDelete(r) ==
  /\ At(r, "revokeDelete")
  /\ Delete(req[r].ids)
  /\ IF req[r].asks THEN Become(r, [req[r] EXCEPT !.pc = "prune", !.ids = {}]) ELSE Finish(r)
  /\ UNCHANGED <<user, made, given, spent, handled, counted>>

PruneExpired(r) ==
  /\ At(r, "prune")
  /\ Delete({i \in Live : rows[i].expired})
  /\ Goto(r, "evict")
  /\ UNCHANGED <<user, made, given, spent, handled, counted>>

\* So many sessions, the least recently used ones, make room for one more.
\* Mutant: none is evicted as long as the limit is not exceeded.
SurplusLate(n) == IF n > MaxSessions THEN n - MaxSessions ELSE 0
Surplus(n) == IF n >= MaxSessions THEN n - MaxSessions + 1 ELSE 0
EvictList(r) ==
  /\ At(r, "evict")
  /\ \E old \in SUBSET Live :
       /\ Cardinality(old) = Surplus(Cardinality(Live))
       /\ Become(r, [req[r] EXCEPT !.pc = "evictDelete", !.ids = old])
  /\ UNCHANGED <<user, sessionVars, handled, counted>>

EvictDelete(r) ==
  /\ At(r, "evictDelete")
  /\ Delete(req[r].ids)
  /\ Become(r, [req[r] EXCEPT !.pc = "create", !.ids = {}])
  /\ UNCHANGED <<user, made, given, spent, handled, counted>>

Unused == {i \in SessionIds : \A c \in given : c[1] # i}
CreateSession(r) ==
  /\ At(r, "create")
  /\ \E i \in Unused :
       /\ rows' = [rows EXCEPT ![i] = [NoRow EXCEPT !.token = made + 1, !.ver = req[r].ver]]
       /\ given' = given \cup {<<i, made + 1>>}
  /\ made' = made + 1
  /\ Finish(r)
  /\ UNCHANGED <<user, spent, handled, counted>>

---------------------------------------------------------------------------
(* Refresh and logout.                                                     *)

\* CheckRefresh of the auth library: what a cookie is worth.
Usable(row) == user # Gone /\ ~row.expired /\ row.ver >= user.ver
Current(c)  == Usable(rows[c[1]]) /\ c[2] = rows[c[1]].token
InGrace(c)  == Usable(rows[c[1]]) /\ rows[c[1]].grace /\ c[2] = rows[c[1]].prev

\* A cookie that some client was given comes in; its session and the user are
\* read.  In the grace window there is an access token and no new cookie, so
\* nothing changes; a token that is expired, revoked or used again is rejected.
Refresh(r) ==
  /\ \E c \in given :
       /\ rows[c[1]] # NoRow
       /\ Current(c) \/ ~InGrace(c)
       /\ Begin(r, [Idle EXCEPT !.pc = IF Current(c) THEN "swap" ELSE "reject",
                               !.ids = {c[1]}, !.token = IF Current(c) THEN c[2] ELSE 0])
  /\ UNCHANGED <<user, sessionVars, counted>>

\* Swap writes the new token if the stored one is still the one that was read:
\* whoever comes second gets no cookie, and a session that was deleted
\* meanwhile stays so.
\* Mutant: whoever comes second writes its token as well.
SwapsAlways(r, i) == rows[i] # NoRow
\* Mutant: the session is written when it is gone.
SwapsMissing(r, i) == rows[i] = NoRow \/ rows[i].token = req[r].token
Swaps(r, i) == rows[i] # NoRow /\ rows[i].token = req[r].token
RefreshSwap(r) ==
  /\ At(r, "swap")
  /\ \E i \in req[r].ids :
       IF Swaps(r, i)
       THEN /\ made' = made + 1
            /\ rows' = [rows EXCEPT ![i].token = made', ![i].prev = req[r].token, ![i].grace = TRUE]
            /\ given' = given \cup {<<i, made'>>} /\ spent' = spent \cup {req[r].token}
       ELSE UNCHANGED sessionVars
  /\ Finish(r)
  /\ UNCHANGED <<user, handled, counted>>

RefreshReject(r) ==
  /\ At(r, "reject")
  /\ Delete(req[r].ids) /\ Finish(r)
  /\ UNCHANGED <<user, made, given, spent, handled, counted>>

\* A logout, or the user ends one of the listed sessions.
EndSession(i) ==
  /\ rows[i] # NoRow
  /\ Delete({i})
  /\ UNCHANGED <<user, made, given, spent, req, handled, counted>>

\* refreshGrace after a refresh the token before it is no longer good.
GraceEnds(i) ==
  /\ rows[i].grace
  /\ rows' = [rows EXCEPT ![i].grace = FALSE]
  /\ UNCHANGED <<user, made, given, spent, req, handled, counted>>

Expire(i) ==
  /\ rows[i] # NoRow /\ ~rows[i].expired
  /\ rows' = [rows EXCEPT ![i].expired = TRUE]
  /\ UNCHANGED <<user, made, given, spent, req, handled, counted>>

---------------------------------------------------------------------------
UserSteps(r) ==
  \/ \E asks \in BOOLEAN :
       Login(r, asks) \/ ChangePassword(r, asks) \/ TotpEnable(r, asks) \/ TotpDisable(r, asks)
  \/ LogoutAll(r) \/ AdminRevokeAll(r) \/ TotpRegenBackup(r) \/ RevokeAllDevices(r)
  \/ \E d \in Devices : RevokeDevice(r, d)
  \/ UpdateEmail(r) \/ AdminPatchQuota(r) \/ AdminDeleteUser(r)

SessionSteps(r) ==
  \/ RevokeList(r) \/ RevokeDelete(r)
  \/ PruneExpired(r) \/ EvictList(r) \/ EvictDelete(r) \/ CreateSession(r)
  \/ Refresh(r) \/ RefreshSwap(r) \/ RefreshReject(r)

Next ==
  \/ \E r \in Requests : (user # Gone /\ UserSteps(r)) \/ Write(r) \/ SessionSteps(r)
  \/ AddUsedBytes(1) \/ AddUsedBytes(-1)
  \/ \E i \in SessionIds : EndSession(i) \/ GraceEnds(i) \/ Expire(i)

Spec == Init /\ [][Next]_vars

---------------------------------------------------------------------------
User == [ver : Nat, used : Nat, totp : BOOLEAN, codes : 0..BackupCodes, devices : SUBSET Devices]
Row  == [token : Nat, prev : Nat, ver : Nat, grace : BOOLEAN, expired : BOOLEAN]

TypeOK ==
  /\ user \in User \cup {Gone}
  /\ rows \in [SessionIds -> Row]
  /\ made \in Nat /\ given \subseteq SessionIds \X (1..made) /\ spent \subseteq 1..made
  /\ counted \in Nat

\* The usage that uploads and deletes have counted is what the record says,
\* although handlers that read the record earlier write it back meanwhile
\* ("the live value always wins over the caller's snapshot", Update).
UsageKept == user # Gone => user.used = counted

\* Without two-factor there are neither backup codes nor trusted devices,
\* whichever copies of the record handlers overwrite: a device that was
\* trusted before cannot stand in for a code after two-factor is set up anew.
RecordCoherent == user # Gone /\ ~user.totp => user.codes = 0 /\ user.devices = {}

\* The newest cookie that a client was given for a session is the one that the
\* session expects: refreshes at the same time never leave a client with a
\* cookie that counts as used (Swap).
NewestCookieGood ==
  \A c \in given : c[2] \notin spent /\ rows[c[1]] # NoRow => c[2] = rows[c[1]].token

\* A deleted user, and a session that was logged out, evicted or revoked, do
\* not come back, neither by an update that was under way nor by a refresh.
DeletedForGood ==
  [][/\ user = Gone => user' = Gone
     /\ \A c \in given : rows[c[1]] = NoRow => rows'[c[1]] = NoRow]_vars

\* The limit on sessions (maxRefreshSessions) is exceeded at most by the logins
\* that are under way at the same time.
SessionsBounded == Cardinality(Live) <= MaxSessions + Cardinality(Requests) - 1

=============================================================================
