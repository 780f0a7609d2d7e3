--------------------------- MODULE AccountsProofs ---------------------------
(***************************************************************************)
(* Proofs about Accounts: the record of the user and the refresh sessions, *)
(* for any number of requests handled at once.                             *)
(***************************************************************************)
EXTENDS Accounts, FiniteSetTheorems, SequenceTheorems, TLAPS

---------------------------------------------------------------------------
(* The inductive invariant.                                                *)

\* A record without two-factor has nothing that stands in for a code; neither
\* has any copy that a handler has yet to write.
Good == {u \in User : ~u.totp => u.codes = 0 /\ u.devices = {}}

Stages  == {"idle", "write", "revoke", "revokeDelete", "prune", "evict", "evictDelete",
            "create", "swap", "reject"}
Handler == [pc : Stages, writes : Seq(Good), then : {"idle", "prune", "revoke"},
            asks : BOOLEAN, ver : Nat, ids : SUBSET SessionIds, token : Nat]

Types ==
  /\ TypeOK
  /\ user \in Good \cup {Gone}
  /\ req \in [Requests -> Handler]
  /\ \A r \in Requests : /\ At(r, "write") => req[r].writes # <<>>
                         /\ At(r, "swap")  => req[r].token \in 1..made

\* Logins that are about to create a session, and those that make room for it.
\* If some of the latter deleted what they have listed and then created, with
\* those that are about to, the sessions would not be too many.
Creating == {r \in Requests : At(r, "create")}
Evicting == {r \in Requests : At(r, "evictDelete")}
Left(S)  == {i \in Live : \A r \in S : i \notin req[r].ids}
Limit    == MaxSessions + Cardinality(Requests) - 1

Room ==
  /\ IsFiniteSet(Live)
  /\ \A S \in SUBSET Evicting :
       Cardinality(Left(S)) + Cardinality(Creating) + Cardinality(S) <= Limit

AccountsInv == Types /\ UsageKept /\ NewestCookieGood /\ Room

\* A request goes on, but neither lists what to evict nor creates next; and a
\* request that is only taken on.
Moves(r) ==
  /\ req'[r].pc \notin {"create", "evictDelete"}
  /\ \A q \in Requests \ {r} : req'[q] = req[q]
Asked(r) ==
  /\ user' = user \/ user' = Gone
  /\ UNCHANGED <<sessionVars, counted>>
  /\ Moves(r)

---------------------------------------------------------------------------
(* Records and the copies of them.                                         *)

LEMMA RecordEdits ==
  ASSUME NEW u \in Good
  PROVE  /\ [u EXCEPT !.ver = @ + 1] \in Good
         /\ [u EXCEPT !.totp = TRUE, !.codes = BackupCodes] \in Good
         /\ [u EXCEPT !.totp = FALSE, !.codes = 0, !.devices = {}] \in Good
         /\ [u EXCEPT !.devices = {}] \in Good
         /\ \A d \in Devices : [u EXCEPT !.devices = @ \ {d}] \in Good
         /\ \A n \in Nat : [u EXCEPT !.used = n] \in Good /\ [u EXCEPT !.used = n].used = n
<1>1. u \in User /\ (~u.totp => u.codes = 0 /\ u.devices = {})
  BY DEF Good
<1>2. [u EXCEPT !.ver = @ + 1] \in Good
  BY <1>1 DEF Good, User
<1>3. ASSUME NEW on \in BOOLEAN, NEW n \in 0..BackupCodes
      PROVE  /\ [u EXCEPT !.totp = on, !.codes = n] \in User
             /\ [u EXCEPT !.totp = on, !.codes = n].totp = on
  BY <1>1 DEF User
<1>4. 0 \in 0..BackupCodes /\ BackupCodes \in 0..BackupCodes
  BY LimitsAssumption
<1>5. [u EXCEPT !.totp = TRUE, !.codes = BackupCodes] \in Good
  <2> DEFINE v == [u EXCEPT !.totp = TRUE, !.codes = BackupCodes]
  <2>1. v \in User /\ v.totp = TRUE
    BY <1>3, <1>4, Zenon
  <2> QED
    BY <2>1, Zenon DEF Good
<1>6. [u EXCEPT !.totp = FALSE, !.codes = 0, !.devices = {}] \in Good
  <2>1. PICK off \in BOOLEAN, zero \in 0..BackupCodes, none \in SUBSET Devices :
          off = FALSE /\ zero = 0 /\ none = {}
    BY <1>4, Zenon
  <2> DEFINE v == [u EXCEPT !.totp = off, !.codes = zero, !.devices = none]
  <2>2. v \in User /\ v.codes = zero /\ v.devices = none
    BY <1>1 DEF User
  <2> HIDE DEF v
  <2>3. v \in Good
    BY <2>1, <2>2 DEF Good
  <2> QED
    BY <2>1, <2>3, Zenon DEF v
<1>7. [u EXCEPT !.devices = {}] \in Good
  BY <1>1 DEF Good, User
<1>8. ASSUME NEW d \in Devices PROVE [u EXCEPT !.devices = @ \ {d}] \in Good
  BY <1>1 DEF Good, User
<1>9. ASSUME NEW n \in Nat PROVE [u EXCEPT !.used = n] \in Good /\ [u EXCEPT !.used = n].used = n
  BY <1>1 DEF Good, User
<1> QED
  BY <1>2, <1>5, <1>6, <1>7, <1>8, <1>9, Zenon

\* Two-factor is on when a code is used up or a device trusted.
LEMMA TotpEdits ==
  ASSUME NEW u \in Good, u.totp
  PROVE  /\ u.codes > 0 => [u EXCEPT !.codes = @ - 1] \in Good
         /\ [u EXCEPT !.codes = BackupCodes] \in Good
         /\ \A new \in SUBSET Devices : [u EXCEPT !.devices = @ \cup new] \in Good
<1>1. u \in User
  BY DEF Good
<1>2. ASSUME u.codes > 0 PROVE [u EXCEPT !.codes = @ - 1] \in Good
  BY <1>1, <1>2, LimitsAssumption DEF Good, User
<1>3. [u EXCEPT !.codes = BackupCodes] \in Good
  BY <1>1, LimitsAssumption DEF Good, User
<1>4. ASSUME NEW new \in SUBSET Devices PROVE [u EXCEPT !.devices = @ \cup new] \in Good
  BY <1>1 DEF Good, User
<1> QED
  BY <1>2, <1>3, <1>4

LEMMA CopiesTypes ==
  /\ <<>> \in Seq(Good)
  /\ \A u \in Good : <<u>> \in Seq(Good) /\ <<u>> # <<>> /\ Len(<<u>>) = 1 /\ <<u>>[1] = u
  /\ \A s \in Seq(Good), u \in Good :
       /\ Append(s, u) \in Seq(Good) /\ Append(s, u) # <<>>
       /\ s \o <<u>> \in Seq(Good) /\ s \o <<u>> # <<>>
BY ConcatProperties, EmptySeq

\* The copy that a backup code leaves, and the last copy after it.
LEMMA SecondFactorTypes ==
  ASSUME user \in Good, user.totp, NEW first \in SecondFactor
  PROVE  first \in Seq(Good) /\ Last(first) \in Good /\ Last(first).totp
<1>1. CASE first = <<>>
  BY <1>1, CopiesTypes DEF Last
<1>2. CASE user.codes > 0 /\ first = <<[user EXCEPT !.codes = @ - 1]>>
  <2> DEFINE u == [user EXCEPT !.codes = @ - 1]
  <2>1. u \in Good /\ u.totp = user.totp
    BY <1>2, TotpEdits DEF Good, User
  <2> HIDE DEF u
  <2>2. <<u>> \in Seq(Good) /\ <<u>> # <<>> /\ <<u>>[Len(<<u>>)] = u
    BY <2>1, CopiesTypes
  <2>3. u.totp
    BY <2>1, Zenon
  <2> QED
    BY <1>2, <2>1, <2>2, <2>3 DEF Last, u
<1> QED
  BY <1>1, <1>2 DEF SecondFactor

---------------------------------------------------------------------------
(* Types.                                                                  *)

LEMMA HandlerTypes ==
  /\ Idle \in Handler /\ Idle.pc = "idle"
  /\ \A pc \in Stages, h \in Handler, ids \in SUBSET SessionIds, n \in Nat :
       /\ [h EXCEPT !.pc = pc] \in Handler /\ [h EXCEPT !.pc = pc].pc = pc
       /\ [h EXCEPT !.pc = pc].ids = h.ids
       /\ [h EXCEPT !.pc = pc, !.ids = ids] \in Handler
       /\ [h EXCEPT !.pc = pc, !.ids = ids].pc = pc /\ [h EXCEPT !.pc = pc, !.ids = ids].ids = ids
       /\ [h EXCEPT !.pc = pc, !.ids = ids, !.token = n] \in Handler
       /\ [h EXCEPT !.pc = pc, !.ids = ids, !.token = n].pc = pc
       /\ [h EXCEPT !.pc = pc, !.ids = ids, !.token = n].token = n
<1>1. Idle \in Handler /\ Idle.pc = "idle"
  BY CopiesTypes DEF Idle, Handler, Stages
<1>2. ASSUME NEW pc \in Stages, NEW h \in Handler, NEW ids \in SUBSET SessionIds, NEW n \in Nat
      PROVE  /\ [h EXCEPT !.pc = pc] \in Handler /\ [h EXCEPT !.pc = pc].pc = pc
             /\ [h EXCEPT !.pc = pc].ids = h.ids
             /\ [h EXCEPT !.pc = pc, !.ids = ids] \in Handler
             /\ [h EXCEPT !.pc = pc, !.ids = ids].pc = pc /\ [h EXCEPT !.pc = pc, !.ids = ids].ids = ids
             /\ [h EXCEPT !.pc = pc, !.ids = ids, !.token = n] \in Handler
             /\ [h EXCEPT !.pc = pc, !.ids = ids, !.token = n].pc = pc
             /\ [h EXCEPT !.pc = pc, !.ids = ids, !.token = n].token = n
  BY DEF Handler
<1> QED
  BY <1>1, <1>2

LEMMA InitTypes == Init => Types
<1> SUFFICES ASSUME Init PROVE Types
  OBVIOUS
<1>1. TotpUser \in Good
  <2> DEFINE t == TRUE
  <2>1. ASSUME NEW on \in BOOLEAN
        PROVE  [ver |-> 0, used |-> 0, totp |-> on, codes |-> BackupCodes, devices |-> {}] \in User
    BY LimitsAssumption DEF User
  <2>2. TotpUser \in User /\ TotpUser.totp
    BY <2>1, Zenon DEF TotpUser
  <2> QED
    BY <2>2, Zenon DEF Good
<1>2. NoRow \in Row
  BY DEF NoRow, Row
<1>3. user \in Good \cup {Gone} /\ user \in User \cup {Gone}
  BY <1>1 DEF Init, Good
<1>4. TypeOK
  BY <1>2, <1>3 DEF Init, TypeOK
<1>5. \A r \in Requests : req[r] = Idle
  BY DEF Init
<1> QED
  BY <1>3, <1>4, <1>5, HandlerTypes DEF Init, Types, At

\* A step of one request.
LEMMA RequestTypes ==
  ASSUME Types, NEW r \in Requests, NEW new \in Handler, Become(r, new),
         user' \in Good \cup {Gone}, rows' \in [SessionIds -> Row], made' \in Nat, made' >= made,
         given' \subseteq SessionIds \X (1..made'), spent' \subseteq 1..made', UNCHANGED counted,
         new.pc = "write" => new.writes # <<>>,
         new.pc = "swap"  => new.token \in 1..made'
  PROVE  Types'
<1>1. TypeOK'
  BY DEF Types, TypeOK, Good
<1>2. req' \in [Requests -> Handler] /\ req'[r] = new /\ \A q \in Requests : q # r => req'[q] = req[q]
  BY DEF Types, Become
<1>3. made \in Nat /\ 1..made \subseteq 1..made'
  BY DEF Types, TypeOK
<1>4. ASSUME NEW q \in Requests
      PROVE  (At(q, "write") => req[q].writes # <<>>)' /\ (At(q, "swap") => req[q].token \in 1..made)'
  BY <1>2, <1>3 DEF Types, At
<1> QED
  BY <1>1, <1>2, <1>4 DEF Types

\* A request that is still only being read.
LEMMA QuietTypes ==
  ASSUME Types, NEW r \in Requests, NEW new \in Handler, Become(r, new),
         UNCHANGED <<user, sessionVars, counted>>,
         new.pc = "write" => new.writes # <<>>,
         new.pc = "swap"  => new.token \in 1..made
  PROVE  Types'
<1>1. /\ user' \in Good \cup {Gone} /\ rows' \in [SessionIds -> Row] /\ made' \in Nat /\ made' >= made
      /\ given' \subseteq SessionIds \X (1..made') /\ spent' \subseteq 1..made' /\ made' = made
      /\ UNCHANGED counted
  BY DEF Types, TypeOK, sessionVars
<1> QED
  BY <1>1, RequestTypes

LEMMA BecomeMoves ==
  ASSUME Types, NEW r \in Requests, NEW new, Become(r, new), new.pc \notin {"create", "evictDelete"}
  PROVE  Moves(r)
BY DEF Types, Become, Moves

LEMMA HandleTypes ==
  ASSUME Types, NEW r \in Requests, NEW writes \in Seq(Good), writes # <<>>,
         NEW then \in {"idle", "prune", "revoke"}, NEW asks \in BOOLEAN,
         Handle(r, writes, then, asks)
  PROVE  Types' /\ Asked(r)
<1> DEFINE n   == IF asks THEN writes[Len(writes)].ver ELSE 0
           new == [Idle EXCEPT !.pc = "write", !.writes = writes, !.then = then, !.asks = asks, !.ver = n]
<1>1. Len(writes) \in 1..Len(writes)
  BY EmptySeq, LenProperties
<1>2. writes[Len(writes)] \in Good
  BY <1>1, ElementOfSeq
<1>3. n \in Nat
  BY <1>2 DEF Good, User
<1> HIDE DEF n
<1>4. ASSUME NEW h \in Handler
      PROVE  LET g == [h EXCEPT !.pc = "write", !.writes = writes, !.then = then, !.asks = asks,
                                !.ver = n]
             IN  g \in Handler /\ g.pc = "write" /\ g.writes = writes
  BY <1>3 DEF Handler, Stages
<1>5. Become(r, new) /\ UNCHANGED <<user, sessionVars, counted>>
  BY DEF Handle, Begin, n
<1>6. new \in Handler /\ new.pc = "write" /\ new.writes = writes
  BY <1>4, HandlerTypes
<1> HIDE DEF new
<1>7. Asked(r)
  BY <1>5, <1>6, BecomeMoves DEF Asked
<1> QED
  BY <1>5, <1>6, <1>7, QuietTypes

LEMMA RevokeTypes ==
  ASSUME Types, NEW r \in Requests, NEW first \in Seq(Good), NEW u \in Good, NEW asks \in BOOLEAN,
         RevokeOthers(r, first, u, asks)
  PROVE  Types' /\ Asked(r)
<1> DEFINE last == [u EXCEPT !.ver = @ + 1]
<1>1. last \in Good
  BY RecordEdits
<1>2. Handle(r, Append(first, last), "revoke", asks)
  BY DEF RevokeOthers
<1> HIDE DEF last
<1> QED
  BY <1>1, <1>2, CopiesTypes, HandleTypes

\* What a handler writes before its last copy.
LEMMA FirstTypes ==
  ASSUME user \in Good, NEW first \in IF user.totp THEN SecondFactor ELSE {<<>>}
  PROVE  first \in Seq(Good) /\ Last(first) \in Good /\ (user.totp => Last(first).totp)
<1>1. CASE user.totp
  BY <1>1, SecondFactorTypes
<1>2. CASE ~user.totp
  BY <1>2, CopiesTypes DEF Last
<1> QED
  BY <1>1, <1>2

LEMMA LoginTypes ==
  ASSUME Types, user \in Good, NEW r \in Requests, NEW asks \in BOOLEAN, Login(r, asks)
  PROVE  Types' /\ Asked(r)
<1>1. PICK first \in IF user.totp THEN SecondFactor ELSE {<<>>},
           new \in {{}} \cup {{d} : d \in IF user.totp THEN Devices ELSE {}} :
        LET last  == [Last(first) EXCEPT !.devices = @ \cup new]
            trust == IF new = {} THEN <<>> ELSE <<last>>
        IN  Handle(r, first \o trust \o <<last>>, IF asks THEN "prune" ELSE "idle", asks)
  BY DEF Login
<1> DEFINE last  == [Last(first) EXCEPT !.devices = @ \cup new]
           trust == IF new = {} THEN <<>> ELSE <<last>>
           then  == IF asks THEN "prune" ELSE "idle"
<1>2. Handle(r, first \o trust \o <<last>>, then, asks)
  BY <1>1
<1>3. first \in Seq(Good) /\ Last(first) \in Good /\ (user.totp => Last(first).totp)
  BY FirstTypes
<1>4. last \in Good
  <2>1. CASE user.totp
    <3>1. new \in SUBSET Devices
      BY <2>1
    <3> QED
      BY <1>3, <2>1, <3>1, TotpEdits
  <2>2. CASE ~user.totp
    <3>1. new = {}
      BY <2>2
    <3>2. last = Last(first)
      BY <1>3, <3>1 DEF Good, User
    <3> QED
      BY <1>3, <3>2
  <2> QED
    BY <2>1, <2>2
<1> HIDE DEF last
<1>5. trust \in Seq(Good)
  BY <1>4, CopiesTypes
<1> HIDE DEF trust
<1>6. first \o trust \in Seq(Good)
  BY <1>3, <1>5, ConcatProperties
<1>7. (first \o trust) \o <<last>> \in Seq(Good) /\ (first \o trust) \o <<last>> # <<>>
  BY <1>4, <1>6, CopiesTypes
<1>8. then \in {"idle", "prune", "revoke"}
  OBVIOUS
<1> HIDE DEF then
<1> QED
  BY <1>2, <1>7, <1>8, HandleTypes

LEMMA UserStepsTypes ==
  ASSUME Types, user # Gone, NEW r \in Requests, UserSteps(r)
  PROVE  Types' /\ Asked(r)
<1>1. user \in Good /\ user \in User
  BY DEF Types, Good
<1>2. ASSUME NEW asks \in BOOLEAN,
             Login(r, asks) \/ ChangePassword(r, asks) \/ TotpEnable(r, asks) \/ TotpDisable(r, asks)
      PROVE  Types' /\ Asked(r)
  <2>1. CASE Login(r, asks)
    BY <1>1, <2>1, LoginTypes
  <2>2. CASE ChangePassword(r, asks)
    BY <1>1, <2>2, FirstTypes, RevokeTypes DEF ChangePassword
  <2>3. CASE TotpEnable(r, asks)
    <3> DEFINE v == [user EXCEPT !.totp = TRUE, !.codes = BackupCodes]
    <3>1. v \in Good
      BY <1>1, RecordEdits, Zenon
    <3>2. RevokeOthers(r, <<>>, v, asks)
      BY <2>3 DEF TotpEnable
    <3> HIDE DEF v
    <3> QED
      BY <3>1, <3>2, CopiesTypes, RevokeTypes
  <2>4. CASE TotpDisable(r, asks)
    <3> DEFINE v == [user EXCEPT !.totp = FALSE, !.codes = 0, !.devices = {}]
    <3>1. v \in Good
      BY <1>1, RecordEdits, Zenon
    <3>2. RevokeOthers(r, <<>>, v, asks)
      BY <2>4, Zenon DEF TotpDisable
    <3> HIDE DEF v
    <3> QED
      BY <3>1, <3>2, CopiesTypes, RevokeTypes
  <2> QED
    BY <1>2, <2>1, <2>2, <2>3, <2>4
<1>3. CASE LogoutAll(r)
  BY <1>1, <1>3, FirstTypes, RevokeTypes DEF LogoutAll
<1>4. CASE AdminRevokeAll(r)
  BY <1>1, <1>4, CopiesTypes, RevokeTypes DEF AdminRevokeAll
<1>5. ASSUME NEW u \in Good, Handle(r, <<u>>, "idle", FALSE) PROVE Types' /\ Asked(r)
  BY <1>5, CopiesTypes, HandleTypes
<1>6. CASE TotpRegenBackup(r)
  BY <1>1, <1>5, <1>6, TotpEdits DEF TotpRegenBackup
<1>7. CASE RevokeAllDevices(r)
  BY <1>1, <1>5, <1>7, RecordEdits DEF RevokeAllDevices
<1>8. ASSUME NEW d \in Devices, RevokeDevice(r, d) PROVE Types' /\ Asked(r)
  BY <1>1, <1>5, <1>8, RecordEdits DEF RevokeDevice
<1>9. CASE UpdateEmail(r) \/ AdminPatchQuota(r)
  BY <1>1, <1>5, <1>9 DEF UpdateEmail, AdminPatchQuota
<1>10. CASE AdminDeleteUser(r)
  <2> DEFINE new == [Idle EXCEPT !.pc = "revoke"]
  <2>1. new \in Handler /\ new.pc = "revoke"
    <3>1. "revoke" \in Stages /\ {} \in SUBSET SessionIds /\ 0 \in Nat
      BY DEF Stages
    <3> QED
      BY <3>1, HandlerTypes
  <2>2. Become(r, new) /\ user' = Gone /\ UNCHANGED <<sessionVars, counted>>
    BY <1>10 DEF AdminDeleteUser, Begin
  <2>3. /\ user' \in Good \cup {Gone} /\ rows' \in [SessionIds -> Row] /\ made' \in Nat /\ made' >= made
        /\ given' \subseteq SessionIds \X (1..made') /\ spent' \subseteq 1..made'
    BY <2>2 DEF Types, TypeOK, sessionVars
  <2> HIDE DEF new
  <2>4. Asked(r)
    BY <2>1, <2>2, BecomeMoves DEF Asked
  <2> QED
    BY <2>1, <2>2, <2>3, <2>4, RequestTypes
<1> QED
  BY <1>2, <1>3, <1>4, <1>6, <1>7, <1>8, <1>9, <1>10 DEF UserSteps

\* Update writes a copy, with the usage of the record.
LEMMA WriteTypes ==
  ASSUME Types, NEW r \in Requests, Write(r)
  PROVE  /\ Types' /\ UNCHANGED <<sessionVars, counted>> /\ Moves(r)
         /\ user' # Gone => user # Gone /\ user'.used = user.used
<1> DEFINE h == req[r]
           u == Head(h.writes)
<1>1. h \in Handler /\ h.writes # <<>> /\ h.pc = "write"
  BY DEF Types, Write, At
<1>2. u \in Good /\ Tail(h.writes) \in Seq(Good) /\ Len(Tail(h.writes)) = Len(h.writes) - 1
  BY <1>1, HeadTailProperties DEF Handler
<1>3. UpdateUser(u) /\ UNCHANGED <<sessionVars, counted>>
  BY DEF Write
<1> HIDE DEF u
<1>4. user # Gone => user.used \in Nat
  BY DEF Types, Good, User
<1>5. user' \in Good \cup {Gone} /\ (user' # Gone => user # Gone /\ user'.used = user.used)
  BY <1>2, <1>3, <1>4, RecordEdits DEF UpdateUser
<1>6. PICK new \in Handler :
        Become(r, new) /\ new.pc \notin {"swap", "create", "evictDelete"} /\ (new.pc = "write" => new.writes # <<>>)
  <2>1. CASE Len(h.writes) > 1
    <3> DEFINE new == [h EXCEPT !.writes = Tail(@)]
    <3>1. new \in Handler /\ new.pc = "write" /\ new.writes = Tail(h.writes)
      BY <1>1, <1>2 DEF Handler
    <3>2. Tail(h.writes) # <<>>
      <4> DEFINE n == Len(h.writes)
                 t == Tail(h.writes)
      <4>1. n \in Nat
        BY <1>1, LenProperties DEF Handler
      <4>2. Len(t) = n - 1 /\ n > 1
        BY <1>2, <2>1
      <4> HIDE DEF n, t
      <4>3. Len(t) # 0
        BY <4>1, <4>2
      <4>4. t # <<>>
        BY <4>3, EmptySeq
      <4> QED
        BY <4>4 DEF t
    <3>3. Become(r, new)
      BY <2>1 DEF Write
    <3> QED
      BY <3>1, <3>2, <3>3
  <2>2. CASE Finish(r)
    BY <2>2, HandlerTypes DEF Finish
  <2>3. CASE ~(Len(h.writes) > 1) /\ ~Finish(r)
    <3> DEFINE new == [h EXCEPT !.writes = <<>>, !.pc = h.then]
    <3>1. Become(r, new) /\ h.then # "idle"
      BY <2>3 DEF Write
    <3>2. h.then \in {"prune", "revoke"}
      BY <1>1, <3>1 DEF Handler
    <3>3. new \in Handler /\ new.pc \in {"prune", "revoke"}
      BY <1>1, <3>2, CopiesTypes DEF Handler, Stages
    <3> QED
      BY <3>1, <3>3
  <2> QED
    BY <2>1, <2>2, <2>3
<1>7. /\ rows' \in [SessionIds -> Row] /\ made' \in Nat /\ made' >= made
      /\ given' \subseteq SessionIds \X (1..made') /\ spent' \subseteq 1..made' /\ UNCHANGED counted
  BY <1>3 DEF Types, TypeOK, sessionVars
<1>8. Moves(r)
  BY <1>6, BecomeMoves
<1> QED
  BY <1>3, <1>5, <1>6, <1>7, <1>8, RequestTypes

\* Sessions go, and the request that deletes them goes on.
LEMMA DeleteTypes ==
  ASSUME Types, NEW ids, Delete(ids)
  PROVE  rows' \in [SessionIds -> Row] /\ \A i \in SessionIds : rows'[i] = IF i \in ids THEN NoRow ELSE rows[i]
<1>1. NoRow \in Row
  BY DEF NoRow, Row
<1> QED
  BY <1>1 DEF Types, TypeOK, Delete

LEMMA SessionStepsTypes ==
  ASSUME Types, NEW r \in Requests, SessionSteps(r)
  PROVE  Types'
<1>1. req[r] \in Handler /\ Idle \in Handler /\ Idle.pc = "idle" /\ Live \in SUBSET SessionIds
  BY HandlerTypes DEF Types, Live
<1>2. /\ made \in Nat /\ rows \in [SessionIds -> Row] /\ user \in Good \cup {Gone}
      /\ given \subseteq SessionIds \X (1..made) /\ spent \subseteq 1..made
  BY DEF Types, TypeOK
<1>3. /\ {} \in SUBSET SessionIds /\ "revokeDelete" \in Stages /\ "prune" \in Stages /\ "evict" \in Stages
      /\ "evictDelete" \in Stages /\ "create" \in Stages /\ "swap" \in Stages /\ "reject" \in Stages
  BY DEF Stages
<1>4. ASSUME NEW ids, Delete(ids), NEW new \in Handler, Become(r, new),
             UNCHANGED <<user, made, given, spent, counted>>,
             new.pc \notin {"write", "swap"}
      PROVE  Types'
  BY <1>2, <1>4, DeleteTypes, RequestTypes
<1>5. ASSUME NEW new \in Handler, Become(r, new), UNCHANGED <<user, sessionVars, counted>>,
             new.pc \notin {"write", "swap"}
      PROVE  Types'
  BY <1>5, QuietTypes
<1>6. CASE RevokeList(r)
  BY <1>1, <1>3, <1>5, <1>6, HandlerTypes DEF RevokeList
<1>7. CASE RevokeDelete(r)
  BY <1>1, <1>3, <1>4, <1>7, HandlerTypes DEF RevokeDelete, Finish
<1>8. CASE PruneExpired(r)
  BY <1>1, <1>3, <1>4, <1>8, HandlerTypes DEF PruneExpired, Goto, Become
<1>9. CASE EvictList(r)
  <2>1. PICK old \in SUBSET Live : Become(r, [req[r] EXCEPT !.pc = "evictDelete", !.ids = old])
    BY <1>9 DEF EvictList
  <2> DEFINE new == [req[r] EXCEPT !.pc = "evictDelete", !.ids = old]
  <2>2. old \in SUBSET SessionIds
    BY <1>1
  <2>3. new \in Handler /\ new.pc = "evictDelete"
    BY <1>1, <1>3, <2>2 DEF Handler
  <2>4. Become(r, new) /\ UNCHANGED <<user, sessionVars, counted>>
    BY <1>9, <2>1 DEF EvictList
  <2> HIDE DEF new
  <2> QED
    BY <1>5, <2>3, <2>4
<1>10. CASE EvictDelete(r)
  <2> DEFINE new == [req[r] EXCEPT !.pc = "create", !.ids = {}]
  <2>2. new \in Handler /\ new.pc = "create"
    BY <1>1, <1>3 DEF Handler
  <2>3. Become(r, new) /\ Delete(req[r].ids) /\ UNCHANGED <<user, made, given, spent, counted>>
    BY <1>10 DEF EvictDelete
  <2> HIDE DEF new
  <2> QED
    BY <1>4, <2>2, <2>3
<1>11. CASE RefreshReject(r)
  BY <1>1, <1>4, <1>11 DEF RefreshReject, Finish
<1>12. CASE CreateSession(r)
  <2>1. PICK i \in Unused :
          /\ rows' = [rows EXCEPT ![i] = [NoRow EXCEPT !.token = made + 1, !.ver = req[r].ver]]
          /\ given' = given \cup {<<i, made + 1>>}
    BY <1>12 DEF CreateSession
  <2>2. made' = made + 1 /\ Become(r, Idle) /\ UNCHANGED <<user, spent, counted>>
    BY <1>12 DEF CreateSession, Finish
  <2>3. [NoRow EXCEPT !.token = made + 1, !.ver = req[r].ver] \in Row
    <3>1. NoRow \in Row /\ made + 1 \in Nat /\ req[r].ver \in Nat
      BY <1>1, <1>2 DEF NoRow, Row, Handler
    <3>2. ASSUME NEW row \in Row, NEW n \in Nat, NEW v \in Nat
          PROVE  [row EXCEPT !.token = n, !.ver = v] \in Row
      BY DEF Row
    <3> QED
      BY <3>1, <3>2
  <2>4. rows' \in [SessionIds -> Row]
    BY <1>2, <2>1, <2>3 DEF Unused
  <2>5. 1..made \subseteq 1..made' /\ made + 1 \in 1..made' /\ made' \in Nat /\ made' >= made
    BY <1>2, <2>2
  <2>6. given' \subseteq SessionIds \X (1..made') /\ spent' \subseteq 1..made'
    BY <1>2, <2>1, <2>2, <2>5 DEF Unused
  <2> QED
    BY <1>1, <1>2, <2>2, <2>4, <2>5, <2>6, RequestTypes
<1>13. CASE Refresh(r)
  <2>1. PICK c \in given :
          Begin(r, [Idle EXCEPT !.pc = IF Current(c) THEN "swap" ELSE "reject",
                                !.ids = {c[1]}, !.token = IF Current(c) THEN c[2] ELSE 0])
    BY <1>13 DEF Refresh
  <2> DEFINE pc == IF Current(c) THEN "swap" ELSE "reject"
             n  == IF Current(c) THEN c[2] ELSE 0
             ids == {c[1]}
             new == [Idle EXCEPT !.pc = pc, !.ids = ids, !.token = n]
  <2>2. c[1] \in SessionIds /\ c[2] \in 1..made
    BY <1>2
  <2>3. /\ pc \in Stages /\ n \in Nat /\ ids \in SUBSET SessionIds /\ pc # "write"
        /\ (pc = "swap" => n \in 1..made)
    BY <1>2, <1>3, <2>2
  <2>4. Become(r, new) /\ UNCHANGED <<user, sessionVars, counted>>
    BY <1>13, <2>1 DEF Begin, Refresh
  <2> HIDE DEF pc, n, ids
  <2>5. new \in Handler /\ new.pc = pc /\ new.token = n
    BY <1>1, <2>3 DEF Handler
  <2> HIDE DEF new
  <2> QED
    BY <2>3, <2>4, <2>5, QuietTypes
<1>14. CASE RefreshSwap(r)
  <2>1. /\ At(r, "swap") /\ Become(r, Idle) /\ UNCHANGED <<user, counted>>
        /\ req[r].token \in 1..made /\ req[r].ids \in SUBSET SessionIds
    BY <1>1, <1>14 DEF RefreshSwap, Finish, Types, Handler
  <2>2. PICK i \in req[r].ids :
          IF Swaps(r, i)
          THEN /\ made' = made + 1
               /\ rows' = [rows EXCEPT ![i].token = made', ![i].prev = req[r].token, ![i].grace = TRUE]
               /\ given' = given \cup {<<i, made'>>} /\ spent' = spent \cup {req[r].token}
          ELSE UNCHANGED sessionVars
    BY <1>14 DEF RefreshSwap
  <2>3. CASE Swaps(r, i)
    <3> DEFINE row == [rows[i] EXCEPT !.token = made', !.prev = req[r].token, !.grace = TRUE]
    <3>1. i \in SessionIds /\ rows[i] \in Row /\ made' = made + 1 /\ made' \in Nat /\ req[r].token \in Nat
      BY <1>2, <2>1, <2>2, <2>3
    <3>2. row \in Row
      BY <3>1 DEF Row
    <3>3. rows' = [rows EXCEPT ![i] = row]
      BY <1>2, <2>2, <2>3, <3>1
    <3> HIDE DEF row
    <3>4. rows' \in [SessionIds -> Row]
      BY <1>2, <3>1, <3>2, <3>3
    <3>5. 1..made \subseteq 1..made' /\ made' \in 1..made' /\ made' >= made
      BY <1>2, <3>1
    <3>6. given' \subseteq SessionIds \X (1..made') /\ spent' \subseteq 1..made'
      BY <1>2, <2>1, <2>2, <2>3, <3>1, <3>5
    <3> QED
      BY <1>1, <1>2, <2>1, <3>1, <3>4, <3>5, <3>6, RequestTypes
  <2>4. CASE ~Swaps(r, i)
    <3>1. UNCHANGED <<user, sessionVars, counted>> /\ Become(r, Idle)
      BY <2>1, <2>2, <2>4
    <3> QED
      BY <1>1, <1>5, <3>1
  <2> QED
    BY <2>3, <2>4
<1> QED
  BY <1>6, <1>7, <1>8, <1>9, <1>10, <1>11, <1>12, <1>13, <1>14 DEF SessionSteps

LEMMA RowsTypes ==
  ASSUME Types, rows' \in [SessionIds -> Row], UNCHANGED <<user, made, given, spent, req, counted>>
  PROVE  Types'
BY DEF Types, TypeOK, At

\* What happens to a session between requests.
LEMMA SessionEvents ==
  ASSUME Types, NEW i \in SessionIds, EndSession(i) \/ GraceEnds(i) \/ Expire(i)
  PROVE  /\ UNCHANGED <<user, made, given, spent, req, counted>>
         /\ rows' \in [SessionIds -> Row]
         /\ rows[i] # NoRow
         /\ \A j \in SessionIds : rows'[j] = rows[j] \/ rows'[j] = NoRow
                                  \/ (rows[j] # NoRow /\ rows'[j].token = rows[j].token)
<1>1. rows \in [SessionIds -> Row] /\ rows[i] \in Row
  BY DEF Types, TypeOK
<1>2. UNCHANGED <<user, made, given, spent, req, counted>>
  BY DEF EndSession, GraceEnds, Expire
<1>3. CASE EndSession(i)
  <2>1. rows[i] # NoRow /\ Delete({i})
    BY <1>3 DEF EndSession
  <2> QED
    BY <1>2, <2>1, DeleteTypes
<1>4. ASSUME NEW row \in Row, rows' = [rows EXCEPT ![i] = row], row.token = rows[i].token, rows[i] # NoRow
      PROVE  /\ rows' \in [SessionIds -> Row]
             /\ \A j \in SessionIds : rows'[j] = rows[j] \/ rows'[j] = NoRow
                                      \/ (rows[j] # NoRow /\ rows'[j].token = rows[j].token)
  BY <1>1, <1>4
<1>5. ASSUME NEW on \in BOOLEAN
      PROVE  /\ [rows[i] EXCEPT !.grace = on] \in Row /\ [rows[i] EXCEPT !.expired = on] \in Row
             /\ [rows[i] EXCEPT !.grace = on].token = rows[i].token
             /\ [rows[i] EXCEPT !.expired = on].token = rows[i].token
  BY <1>1 DEF Row
<1>6. CASE GraceEnds(i)
  <2> DEFINE row == [rows[i] EXCEPT !.grace = FALSE]
  <2>1. rows' = [rows EXCEPT ![i] = row] /\ row \in Row /\ row.token = rows[i].token
    BY <1>5, <1>6, Zenon DEF GraceEnds
  <2>2. ~NoRow.grace
    BY DEF NoRow
  <2>3. rows[i] # NoRow
    BY <1>6, <2>2, Zenon DEF GraceEnds
  <2> HIDE DEF row
  <2> QED
    BY <1>2, <1>4, <2>1, <2>3
<1>7. CASE Expire(i)
  <2> DEFINE row == [rows[i] EXCEPT !.expired = TRUE]
  <2>1. rows' = [rows EXCEPT ![i] = row] /\ row \in Row /\ row.token = rows[i].token
    BY <1>5, <1>7, Zenon DEF Expire
  <2>2. rows[i] # NoRow
    BY <1>7 DEF Expire
  <2> HIDE DEF row
  <2> QED
    BY <1>2, <1>4, <2>1, <2>2
<1> QED
  BY <1>3, <1>6, <1>7

\* Both sides of the ledger move alike, and neither below zero.
LEMMA UsageStep ==
  ASSUME Types, NEW d \in Int, AddUsedBytes(d)
  PROVE  Types' /\ (UsageKept => UsageKept') /\ user # Gone /\ UNCHANGED <<sessionVars, req>>
<1>1. user \in Good /\ user \in User /\ user.used \in Nat /\ counted \in Nat /\ user # Gone
  BY DEF AddUsedBytes, Types, TypeOK, Good, User
<1>2. /\ Clamp(user.used + d) \in Nat /\ counted' \in Nat /\ counted' = Clamp(counted + d)
      /\ UNCHANGED <<sessionVars, req>>
  BY <1>1 DEF Clamp, AddUsedBytes
<1>3. user' = [user EXCEPT !.used = Clamp(user.used + d)]
  BY <1>1 DEF AddUsedBytes
<1>4. user' \in Good /\ user'.used = Clamp(user.used + d)
  BY <1>1, <1>2, <1>3, RecordEdits
<1>5. Types'
  BY <1>2, <1>4 DEF Types, TypeOK, At, sessionVars, Good
<1>6. UsageKept => UsageKept'
  BY <1>1, <1>2, <1>4 DEF UsageKept
<1> QED
  BY <1>1, <1>2, <1>5, <1>6

---------------------------------------------------------------------------
(* Every step keeps the types, and the usage.                              *)

LEMMA SessionStepsUser ==
  ASSUME NEW r \in Requests, SessionSteps(r)
  PROVE  UNCHANGED <<user, counted>>
BY DEF SessionSteps, RevokeList, RevokeDelete, PruneExpired, EvictList, EvictDelete, CreateSession,
       Refresh, RefreshSwap, RefreshReject

LEMMA TypesStep ==
  ASSUME Types, [Next]_vars
  PROVE  Types' /\ (UsageKept => UsageKept') /\ (user = Gone => user' = Gone)
<1> DEFINE Kept == Types' /\ (UsageKept => UsageKept') /\ (user = Gone => user' = Gone)
<1>1. ASSUME UNCHANGED vars PROVE Kept
  BY <1>1 DEF vars, sessionVars, Types, TypeOK, At, UsageKept
<1>2. ASSUME NEW r \in Requests, user # Gone, UserSteps(r) PROVE Kept
  BY <1>2, UserStepsTypes DEF Asked, UsageKept
<1>3. ASSUME NEW r \in Requests, Write(r) PROVE Kept
  BY <1>3, WriteTypes DEF UsageKept
<1>4. ASSUME NEW r \in Requests, SessionSteps(r) PROVE Kept
  BY <1>4, SessionStepsTypes, SessionStepsUser DEF UsageKept
<1>5. ASSUME NEW d \in Int, AddUsedBytes(d) PROVE Kept
  BY <1>5, UsageStep
<1>6. ASSUME NEW i \in SessionIds, EndSession(i) \/ GraceEnds(i) \/ Expire(i) PROVE Kept
  BY <1>6, SessionEvents, RowsTypes DEF UsageKept
<1> HIDE DEF Kept
<1>7. ASSUME AddUsedBytes(1) \/ AddUsedBytes(-1) PROVE Kept
  <2>1. PICK d \in {1, -1} : AddUsedBytes(d)
    BY <1>7, Zenon
  <2>2. d \in Int
    OBVIOUS
  <2> QED
    BY <1>5, <2>1, <2>2, Zenon
<1>8. Kept
  BY <1>1, <1>2, <1>3, <1>4, <1>6, <1>7 DEF Next
<1> QED
  BY <1>8 DEF Kept

---------------------------------------------------------------------------
(* Cookies and sessions.                                                   *)

\* What a step does with the cookies: the newest of each session stays good,
\* and a session that is gone stays so.
CookiesKept ==
  /\ NewestCookieGood => NewestCookieGood'
  /\ \A c \in given : rows[c[1]] = NoRow => rows'[c[1]] = NoRow

\* No session gets another token unless a cookie is handed out.
LEMMA SameTokens ==
  ASSUME Types, UNCHANGED <<given, spent>>,
         \A j \in SessionIds : rows'[j] = rows[j] \/ rows'[j] = NoRow
                                 \/ (rows[j] # NoRow /\ rows'[j].token = rows[j].token)
  PROVE  CookiesKept
<1>1. \A c \in given : c[1] \in SessionIds
  BY DEF Types, TypeOK
<1> QED
  BY <1>1 DEF CookiesKept, NewestCookieGood

LEMMA DeleteCookies ==
  ASSUME Types, NEW ids, Delete(ids), UNCHANGED <<given, spent>>
  PROVE  CookiesKept /\ Live' \subseteq Live
<1>1. \A i \in SessionIds : rows'[i] = IF i \in ids THEN NoRow ELSE rows[i]
  BY DeleteTypes
<1> QED
  BY <1>1, SameTokens DEF Live

\* A new session has an id that no cookie names.
LEMMA CreateCookies ==
  ASSUME Types, NEW r \in Requests, CreateSession(r)
  PROVE  CookiesKept /\ \E i \in SessionIds : Live' \subseteq Live \cup {i}
<1>1. PICK i \in Unused :
        /\ rows' = [rows EXCEPT ![i] = [NoRow EXCEPT !.token = made + 1, !.ver = req[r].ver]]
        /\ given' = given \cup {<<i, made + 1>>}
  BY DEF CreateSession
<1> DEFINE row == [NoRow EXCEPT !.token = made + 1, !.ver = req[r].ver]
<1>2. row.token = made + 1
  BY DEF NoRow
<1>3. i \in SessionIds /\ (\A c \in given : c[1] # i /\ c[1] \in SessionIds) /\ UNCHANGED spent
  BY DEF Unused, Types, TypeOK, CreateSession
<1>4. rows \in [SessionIds -> Row] /\ rows' = [rows EXCEPT ![i] = row]
  BY <1>1 DEF Types, TypeOK
<1> HIDE DEF row
<1>5. rows'[i] = row /\ \A j \in SessionIds : j # i => rows'[j] = rows[j]
  BY <1>3, <1>4
<1>6. ASSUME NewestCookieGood PROVE NewestCookieGood'
  <2> SUFFICES ASSUME NEW c \in given', c[2] \notin spent', rows'[c[1]] # NoRow
               PROVE  c[2] = rows'[c[1]].token
    BY DEF NewestCookieGood
  <2>1. CASE c \in given
    BY <1>3, <1>5, <1>6, <2>1 DEF NewestCookieGood
  <2>2. CASE c = <<i, made + 1>>
    BY <1>2, <1>5, <2>2
  <2> QED
    BY <1>1, <2>1, <2>2
<1>7. Live' \subseteq Live \cup {i}
  BY <1>5 DEF Live
<1> QED
  BY <1>3, <1>5, <1>6, <1>7 DEF CookiesKept

\* The token that a refresh replaces is the stored one, and is spent with it.
LEMMA SwapCookies ==
  ASSUME Types, NEW r \in Requests, RefreshSwap(r)
  PROVE  CookiesKept /\ Live' \subseteq Live
<1>1. /\ rows \in [SessionIds -> Row] /\ \A c \in given : c[1] \in SessionIds
      /\ req[r].ids \in SUBSET SessionIds
  BY DEF Types, TypeOK, Handler
<1>2. PICK i \in req[r].ids :
        IF Swaps(r, i)
        THEN /\ made' = made + 1
             /\ rows' = [rows EXCEPT ![i].token = made', ![i].prev = req[r].token, ![i].grace = TRUE]
             /\ given' = given \cup {<<i, made'>>} /\ spent' = spent \cup {req[r].token}
        ELSE UNCHANGED sessionVars
  BY DEF RefreshSwap
<1>3. CASE ~Swaps(r, i)
  BY <1>2, <1>3, SameTokens DEF sessionVars, Live
<1>4. CASE Swaps(r, i)
  <2> DEFINE row == [rows[i] EXCEPT !.token = made', !.prev = req[r].token, !.grace = TRUE]
  <2>1. /\ i \in SessionIds /\ rows[i] \in Row /\ rows[i] # NoRow /\ rows[i].token = req[r].token
        /\ given' = given \cup {<<i, made'>>} /\ spent' = spent \cup {req[r].token}
    BY <1>1, <1>2, <1>4 DEF Swaps
  <2>2. row.token = made'
    BY <2>1 DEF Row
  <2>3. rows' = [rows EXCEPT ![i] = row]
    BY <1>1, <1>2, <1>4, <2>1
  <2> HIDE DEF row
  <2>4. rows'[i] = row /\ \A j \in SessionIds : j # i => rows'[j] = rows[j]
    BY <1>1, <2>1, <2>3
  <2>5. ASSUME NewestCookieGood PROVE NewestCookieGood'
    <3> SUFFICES ASSUME NEW c \in given', c[2] \notin spent', rows'[c[1]] # NoRow
                 PROVE  c[2] = rows'[c[1]].token
      BY DEF NewestCookieGood
    <3>1. CASE c = <<i, made'>>
      BY <2>2, <2>4, <3>1
    <3>2. CASE c \in given /\ c[1] # i
      BY <1>1, <2>1, <2>4, <2>5, <3>2 DEF NewestCookieGood
    <3>3. CASE c \in given /\ c[1] = i
      BY <2>1, <2>5, <3>3 DEF NewestCookieGood
    <3> QED
      BY <2>1, <3>1, <3>2, <3>3
  <2>6. Live' \subseteq Live
    BY <2>1, <2>4 DEF Live
  <2> QED
    BY <1>1, <2>1, <2>4, <2>5, <2>6 DEF CookiesKept
<1> QED
  BY <1>3, <1>4

---------------------------------------------------------------------------
(* Room for one more session.                                              *)

LEMMA RequestSets ==
  /\ IsFiniteSet(Requests) /\ Cardinality(Requests) \in Nat
  /\ \A S \in SUBSET Requests : IsFiniteSet(S) /\ Cardinality(S) \in Nat
                                 /\ Cardinality(S) <= Cardinality(Requests)
BY RequestsAssumption, FS_Subset, FS_CardinalityType

\* Fewer sessions, and fewer requests that count, leave as much room.
LEMMA RoomKept ==
  ASSUME Room, Live' \subseteq Live, Creating' \subseteq Creating, Evicting' \subseteq Evicting,
         \A q \in Evicting' : req'[q].ids = req[q].ids
  PROVE  Room'
<1>1. IsFiniteSet(Live) /\ IsFiniteSet(Live')
  BY FS_Subset DEF Room
<1>2. ASSUME NEW S \in SUBSET Evicting'
      PROVE  Cardinality(Left(S)') + Cardinality(Creating') + Cardinality(S) <= Limit
  <2>1. Left(S)' \subseteq Left(S) /\ Left(S) \subseteq Live
    BY DEF Left
  <2>2. IsFiniteSet(Left(S)) /\ IsFiniteSet(Creating) /\ Cardinality(S) \in Nat /\ S \in SUBSET Evicting
    BY <1>1, <2>1, FS_Subset, RequestSets DEF Creating, Evicting
  <2>3. /\ Cardinality(Left(S)') <= Cardinality(Left(S)) /\ Cardinality(Creating') <= Cardinality(Creating)
        /\ Cardinality(Left(S)) \in Nat /\ Cardinality(Creating) \in Nat
        /\ Cardinality(Left(S)') \in Nat /\ Cardinality(Creating') \in Nat
    BY <2>1, <2>2, FS_Subset, FS_CardinalityType
  <2>4. Cardinality(Left(S)) + Cardinality(Creating) + Cardinality(S) <= Limit
    BY <2>2 DEF Room
  <2>5. Limit \in Int
    BY LimitsAssumption, RequestSets DEF Limit
  <2> QED
    BY <2>2, <2>3, <2>4, <2>5
<1> QED
  BY <1>1, <1>2 DEF Room, Limit

LEMMA MovesRoom ==
  ASSUME Room, NEW r \in Requests, Moves(r), Live' \subseteq Live
  PROVE  Room'
<1>1. /\ Creating' \subseteq Creating /\ Evicting' \subseteq Evicting
      /\ \A q \in Evicting' : req'[q].ids = req[q].ids
  BY DEF Moves, Creating, Evicting, At
<1> QED
  BY <1>1, RoomKept

\* Who makes room lists enough sessions to leave one less than the limit.
LEMMA EvictListRoom ==
  ASSUME Types, Room, NEW r \in Requests, EvictList(r)
  PROVE  Room'
<1>1. PICK old \in SUBSET Live :
        /\ Cardinality(old) = Surplus(Cardinality(Live))
        /\ Become(r, [req[r] EXCEPT !.pc = "evictDelete", !.ids = old])
  BY DEF EvictList
<1> DEFINE new == [req[r] EXCEPT !.pc = "evictDelete", !.ids = old]
<1>2. new.pc = "evictDelete" /\ new.ids = old
  BY DEF Types, Handler
<1>3. req'[r] = new /\ (\A q \in Requests \ {r} : req'[q] = req[q]) /\ req[r].pc = "evict"
  BY <1>1 DEF Types, Become, EvictList, At
<1> HIDE DEF new
<1>4. UNCHANGED rows
  BY DEF EvictList, sessionVars
<1>5. Live' = Live /\ Creating' = Creating /\ Evicting' = Evicting \cup {r} /\ r \notin Creating
  BY <1>2, <1>3, <1>4 DEF Live, Creating, Evicting, At
<1>6. IsFiniteSet(Live) /\ Cardinality(Live) \in Nat
  BY FS_CardinalityType DEF Room
<1>7. ASSUME NEW S \in SUBSET Evicting'
      PROVE  Cardinality(Left(S)') + Cardinality(Creating') + Cardinality(S) <= Limit
  <2>1. CASE r \notin S
    <3>1. S \in SUBSET Evicting /\ \A q \in S : req'[q] = req[q]
      BY <1>3, <1>5, <2>1 DEF Evicting
    <3>2. Left(S)' = Left(S)
      BY <1>5, <3>1 DEF Left
    <3> QED
      BY <1>5, <3>1, <3>2 DEF Room
  <2>2. CASE r \in S
    <3>1. Left(S)' \subseteq Live \ old
      BY <1>2, <1>3, <1>5, <2>2 DEF Left
    <3>2. IsFiniteSet(old) /\ IsFiniteSet(Live \ old) /\ Live \cap old = old
      BY <1>6, FS_Subset
    <3>3. Cardinality(Live \ old) = Cardinality(Live) - Cardinality(old)
      BY <1>6, <3>2, FS_Difference
    <3>4. Cardinality(Live \ old) <= MaxSessions - 1
      BY <1>1, <1>6, <3>3, LimitsAssumption DEF Surplus
    <3>5. /\ Cardinality(Left(S)') <= Cardinality(Live \ old) /\ Cardinality(Left(S)') \in Nat
          /\ Cardinality(Live \ old) \in Nat
      BY <3>1, <3>2, FS_Subset, FS_CardinalityType
    <3>6. Cardinality(Creating) + Cardinality(S) <= Cardinality(Requests)
      <4>1. Creating \in SUBSET Requests /\ S \in SUBSET Requests /\ Creating \cup S \in SUBSET Requests
        BY DEF Creating, Evicting
      <4>2. Creating \cap S = {}
        BY <1>5 DEF Creating, Evicting, At
      <4>3. Cardinality(Creating \cup S) = Cardinality(Creating) + Cardinality(S) - 0
        BY <4>1, <4>2, RequestSets, FS_Union, FS_EmptySet
      <4> QED
        BY <4>1, <4>3, RequestSets
    <3>7. Cardinality(Creating) \in Nat /\ Cardinality(S) \in Nat /\ Cardinality(Requests) \in Nat
      BY RequestSets DEF Creating, Evicting
    <3> QED
      BY <1>5, <3>4, <3>5, <3>6, <3>7, LimitsAssumption DEF Limit
  <2> QED
    BY <2>1, <2>2
<1> QED
  BY <1>5, <1>6, <1>7 DEF Room, Limit

\* Whoever deletes what it has listed was counted as if it had.
LEMMA EvictDeleteRoom ==
  ASSUME Types, Room, NEW r \in Requests, EvictDelete(r)
  PROVE  Room'
<1> DEFINE new == [req[r] EXCEPT !.pc = "create", !.ids = {}]
<1>1. new.pc = "create"
  BY DEF Types, Handler
<1>2. /\ req'[r] = new /\ (\A q \in Requests \ {r} : req'[q] = req[q]) /\ req[r].pc = "evictDelete"
      /\ Delete(req[r].ids)
  BY DEF Types, Become, EvictDelete, At
<1> HIDE DEF new
<1>3. \A i \in SessionIds : rows'[i] = IF i \in req[r].ids THEN NoRow ELSE rows[i]
  BY <1>2, DeleteTypes
<1>4. /\ Live' = Live \ req[r].ids /\ r \in Evicting /\ r \notin Creating
      /\ Creating' = Creating \cup {r} /\ Evicting' = Evicting \ {r}
  BY <1>1, <1>2, <1>3 DEF Live, Creating, Evicting, At
<1>5. IsFiniteSet(Live')
  BY <1>4, FS_Subset DEF Room
<1>6. ASSUME NEW S \in SUBSET Evicting'
      PROVE  Cardinality(Left(S)') + Cardinality(Creating') + Cardinality(S) <= Limit
  <2> DEFINE T == S \cup {r}
  <2>1. T \in SUBSET Evicting /\ r \notin S /\ \A q \in S : req'[q] = req[q]
    BY <1>2, <1>4 DEF Evicting
  <2>2. Left(S)' = Left(T)
    BY <1>4, <2>1 DEF Left
  <2>3. Cardinality(Left(T)) + Cardinality(Creating) + Cardinality(T) <= Limit
    BY <2>1 DEF Room
  <2>4. /\ IsFiniteSet(Creating) /\ IsFiniteSet(S) /\ IsFiniteSet(Left(T))
        /\ Cardinality(Creating) \in Nat /\ Cardinality(S) \in Nat /\ Cardinality(Left(T)) \in Nat
    BY RequestSets, FS_Subset, FS_CardinalityType DEF Creating, Evicting, Left, Room
  <2>5. Cardinality(T) = Cardinality(S) + 1 /\ Cardinality(Creating') = Cardinality(Creating) + 1
    BY <1>4, <2>1, <2>4, FS_AddElement
  <2>6. Limit \in Int
    BY LimitsAssumption, RequestSets DEF Limit
  <2> HIDE DEF T
  <2> QED
    BY <2>2, <2>3, <2>4, <2>5, <2>6
<1> QED
  BY <1>5, <1>6 DEF Room, Limit

\* A session that is created takes the place of its request.
LEMMA CreateRoom ==
  ASSUME Types, Room, NEW r \in Requests, CreateSession(r)
  PROVE  Room'
<1>1. PICK i \in SessionIds : Live' \subseteq Live \cup {i}
  BY CreateCookies
<1>2. req'[r] = Idle /\ (\A q \in Requests \ {r} : req'[q] = req[q]) /\ req[r].pc = "create"
  BY DEF Types, Become, CreateSession, Finish, At
<1>3. /\ r \in Creating /\ Creating' = Creating \ {r} /\ Evicting' = Evicting
      /\ \A q \in Evicting : req'[q] = req[q]
  <2>1. req'[r].pc = "idle"
    BY <1>2, HandlerTypes
  <2> QED
    BY <1>2, <2>1 DEF Creating, Evicting, At
<1>4. IsFiniteSet(Live) /\ IsFiniteSet(Live \cup {i}) /\ IsFiniteSet(Live')
  BY <1>1, FS_AddElement, FS_Subset DEF Room
<1>5. ASSUME NEW S \in SUBSET Evicting'
      PROVE  Cardinality(Left(S)') + Cardinality(Creating') + Cardinality(S) <= Limit
  <2>1. Left(S)' \subseteq Left(S) \cup {i} /\ Left(S) \subseteq Live
    BY <1>1, <1>3 DEF Left
  <2>2. /\ IsFiniteSet(Left(S)) /\ IsFiniteSet(Left(S) \cup {i}) /\ IsFiniteSet(Left(S)')
        /\ IsFiniteSet(Creating)
    BY <1>4, <2>1, FS_AddElement, FS_Subset, RequestSets DEF Creating
  <2>3. /\ Cardinality(Left(S)) \in Nat /\ Cardinality(Left(S)') \in Nat
        /\ Cardinality(S) \in Nat /\ Cardinality(Creating) \in Nat
    BY <1>3, <2>2, FS_CardinalityType, RequestSets DEF Evicting
  <2>4. Cardinality(Left(S)') <= Cardinality(Left(S) \cup {i})
    BY <2>1, <2>2, FS_Subset
  <2>5. Cardinality(Left(S) \cup {i}) <= Cardinality(Left(S)) + 1
    BY <2>2, <2>3, FS_AddElement
  <2>6. Cardinality(Creating') = Cardinality(Creating) - 1
    BY <1>3, <2>2, FS_RemoveElement
  <2>7. Cardinality(Left(S)) + Cardinality(Creating) + Cardinality(S) <= Limit
    BY <1>3 DEF Room
  <2>8. Limit \in Int /\ Cardinality(Left(S) \cup {i}) \in Nat
    BY <2>2, FS_CardinalityType, LimitsAssumption, RequestSets DEF Limit
  <2> QED
    BY <2>3, <2>4, <2>5, <2>6, <2>7, <2>8
<1> QED
  BY <1>4, <1>5 DEF Room, Limit

---------------------------------------------------------------------------
(* Every step keeps the cookies and the room.                              *)

LEMMA SessionStepsKeep ==
  ASSUME Types, NEW r \in Requests, SessionSteps(r)
  PROVE  CookiesKept /\ (Room => Room')
<1>1. req[r] \in Handler /\ Idle \in Handler /\ Idle.pc = "idle" /\ Live \in SUBSET SessionIds
  BY HandlerTypes DEF Types, Live
<1>2. /\ {} \in SUBSET SessionIds /\ "revokeDelete" \in Stages /\ "prune" \in Stages
      /\ "evict" \in Stages
  BY DEF Stages
<1>3. ASSUME NEW new, Become(r, new), new.pc \notin {"create", "evictDelete"}, Live' \subseteq Live
      PROVE  Room => Room'
  BY <1>3, BecomeMoves, MovesRoom
<1>4. ASSUME UNCHANGED sessionVars PROVE CookiesKept /\ Live' \subseteq Live
  BY <1>4, SameTokens DEF sessionVars, Live
<1>5. CASE RevokeList(r)
  BY <1>1, <1>2, <1>3, <1>4, <1>5, HandlerTypes DEF RevokeList
<1>6. CASE RevokeDelete(r)
  BY <1>1, <1>2, <1>3, <1>6, DeleteCookies, HandlerTypes DEF RevokeDelete, Finish
<1>7. CASE PruneExpired(r)
  BY <1>1, <1>2, <1>3, <1>7, DeleteCookies, HandlerTypes DEF PruneExpired, Goto, Become
<1>8. CASE EvictList(r)
  <2>1. UNCHANGED sessionVars
    BY <1>8 DEF EvictList
  <2> QED
    BY <1>4, <1>8, <2>1, EvictListRoom
<1>9. CASE EvictDelete(r)
  <2>1. Delete(req[r].ids) /\ UNCHANGED <<given, spent>>
    BY <1>9 DEF EvictDelete
  <2> QED
    BY <1>9, <2>1, DeleteCookies, EvictDeleteRoom
<1>10. CASE CreateSession(r)
  BY <1>10, CreateCookies, CreateRoom
<1>11. CASE Refresh(r)
  <2>1. PICK c \in given :
          Begin(r, [Idle EXCEPT !.pc = IF Current(c) THEN "swap" ELSE "reject",
                                !.ids = {c[1]}, !.token = IF Current(c) THEN c[2] ELSE 0])
    BY <1>11 DEF Refresh
  <2> DEFINE new == [Idle EXCEPT !.pc = IF Current(c) THEN "swap" ELSE "reject",
                                 !.ids = {c[1]}, !.token = IF Current(c) THEN c[2] ELSE 0]
  <2>2. new.pc \in {"swap", "reject"}
    BY DEF Idle
  <2>3. Become(r, new) /\ UNCHANGED sessionVars
    BY <1>11, <2>1 DEF Begin, Refresh
  <2> HIDE DEF new
  <2> QED
    BY <1>3, <1>4, <2>2, <2>3
<1>12. CASE RefreshSwap(r)
  <2>1. Become(r, Idle)
    BY <1>12 DEF RefreshSwap, Finish
  <2> QED
    BY <1>1, <1>3, <1>12, <2>1, SwapCookies
<1>13. CASE RefreshReject(r)
  BY <1>1, <1>3, <1>13, DeleteCookies DEF RefreshReject, Finish
<1> QED
  BY <1>5, <1>6, <1>7, <1>8, <1>9, <1>10, <1>11, <1>12, <1>13 DEF SessionSteps

LEMMA SessionsStep ==
  ASSUME Types, [Next]_vars
  PROVE  CookiesKept /\ (Room => Room')
<1> DEFINE Kept == CookiesKept /\ (Room => Room')
<1>1. ASSUME UNCHANGED <<sessionVars, req>> PROVE Kept
  <2>1. UNCHANGED <<given, spent, rows, req>> /\ Live' = Live
    BY <1>1 DEF sessionVars, Live
  <2>2. Creating' = Creating /\ Evicting' = Evicting
    BY <2>1 DEF Creating, Evicting, At
  <2> QED
    BY <2>1, <2>2, SameTokens, RoomKept
<1>2. ASSUME NEW r \in Requests, UNCHANGED sessionVars, Moves(r) PROVE Kept
  BY <1>2, SameTokens, MovesRoom DEF sessionVars, Live
<1>3. ASSUME NEW r \in Requests, user # Gone, UserSteps(r) PROVE Kept
  <2>1. UNCHANGED sessionVars /\ Moves(r)
    BY <1>3, UserStepsTypes DEF Asked
  <2> QED
    BY <1>2, <2>1
<1>4. ASSUME NEW r \in Requests, Write(r) PROVE Kept
  <2>1. UNCHANGED sessionVars /\ Moves(r)
    BY <1>4, WriteTypes
  <2> QED
    BY <1>2, <2>1
<1>5. ASSUME NEW r \in Requests, SessionSteps(r) PROVE Kept
  BY <1>5, SessionStepsKeep
<1>6. ASSUME AddUsedBytes(1) \/ AddUsedBytes(-1) PROVE Kept
  <2>1. UNCHANGED <<sessionVars, req>>
    BY <1>6 DEF AddUsedBytes
  <2> QED
    BY <1>1, <2>1
<1>7. ASSUME NEW i \in SessionIds, EndSession(i) \/ GraceEnds(i) \/ Expire(i) PROVE Kept
  <2>1. /\ UNCHANGED <<given, spent, req>>
        /\ \A j \in SessionIds : rows'[j] = rows[j] \/ rows'[j] = NoRow
                                 \/ (rows[j] # NoRow /\ rows'[j].token = rows[j].token)
    BY <1>7, SessionEvents
  <2>2. Live' \subseteq Live /\ Creating' = Creating /\ Evicting' = Evicting
    BY <2>1 DEF Live, Creating, Evicting, At
  <2> QED
    BY <2>1, <2>2, SameTokens, RoomKept
<1>8. ASSUME UNCHANGED vars PROVE Kept
  BY <1>1, <1>8 DEF vars
<1> HIDE DEF Kept
<1>9. Kept
  BY <1>3, <1>4, <1>5, <1>6, <1>7, <1>8 DEF Next
<1> QED
  BY <1>9 DEF Kept

---------------------------------------------------------------------------
(* The theorems.                                                           *)

LEMMA InitInv == Init => AccountsInv
<1> SUFFICES ASSUME Init PROVE AccountsInv
  OBVIOUS
<1>1. Types
  BY InitTypes
<1>2. UsageKept
  BY DEF Init, TotpUser, UsageKept
<1>3. NewestCookieGood
  BY DEF Init, NewestCookieGood
<1>4. Room
  <2>1. Live = {}
    BY DEF Init, Live
  <2>2. Creating = {} /\ Evicting = {}
    BY HandlerTypes DEF Init, Creating, Evicting, At
  <2>3. \A S \in SUBSET Evicting : Left(S) = {} /\ S = {}
    BY <2>1, <2>2 DEF Left
  <2>4. 0 + 0 + 0 <= Limit
    BY LimitsAssumption, RequestSets DEF Limit
  <2> QED
    BY <2>1, <2>2, <2>3, <2>4, FS_EmptySet DEF Room
<1> QED
  BY <1>1, <1>2, <1>3, <1>4 DEF AccountsInv

LEMMA Invariant == Spec => []AccountsInv
<1>1. AccountsInv /\ [Next]_vars => AccountsInv'
  BY TypesStep, SessionsStep DEF AccountsInv, CookiesKept
<1> QED
  BY <1>1, InitInv, PTL DEF Spec

\* The record, the sessions, the tokens and the cookies keep their types.
THEOREM AccountsTypes == Spec => []TypeOK
<1>1. AccountsInv => TypeOK
  BY DEF AccountsInv, Types
<1> QED
  BY <1>1, Invariant, PTL

\* The usage in the record is the usage that was counted, whatever copies of
\* the record handlers write over it (Update keeps the live value).
THEOREM UsageSurvivesUpdates == Spec => []UsageKept
<1>1. AccountsInv => UsageKept
  BY DEF AccountsInv
<1> QED
  BY <1>1, Invariant, PTL

\* Without two-factor there is no backup code and no trusted device, whichever
\* copies of the record handlers overwrite (TotpDisable).
THEOREM NothingWithoutTotp == Spec => []RecordCoherent
<1>1. AccountsInv => RecordCoherent
  BY DEF AccountsInv, Types, Good, RecordCoherent
<1> QED
  BY <1>1, Invariant, PTL

\* Of the refreshes of one session at the same time, one gets a cookie, and it
\* is the one the session expects (Swap).
THEOREM OneRefreshWins == Spec => []NewestCookieGood
<1>1. AccountsInv => NewestCookieGood
  BY DEF AccountsInv
<1> QED
  BY <1>1, Invariant, PTL

\* The limit on sessions holds but for the logins at the same time, however
\* many there are (maxRefreshSessions).
THEOREM SessionsLimited == Spec => []SessionsBounded
<1>1. AccountsInv => SessionsBounded
  <2> SUFFICES ASSUME Room PROVE SessionsBounded
    BY DEF AccountsInv
  <2>1. Left({}) = Live /\ {} \in SUBSET Evicting /\ Cardinality({}) = 0
    BY FS_EmptySet DEF Left
  <2>2. Cardinality(Live) + Cardinality(Creating) + 0 <= Limit
    BY <2>1 DEF Room
  <2>3. Cardinality(Live) \in Nat /\ Cardinality(Creating) \in Nat /\ Limit \in Int
    BY FS_CardinalityType, RequestSets, LimitsAssumption DEF Room, Creating, Limit
  <2> QED
    BY <2>2, <2>3 DEF SessionsBounded, Limit
<1> QED
  BY <1>1, Invariant, PTL

\* A deleted user stays deleted, and so does a session, whatever update or
\* refresh was under way (Update, Swap).
THEOREM DeletedStaysDeleted == Spec => DeletedForGood
<1>1. AccountsInv /\ [Next]_vars =>
        [/\ user = Gone => user' = Gone
         /\ \A c \in given : rows[c[1]] = NoRow => rows'[c[1]] = NoRow]_vars
  BY TypesStep, SessionsStep DEF AccountsInv, CookiesKept
<1> QED
  BY <1>1, Invariant, PTL DEF Spec, DeletedForGood
=============================================================================
